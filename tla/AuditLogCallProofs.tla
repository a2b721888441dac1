------------------------- MODULE AuditLogCallProofs -------------------------
(***************************************************************************)
(* Theorems about the single record() call: that it is in the file at most *)
(* once, not at all when it was refused, and for good when it returned.    *)
(* They hold, like those of AuditLogProofs, for every value of the         *)
(* constants.                                                              *)
(***************************************************************************)
EXTENDS AuditLogProofs

-----------------------------------------------------------------------------
(* The calls under way *)

InRecord == {"lock"} \cup RecordHolding

\* A call is running exactly while one thread is in record() for it; the lock
\* is held exactly while that thread is in the critical section; and the text
\* layer is empty while a large line goes out.
CallsInv ==
    /\ \A t \in Threads : pc[t] \in InRecord => outcome[call[t]] = "running"
    /\ \A t, u \in Threads :
         pc[t] \in InRecord /\ pc[u] \in InRecord /\ call[t] = call[u] => t = u
    /\ \A c \in Calls :
         outcome[c] = "running" => \E t \in Threads : pc[t] \in InRecord /\ call[t] = c
    /\ \A t \in Threads : pc[t] \in RecordHolding => entry[t].call = call[t]
    /\ lock # NoThread => \E t \in Threads : lock = t /\ pc[t] \in RecordHolding
    /\ \A t \in Threads : pc[t] = "bigwrite" => pending = << >>

LEMMA CallsInit == Init => CallsInv
BY DEF Init, CallsInv, InRecord, RecordHolding

LEMMA NoInstanceCalls ==
    ASSUME TypeOK, NoInstance, outcome' = Abandoned
    PROVE  CallsInv'
BY DEF NoInstance, CallsInv, InRecord, RecordHolding, Abandoned, TypeOK

\* A thread leaves record(), and nothing is left in the text layer by it.
LEMMA ReturnCalls ==
    ASSUME TypeInv, Control, CallsInv, NEW t \in Threads, NEW result \in Outcome \ {"running"},
           pc[t] \in InRecord, lock \in {t, NoThread}, Return(t, result), UNCHANGED pending
    PROVE  CallsInv'
<1> USE DEF TypeInv, TypeOK, InRecord, RecordHolding, Return
<1>1. \A u \in Threads \ {t} : pc[u] \notin RecordHolding
  BY AuditLogAssumption DEF Control
<1>2. \A u \in Threads : pc'[u] \in InRecord =>
        u # t /\ pc'[u] = pc[u] /\ call'[u] = call[u] /\ entry'[u] = entry[u]
  OBVIOUS
<1>3. call[t] \in Calls /\ \A c \in Calls : outcome'[c] = IF c = call[t] THEN result ELSE outcome[c]
  BY DEF LocalsTyped
<1>4. \A u \in Threads : pc'[u] \in InRecord => outcome'[call'[u]] = "running"
  BY <1>2, <1>3 DEF CallsInv, LocalsTyped
<1>5. \A c \in Calls :
        outcome'[c] = "running" => \E u \in Threads : pc'[u] \in InRecord /\ call'[u] = c
  <2>1. ASSUME NEW c \in Calls, outcome'[c] = "running"
        PROVE  \E u \in Threads : pc'[u] \in InRecord /\ call'[u] = c
    <3>1. PICK u \in Threads : pc[u] \in InRecord /\ call[u] = c
      BY <1>3, <2>1 DEF CallsInv
    <3>2. u # t
      BY <1>3, <2>1, <3>1
    <3> QED
      BY <3>1, <3>2
  <2> QED
    BY <2>1
<1> QED
  BY <1>1, <1>2, <1>4, <1>5 DEF CallsInv

\* A thread moves on inside the critical section.
LEMMA HoldingCalls ==
    ASSUME TypeInv, Control, CallsInv, NEW t \in Threads,
           pc[t] \in RecordHolding, NEW to \in RecordHolding,
           pc' = [pc EXCEPT ![t] = to], to = "bigwrite" => pending' = << >>,
           UNCHANGED << call, entry, lock, outcome >>
    PROVE  CallsInv'
<1> USE DEF TypeInv, TypeOK, InRecord
<1>1. /\ \A u \in Threads : pc'[u] \in InRecord <=> pc[u] \in InRecord
      /\ \A u \in Threads : pc'[u] \in RecordHolding <=> pc[u] \in RecordHolding
  BY DEF RecordHolding
<1>2. \A u \in Threads \ {t} : pc[u] # "bigwrite"
  BY AuditLogAssumption DEF Control, RecordHolding
<1> QED
  BY <1>1, <1>2 DEF CallsInv

\* A step of close(), or one that leaves the threads in record() where they are.
LEMMA OutsideCalls ==
    ASSUME TypeInv, CallsInv, UNCHANGED << call, entry, lock, outcome >>,
           pending' = pending \/ pending' = << >>,
           \A u \in Threads : pc'[u] = pc[u] \/ {pc[u], pc'[u]} \cap InRecord = {}
    PROVE  CallsInv'
<1>1. /\ \A u \in Threads : pc'[u] \in InRecord <=> pc[u] \in InRecord
      /\ \A u \in Threads : pc'[u] \in RecordHolding <=> pc[u] \in RecordHolding
      /\ \A u \in Threads : pc'[u] = "bigwrite" => pc[u] = "bigwrite"
  BY DEF InRecord, RecordHolding
<1> QED
  BY <1>1 DEF CallsInv

LEMMA CallsStep == TypeInv /\ Control /\ CallsInv /\ [Next]_vars => CallsInv'
<1> SUFFICES ASSUME TypeInv, Control, CallsInv, [Next]_vars PROVE CallsInv'
  OBVIOUS
<1> USE DEF InRecord
<1>t. pc \in [Threads -> PC] /\ TypeOK
  BY DEF TypeInv, TypeOK
<1>1. CASE UNCHANGED vars
  BY <1>1, OutsideCalls DEF vars, handle, instance, locals, history
<1>2. CASE Construct \/ Repair
  BY <1>2, OutsideCalls DEF Construct, Repair, handle, instance, locals, history
<1>3. CASE Exit
  <2>1. Abandoned = outcome
    BY <1>3, <1>t DEF Exit, Abandoned, CallsInv, RecordHolding, TypeOK
  <2> QED
    BY <1>3, <1>t, <2>1, NoInstanceCalls DEF Exit
<1>4. CASE Crash \/ PowerLoss
  BY <1>4, <1>t, NoInstanceCalls DEF Crash, PowerLoss
<1>5. ASSUME NEW t \in Threads, ThreadNext(t) PROVE CallsInv'
  <2>1. CASE FindClosed(t)
    BY <2>1, ReturnCalls DEF FindClosed, Outcome, handle
  <2>2. CASE BuildEvent(t)
    <3>1. \A u \in Threads : pc[u] \notin RecordHolding
      BY <2>2, AuditLogAssumption DEF BuildEvent, Control
    <3>2. /\ UNCHANGED << pending, call, outcome >> /\ lock' = t
          /\ pc'[t] = "write" /\ entry'[t].call = call[t]
          /\ \A u \in Threads \ {t} : pc'[u] = pc[u]
      BY <2>2, <1>t, MakeEventFields DEF BuildEvent, TypeOK, handle, history
    <3> QED
      BY <2>2, <3>1, <3>2 DEF BuildEvent, CallsInv, RecordHolding
  <2>3. CASE WriteSmall(t)
    BY <2>3, HoldingCalls DEF WriteSmall, RecordHolding, instance
  <2>4. CASE WriteBig(t)
    BY <2>4, HoldingCalls DEF WriteBig, RecordHolding, instance
  <2>5. CASE BigWriteDone(t)
    BY <2>5, HoldingCalls DEF BigWriteDone, RecordHolding, instance, history
  <2>6. CASE FlushStart(t)
    BY <2>6, HoldingCalls DEF FlushStart, RecordHolding, instance, history
  <2>7. CASE Drain(t)
    BY <2>7, OutsideCalls DEF Drain, instance, locals, history
  <2>8. CASE FlushDone(t)
    BY <2>8, HoldingCalls DEF FlushDone, AfterFlush, RecordHolding, instance, history
  <2>9. CASE Sync(t)
    BY <2>9, HoldingCalls DEF Sync, RecordHolding, instance, history
  <2>10. CASE AppendFails(t)
    BY <2>10, ReturnCalls DEF AppendFails, Control, Outcome, RecordHolding
  <2>11. CASE HandleGone(t)
    <3>1. PICK result \in {"value_error", "write_error"} : Return(t, result)
      BY <2>11 DEF HandleGone, GoneResults
    <3> QED
      BY <2>11, <3>1, ReturnCalls DEF HandleGone, Control, Outcome, RecordHolding, handle
  <2>12. CASE Interrupted(t)
    BY <2>12, ReturnCalls DEF Interrupted, Control, Outcome
  <2>13. CASE AdvanceSequence(t)
    BY <2>13, HoldingCalls DEF AdvanceSequence, RecordHolding, history
  <2>14. CASE AdvanceHash(t)
    BY <2>14, ReturnCalls DEF AdvanceHash, Control, Outcome, RecordHolding, handle
  <2>15. CASE CloseSet(t)
    BY <2>15, <1>t, OutsideCalls DEF CloseSet, RecordHolding, handle, history
  <2>16. CASE CloseFlushStart(t)
    BY <2>16, <1>t, OutsideCalls DEF CloseFlushStart, RecordHolding, instance, history
  <2>17. CASE CloseFlushDone(t) \/ CloseDone(t)
    BY <2>17, <1>t, OutsideCalls DEF CloseFlushDone, CloseDone, RecordHolding, instance
  <2>18. CASE CloseFindsClosed(t)
    BY <2>18, <1>t, OutsideCalls DEF CloseFindsClosed, RecordHolding, handle, instance, history
  <2> QED
    BY <1>5, <2>1, <2>2, <2>3, <2>4, <2>5, <2>6, <2>7, <2>8, <2>9, <2>10, <2>11,
       <2>12, <2>13, <2>14, <2>15, <2>16, <2>17, <2>18 DEF ThreadNext
<1>6. ASSUME NEW t \in Threads, CloseStart(t) PROVE CallsInv'
  BY <1>6, <1>t, OutsideCalls DEF CloseStart, RecordHolding, handle, instance, history
<1>7. ASSUME NEW t \in Threads, NEW c \in Calls, NEW args \in Arguments,
             RecordRefused(t, c, args)
      PROVE  CallsInv'
  <2>1. /\ UNCHANGED << pc, call, entry, lock, pending >> /\ outcome[c] = "unused"
        /\ \A d \in Calls : outcome'[d] = IF d = c THEN "refused" ELSE outcome[d]
    BY <1>7, <1>t DEF RecordRefused, TypeOK, handle, instance, locals
  <2>2. \A u \in Threads : pc[u] \in InRecord => call[u] \in Calls /\ call[u] # c
    BY <2>1 DEF CallsInv, TypeInv, LocalsTyped
  <2> QED
    BY <2>1, <2>2 DEF CallsInv
<1>8. ASSUME NEW t \in Threads, NEW c \in Calls, NEW args \in Arguments,
             RecordStart(t, c, args)
      PROVE  CallsInv'
  <2>1. /\ UNCHANGED << entry, lock, pending >> /\ outcome[c] = "unused" /\ pc[t] = "idle"
        /\ \A d \in Calls : outcome'[d] = IF d = c THEN "running" ELSE outcome[d]
        /\ pc'[t] = "lock" /\ call'[t] = c
        /\ \A u \in Threads \ {t} : pc'[u] = pc[u] /\ call'[u] = call[u]
    BY <1>8, <1>t DEF RecordStart, TypeOK, handle, instance
  <2>2. \A u \in Threads : pc[u] \in InRecord => call[u] \in Calls /\ call[u] # c
    BY <2>1 DEF CallsInv, TypeInv, LocalsTyped
  <2>3. \A u \in Threads : pc'[u] \in RecordHolding <=> pc[u] \in RecordHolding
    BY <2>1 DEF RecordHolding
  <2>4. \A d \in Calls :
          outcome'[d] = "running" => \E u \in Threads : pc'[u] \in InRecord /\ call'[u] = d
    <3>1. ASSUME NEW d \in Calls, d # c, outcome[d] = "running"
          PROVE  \E u \in Threads : pc'[u] \in InRecord /\ call'[u] = d
      <4>1. PICK u \in Threads : pc[u] \in InRecord /\ call[u] = d
        BY <3>1 DEF CallsInv
      <4>2. u # t
        BY <2>1, <4>1 DEF RecordHolding
      <4> QED
        BY <2>1, <4>1, <4>2
    <3> QED
      BY <2>1, <3>1
  <2> QED
    BY <2>1, <2>2, <2>3, <2>4 DEF CallsInv
<1> QED
  BY <1>1, <1>2, <1>3, <1>4, <1>5, <1>6, <1>7, <1>8 DEF Next, Environment

-----------------------------------------------------------------------------
(* Every byte the library wrote, in rows                                   *)
(*                                                                         *)
(* What a call wrote may be anywhere between the text layer and the file,  *)
(* whole or cut, also after an append has failed.  All of it is put in     *)
(* rows: the lines of the file, and behind them one row of what is still   *)
(* on its way.  A write makes the last row longer; bytes that move on      *)
(* leave the rows as they are, until a newline splits the last one; and    *)
(* whatever is lost is lost from the end of a row or with a whole row.     *)

Stream == tail \o (buf \o pending)

Rows == Append(lines, Stream)

IsCell(rows, i, k) == i \in 1..Len(rows) /\ k \in 1..Len(rows[i])

CellAt(rows, i, k) == rows[i][k]

HasCell(rows, c) ==
    \E i, k \in Nat : IsCell(rows, i, k) /\ CellAt(rows, i, k).event.call = c

\* No call begins a line twice.
Once(rows) ==
    \A i, j, k, l \in Nat :
        /\ IsCell(rows, i, k) /\ CellAt(rows, i, k).part = 1
        /\ IsCell(rows, j, l) /\ CellAt(rows, j, l).part = 1
        /\ CellAt(rows, i, k).event.call = CellAt(rows, j, l).event.call
        => i = j /\ k = l

\* Calls that were refused, or have not come to their write, have no byte.
RowsInv ==
    /\ Once(Rows)
    /\ \A c \in Calls : outcome[c] \in {"unused", "refused"} => ~HasCell(Rows, c)
    /\ \A t \in Threads : pc[t] \in {"lock", "write"} => ~HasCell(Rows, call[t])

\* What is in a row was there in the same place.
Within(new, old) ==
    \A i, k \in Nat : IsCell(new, i, k) =>
        IsCell(old, i, k) /\ CellAt(new, i, k) = CellAt(old, i, k)

\* What is on its way, cell by cell.
LEMMA ThreeParts ==
    ASSUME NEW a \in Seq(Cell), NEW b \in Seq(Cell), NEW c \in Seq(Cell)
    PROVE  /\ a \o (b \o c) \in Seq(Cell)
           /\ Len(a \o (b \o c)) = Len(a) + Len(b) + Len(c)
           /\ Len(a) \in Nat /\ Len(b) \in Nat /\ Len(c) \in Nat
           /\ \A k \in 1..Len(a) : (a \o (b \o c))[k] = a[k]
           /\ \A k \in 1..Len(b) : (a \o (b \o c))[Len(a) + k] = b[k]
           /\ \A k \in 1..Len(c) : (a \o (b \o c))[Len(a) + Len(b) + k] = c[k]
<1>2. Len(a) \in Nat /\ Len(b) \in Nat /\ Len(c) \in Nat
  BY LenProperties
<1> DEFINE rest == b \o c
<1>3. /\ rest \in Seq(Cell) /\ Len(rest) = Len(b) + Len(c)
      /\ \A k \in 1..Len(b) + Len(c) :
           rest[k] = IF k <= Len(b) THEN b[k] ELSE c[k - Len(b)]
  BY ConcatProperties
<1> HIDE DEF rest
<1>4. /\ a \o rest \in Seq(Cell) /\ Len(a \o rest) = Len(a) + Len(rest)
      /\ \A k \in 1..Len(a) + Len(rest) :
           (a \o rest)[k] = IF k <= Len(a) THEN a[k] ELSE rest[k - Len(a)]
  <2>1. rest \in Seq(Cell)
    BY <1>3
  <2> QED
    BY <2>1, ConcatProperties
<1>6. \A k \in 1..Len(a) : (a \o rest)[k] = a[k]
  BY <1>2, <1>3, <1>4
<1>7. \A k \in 1..Len(rest) : (a \o rest)[Len(a) + k] = rest[k]
  <2> TAKE k \in 1..Len(rest)
  <2>1. Len(a) + k \in 1..Len(a) + Len(rest) /\ ~(Len(a) + k <= Len(a))
        /\ Len(a) + k - Len(a) = k
    BY <1>2, <1>3
  <2> QED
    BY <1>4, <2>1
<1>8. \A k \in 1..Len(b) : (a \o rest)[Len(a) + k] = b[k]
  BY <1>2, <1>3, <1>7
<1>9. \A k \in 1..Len(c) : (a \o rest)[Len(a) + Len(b) + k] = c[k]
  <2> TAKE k \in 1..Len(c)
  <2>1. Len(b) + k \in 1..Len(rest) /\ ~(Len(b) + k <= Len(b)) /\ Len(b) + k - Len(b) = k
        /\ Len(a) + (Len(b) + k) = Len(a) + Len(b) + k
    BY <1>2, <1>3
  <2> QED
    BY <1>3, <1>7, <2>1
<1> QED
  BY <1>2, <1>3, <1>4, <1>6, <1>8, <1>9 DEF rest

LEMMA RowsType ==
    ASSUME TypeOK
    PROVE  /\ Stream \in Seq(Cell)
           /\ Rows \in Seq(Seq(Cell)) /\ Len(Rows) = Len(lines) + 1 /\ Len(lines) \in Nat
           /\ \A i \in 1..Len(lines) : Rows[i] = lines[i]
           /\ Rows[Len(lines) + 1] = Stream
<1>1. lines \in Seq(Seq(Cell)) /\ tail \in Seq(Cell) /\ buf \in Seq(Cell) /\ pending \in Seq(Cell)
  BY DEF TypeOK
<1>2. Stream \in Seq(Cell)
  BY <1>1, ThreeParts DEF Stream
<1> QED
  BY <1>1, <1>2, AppendProperties, LenProperties DEF Rows

LEMMA OnceAtMost ==
    ASSUME NEW rows, Once(rows),
           NEW i \in Nat, NEW j \in Nat, NEW k \in Nat, NEW l \in Nat,
           IsCell(rows, i, k), CellAt(rows, i, k).part = 1,
           IsCell(rows, j, l), CellAt(rows, j, l).part = 1,
           CellAt(rows, i, k).event.call = CellAt(rows, j, l).event.call
    PROVE  i = j /\ k = l
BY DEF Once

LEMMA WithinKeeps ==
    ASSUME NEW new, NEW old, Within(new, old)
    PROVE  /\ Once(old) => Once(new)
           /\ \A c \in Calls : HasCell(new, c) => HasCell(old, c)
<1>1. Once(old) => Once(new)
  BY DEF Within, Once
<1>2. \A c \in Calls : HasCell(new, c) => HasCell(old, c)
  BY DEF Within, HasCell
<1> QED
  BY <1>1, <1>2

\* A line is written at the end of the last row: its cells are behind the others.
LEMMA AddedCells ==
    ASSUME NEW s \in Seq(Seq(Cell)), NEW u \in Seq(Cell), NEW e \in AuditEvent
    PROVE  LET old  == Append(s, u)
               new  == Append(s, u \o LineOf(e))
               last == Len(s) + 1
           IN  /\ last \in Nat /\ Len(u) \in Nat
               /\ \A i, k \in Nat : IsCell(new, i, k) =>
                    \/ /\ IsCell(old, i, k) /\ CellAt(new, i, k) = CellAt(old, i, k)
                       /\ i < last \/ (i = last /\ k <= Len(u))
                    \/ /\ i = last /\ k > Len(u)
                       /\ CellAt(new, i, k) = [event |-> e, part |-> k - Len(u)]
<1> DEFINE old == Append(s, u)
           new == Append(s, u \o LineOf(e))
           last == Len(s) + 1
<1>1. Len(s) \in Nat /\ Len(u) \in Nat /\ LineCells \in Nat
  BY LenProperties, LineCellsAssumption
<1>2. /\ u \o LineOf(e) \in Seq(Cell) /\ Len(u \o LineOf(e)) = Len(u) + LineCells
      /\ \A k \in 1..Len(u) + LineCells :
           (u \o LineOf(e))[k] = IF k <= Len(u) THEN u[k] ELSE LineOf(e)[k - Len(u)]
  <2>1. LineOf(e) \in Seq(Cell) /\ Len(LineOf(e)) = LineCells
    BY LineOfType
  <2> QED
    BY <2>1, ConcatProperties
<1>3. \A k \in 1..Len(u) + LineCells :
        (u \o LineOf(e))[k] = IF k <= Len(u) THEN u[k] ELSE [event |-> e, part |-> k - Len(u)]
  <2> TAKE k \in 1..Len(u) + LineCells
  <2>1. CASE k <= Len(u)
    BY <1>2, <2>1
  <2>2. CASE ~(k <= Len(u))
    <3>1. k - Len(u) \in 1..LineCells
      BY <1>1, <2>2
    <3> QED
      BY <1>2, <2>2, <3>1, LineOfType
  <2> QED
    BY <2>1, <2>2
<1>4. /\ Len(old) = last /\ old[last] = u /\ \A i \in 1..Len(s) : old[i] = s[i]
      /\ Len(new) = last /\ new[last] = u \o LineOf(e) /\ \A i \in 1..Len(s) : new[i] = s[i]
  BY <1>2, AppendProperties
<1> DEFINE From(i, k) ==
             \/ /\ IsCell(old, i, k) /\ CellAt(new, i, k) = CellAt(old, i, k)
                /\ i < last \/ (i = last /\ k <= Len(u))
             \/ /\ i = last /\ k > Len(u)
                /\ CellAt(new, i, k) = [event |-> e, part |-> k - Len(u)]
<1>5. ASSUME NEW i \in Nat, NEW k \in Nat, IsCell(new, i, k) PROVE From(i, k)
  <2> HIDE DEF old, new
  <2>1. i \in 1..Len(new) /\ k \in 1..Len(new[i])
    BY <1>5 DEF IsCell
  <2>2. CASE i \in 1..Len(s)
    <3>1. i < last /\ i \in 1..Len(old) /\ k \in 1..Len(old[i]) /\ new[i][k] = old[i][k]
      BY <1>1, <1>4, <2>1, <2>2
    <3> QED
      BY <3>1 DEF IsCell, CellAt
  <2>3. CASE i = last
    <3>1. k \in 1..Len(u) + LineCells /\ new[i][k] = (u \o LineOf(e))[k]
      BY <1>2, <1>4, <2>1, <2>3
    <3>2. CASE k <= Len(u)
      <4>1. i \in 1..Len(old) /\ old[i] = u /\ k \in 1..Len(u)
        BY <1>1, <1>4, <2>1, <2>3, <3>2
      <4>2. new[i][k] = old[i][k]
        BY <1>3, <3>1, <3>2, <4>1
      <4> QED
        BY <2>3, <3>2, <4>1, <4>2 DEF IsCell, CellAt
    <3>3. CASE ~(k <= Len(u))
      <4>1. k > Len(u)
        BY <1>1, <3>3
      <4>2. new[i][k] = [event |-> e, part |-> k - Len(u)]
        BY <1>3, <3>1, <3>3
      <4> QED
        BY <2>3, <4>1, <4>2 DEF CellAt
    <3> QED
      BY <3>2, <3>3
  <2>4. i \in 1..Len(s) \/ i = last
    BY <1>1, <1>4, <2>1
  <2> QED
    BY <2>2, <2>3, <2>4
<1> QED
  BY <1>1, <1>5

\* No call begins a line twice when one that has no byte yet writes its line.
LEMMA LineAdded ==
    ASSUME NEW s \in Seq(Seq(Cell)), NEW u \in Seq(Cell), NEW e \in AuditEvent,
           Once(Append(s, u)), ~HasCell(Append(s, u), e.call)
    PROVE  LET longer == Append(s, u \o LineOf(e))
           IN  /\ Once(longer)
               /\ \A c \in Calls : HasCell(longer, c) => c = e.call \/ HasCell(Append(s, u), c)
<1> DEFINE old == Append(s, u)
           new == Append(s, u \o LineOf(e))
           last == Len(s) + 1
<1>1. Len(u) \in Nat
  BY LenProperties
<1>5. \A i, k \in Nat : IsCell(new, i, k) =>
        \/ IsCell(old, i, k) /\ CellAt(new, i, k) = CellAt(old, i, k)
        \/ i = last /\ CellAt(new, i, k) = [event |-> e, part |-> k - Len(u)]
  BY AddedCells
<1>6. Once(old) /\ ~HasCell(old, e.call)
  OBVIOUS
<1> HIDE DEF old, new, last
<1>7. Once(new)
  <2>1. ASSUME NEW i \in Nat, NEW j \in Nat, NEW k \in Nat, NEW l \in Nat,
               IsCell(new, i, k), CellAt(new, i, k).part = 1,
               IsCell(new, j, l), CellAt(new, j, l).part = 1,
               CellAt(new, i, k).event.call = CellAt(new, j, l).event.call
        PROVE  i = j /\ k = l
    <3>1. \/ IsCell(old, i, k) /\ CellAt(new, i, k) = CellAt(old, i, k)
          \/ i = last /\ CellAt(new, i, k) = [event |-> e, part |-> k - Len(u)]
      BY <1>5, <2>1
    <3>2. \/ IsCell(old, j, l) /\ CellAt(new, j, l) = CellAt(old, j, l)
          \/ j = last /\ CellAt(new, j, l) = [event |-> e, part |-> l - Len(u)]
      BY <1>5, <2>1
    <3>3. CASE CellAt(new, i, k).event.call = e.call
      <4>1. i = last /\ CellAt(new, i, k) = [event |-> e, part |-> k - Len(u)]
        BY <1>6, <3>1, <3>3 DEF HasCell
      <4>2. j = last /\ CellAt(new, j, l) = [event |-> e, part |-> l - Len(u)]
        BY <1>6, <2>1, <3>2, <3>3 DEF HasCell
      <4>3. k - Len(u) = 1 /\ l - Len(u) = 1
        BY <2>1, <4>1, <4>2
      <4> QED
        BY <1>1, <4>1, <4>2, <4>3
    <3>4. CASE CellAt(new, i, k).event.call # e.call
      <4>1. IsCell(old, i, k) /\ CellAt(new, i, k) = CellAt(old, i, k)
        BY <3>1, <3>4
      <4>2. IsCell(old, j, l) /\ CellAt(new, j, l) = CellAt(old, j, l)
        BY <2>1, <3>2, <3>4
      <4> QED
        BY <1>6, <2>1, <4>1, <4>2 DEF Once
    <3> QED
      BY <3>3, <3>4
  <2> QED
    BY <2>1 DEF Once
<1>8. \A c \in Calls : HasCell(new, c) => c = e.call \/ HasCell(old, c)
  <2>1. ASSUME NEW c \in Calls, NEW i \in Nat, NEW k \in Nat,
               IsCell(new, i, k), CellAt(new, i, k).event.call = c
        PROVE  c = e.call \/ HasCell(old, c)
    BY <1>5, <2>1 DEF HasCell
  <2> QED
    BY <2>1 DEF HasCell
<1> QED
  BY <1>7, <1>8 DEF old, new

\* A newline splits the last row: what was before it, and what is behind it.
\* Every cell comes from a place in the old rows.
SplitFrom(new, old, last, cut) ==
    \A i, k \in Nat : IsCell(new, i, k) =>
        \E a, b \in Nat :
            /\ IsCell(old, a, b) /\ CellAt(new, i, k) = CellAt(old, a, b)
            /\ \/ i < last /\ a = i /\ b = k
               \/ i = last /\ a = last /\ b = k /\ k <= cut
               \/ i = last + 1 /\ a = last /\ b = cut + 1 + k /\ k > 0

LEMMA RowSplit ==
    ASSUME NEW s \in Seq(Seq(Cell)), NEW r \in Seq(Cell), NEW u \in Seq(Cell), NEW v \in Seq(Cell),
           Len(r) = Len(u) + 1 + Len(v),
           \A k \in 1..Len(u) : u[k] = r[k],
           \A k \in 1..Len(v) : v[k] = r[Len(u) + 1 + k]
    PROVE  /\ Len(s) + 1 \in Nat /\ Len(u) \in Nat
           /\ SplitFrom(Append(Append(s, u), v), Append(s, r), Len(s) + 1, Len(u))
<1> DEFINE old == Append(s, r)
           new == Append(Append(s, u), v)
           last == Len(s) + 1
<1>1. Len(s) \in Nat /\ Len(u) \in Nat /\ Len(v) \in Nat
  BY LenProperties
<1>2. /\ Len(old) = last /\ old[last] = r /\ \A i \in 1..Len(s) : old[i] = s[i]
  BY AppendProperties
<1>3. /\ Len(new) = last + 1 /\ new[last + 1] = v /\ new[last] = u
      /\ \A i \in 1..Len(s) : new[i] = s[i]
  <2>1. /\ Append(s, u) \in Seq(Seq(Cell)) /\ Len(Append(s, u)) = last
        /\ Append(s, u)[last] = u /\ \A i \in 1..Len(s) : Append(s, u)[i] = s[i]
    BY AppendProperties
  <2>2. /\ Len(new) = last + 1 /\ new[last + 1] = v
        /\ \A i \in 1..last : new[i] = Append(s, u)[i]
    BY <2>1, AppendProperties
  <2> QED
    BY <1>1, <2>1, <2>2
<1> HIDE DEF old, new
<1>4. \A i, k \in Nat : IsCell(new, i, k) =>
        \/ /\ i < last /\ IsCell(old, i, k) /\ CellAt(new, i, k) = CellAt(old, i, k)
        \/ /\ i = last /\ k <= Len(u) /\ IsCell(old, last, k)
           /\ CellAt(new, i, k) = CellAt(old, last, k)
        \/ /\ i = last + 1 /\ k > 0 /\ IsCell(old, last, Len(u) + 1 + k)
           /\ CellAt(new, i, k) = CellAt(old, last, Len(u) + 1 + k)
  <2> SUFFICES ASSUME NEW i \in Nat, NEW k \in Nat, IsCell(new, i, k)
               PROVE  \/ /\ i < last /\ IsCell(old, i, k) /\ CellAt(new, i, k) = CellAt(old, i, k)
                      \/ /\ i = last /\ k <= Len(u) /\ IsCell(old, last, k)
                         /\ CellAt(new, i, k) = CellAt(old, last, k)
                      \/ /\ i = last + 1 /\ k > 0 /\ IsCell(old, last, Len(u) + 1 + k)
                         /\ CellAt(new, i, k) = CellAt(old, last, Len(u) + 1 + k)
    OBVIOUS
  <2>1. i \in 1..last + 1 /\ k \in 1..Len(new[i])
    BY <1>3 DEF IsCell
  <2>2. CASE i \in 1..Len(s)
    <3>1. i < last /\ IsCell(old, i, k) /\ CellAt(new, i, k) = CellAt(old, i, k)
      BY <1>1, <1>2, <1>3, <2>1, <2>2 DEF IsCell, CellAt
    <3> QED
      BY <3>1
  <2>3. CASE i = last
    <3>1. k <= Len(u) /\ IsCell(old, last, k) /\ CellAt(new, i, k) = CellAt(old, last, k)
      BY <1>1, <1>2, <1>3, <2>1, <2>3 DEF IsCell, CellAt
    <3> QED
      BY <2>3, <3>1
  <2>4. CASE i = last + 1
    <3>1. k \in 1..Len(v)
      BY <1>3, <2>1, <2>4
    <3>2. Len(u) + 1 + k \in 1..Len(r) /\ last \in 1..Len(old) /\ k > 0
      BY <1>1, <1>2, <3>1
    <3>3. new[i][k] = old[last][Len(u) + 1 + k]
      BY <1>2, <1>3, <2>4, <3>1
    <3>4. IsCell(old, last, Len(u) + 1 + k) /\ CellAt(new, i, k) = CellAt(old, last, Len(u) + 1 + k)
      BY <1>2, <3>2, <3>3 DEF IsCell, CellAt
    <3> QED
      BY <2>4, <3>2, <3>4
  <2>5. i \in 1..Len(s) \/ i = last \/ i = last + 1
    BY <1>1, <2>1
  <2> QED
    BY <2>2, <2>3, <2>4, <2>5
<1>5. last \in Nat /\ Len(u) \in Nat
  BY <1>1
<1> HIDE DEF last
<1>6. \A i, k \in Nat : IsCell(new, i, k) =>
        \E a, b \in Nat :
            /\ IsCell(old, a, b) /\ CellAt(new, i, k) = CellAt(old, a, b)
            /\ \/ i < last /\ a = i /\ b = k
               \/ i = last /\ a = last /\ b = k /\ k <= Len(u)
               \/ i = last + 1 /\ a = last /\ b = Len(u) + 1 + k /\ k > 0
  <2> TAKE i, k \in Nat
  <2> HAVE IsCell(new, i, k)
  <2>1. Len(u) + 1 + k \in Nat
    BY <1>5
  <2> QED
    BY <1>4, <1>5, <2>1
<1> QED
  BY <1>5, <1>6 DEF SplitFrom, old, new, last

LEMMA SplitKeeps ==
    ASSUME NEW last \in Nat, NEW cut \in Nat, NEW new, NEW old, SplitFrom(new, old, last, cut)
    PROVE  /\ Once(old) => Once(new)
           /\ \A c \in Calls : HasCell(new, c) => HasCell(old, c)
<1>6. \A i, k \in Nat : IsCell(new, i, k) =>
        \E a, b \in Nat :
            /\ IsCell(old, a, b) /\ CellAt(new, i, k) = CellAt(old, a, b)
            /\ \/ i < last /\ a = i /\ b = k
               \/ i = last /\ a = last /\ b = k /\ k <= cut
               \/ i = last + 1 /\ a = last /\ b = cut + 1 + k /\ k > 0
  BY DEF SplitFrom
<1>7. ASSUME Once(old) PROVE Once(new)
  <2>1. ASSUME NEW i \in Nat, NEW j \in Nat, NEW k \in Nat, NEW l \in Nat,
               IsCell(new, i, k), CellAt(new, i, k).part = 1,
               IsCell(new, j, l), CellAt(new, j, l).part = 1,
               CellAt(new, i, k).event.call = CellAt(new, j, l).event.call
        PROVE  i = j /\ k = l
    <3>1. PICK a \in Nat, b \in Nat :
            /\ IsCell(old, a, b) /\ CellAt(new, i, k) = CellAt(old, a, b)
            /\ \/ i < last /\ a = i /\ b = k
               \/ i = last /\ a = last /\ b = k /\ k <= cut
               \/ i = last + 1 /\ a = last /\ b = cut + 1 + k /\ k > 0
      BY <1>6, <2>1
    <3>2. PICK m \in Nat, n \in Nat :
            /\ IsCell(old, m, n) /\ CellAt(new, j, l) = CellAt(old, m, n)
            /\ \/ j < last /\ m = j /\ n = l
               \/ j = last /\ m = last /\ n = l /\ l <= cut
               \/ j = last + 1 /\ m = last /\ n = cut + 1 + l /\ l > 0
      BY <1>6, <2>1
    <3>3. /\ IsCell(old, a, b) /\ CellAt(old, a, b).part = 1
          /\ IsCell(old, m, n) /\ CellAt(old, m, n).part = 1
          /\ CellAt(old, a, b).event.call = CellAt(old, m, n).event.call
      BY <2>1, <3>1, <3>2
    <3>4. a = m /\ b = n
      BY <1>7, <3>3, OnceAtMost
    <3>5. \/ i < last /\ a = i /\ b = k
          \/ i = last /\ a = last /\ b = k /\ k <= cut
          \/ i = last + 1 /\ a = last /\ b = cut + 1 + k /\ k > 0
      BY <3>1
    <3>6. \/ j < last /\ a = j /\ b = l
          \/ j = last /\ a = last /\ b = l /\ l <= cut
          \/ j = last + 1 /\ a = last /\ b = cut + 1 + l /\ l > 0
      BY <3>2, <3>4
    <3> QED
      BY <3>5, <3>6
  <2> QED
    BY <2>1 DEF Once
<1>8. \A c \in Calls : HasCell(new, c) => HasCell(old, c)
  BY <1>6 DEF HasCell
<1> QED
  BY <1>7, <1>8

\* Rows of which the last is cut.
LEMMA LastRowCut ==
    ASSUME NEW s \in Seq(Seq(Cell)), NEW r \in Seq(Cell), NEW q \in Seq(Cell),
           Len(q) <= Len(r), \A k \in 1..Len(q) : q[k] = r[k]
    PROVE  Within(Append(s, q), Append(s, r))
<1> DEFINE old == Append(s, r)
           new == Append(s, q)
           last == Len(s) + 1
<1>1. Len(s) \in Nat /\ Len(q) \in Nat /\ Len(r) \in Nat
  BY LenProperties
<1>2. /\ Len(old) = last /\ old[last] = r /\ \A i \in 1..Len(s) : old[i] = s[i]
      /\ Len(new) = last /\ new[last] = q /\ \A i \in 1..Len(s) : new[i] = s[i]
  BY AppendProperties
<1> HIDE DEF old, new
<1>3. ASSUME NEW i \in Nat, NEW k \in Nat, IsCell(new, i, k)
      PROVE  IsCell(old, i, k) /\ CellAt(new, i, k) = CellAt(old, i, k)
  <2>1. CASE i \in 1..Len(s)
    BY <1>1, <1>2, <1>3, <2>1 DEF IsCell, CellAt
  <2>2. CASE i = last
    BY <1>1, <1>2, <1>3, <2>2 DEF IsCell, CellAt
  <2> QED
    BY <1>1, <1>2, <1>3, <2>1, <2>2 DEF IsCell
<1> QED
  BY <1>3 DEF Within, old, new

\* Rows that are a prefix of the old ones, and one row that is cut.
LEMMA RowsCut ==
    ASSUME NEW s \in Seq(Seq(Cell)), NEW r \in Seq(Cell), NEW n \in 0..Len(s), NEW q \in Seq(Cell),
           LET cut == IF n < Len(s) THEN s[n + 1] ELSE r
           IN  Len(q) <= Len(cut) /\ \A k \in 1..Len(q) : q[k] = cut[k]
    PROVE  Within(Append(SubSeq(s, 1, n), q), Append(s, r))
<1> DEFINE old == Append(s, r)
           new == Append(SubSeq(s, 1, n), q)
<1>1. Len(s) \in Nat /\ n \in Nat /\ n <= Len(s)
  BY LenProperties
<1>2. /\ Len(old) = Len(s) + 1 /\ old[Len(s) + 1] = r /\ \A i \in 1..Len(s) : old[i] = s[i]
  BY AppendProperties
<1>3. /\ SubSeq(s, 1, n) \in Seq(Seq(Cell)) /\ Len(SubSeq(s, 1, n)) = n
      /\ \A i \in 1..n : SubSeq(s, 1, n)[i] = s[i]
  <2>1. \A i \in 1..n : s[i] \in Seq(Cell)
    BY <1>1, ElementOfSeq
  <2> QED
    BY <1>1, <2>1, SubSeqProperties
<1>4. Len(new) = n + 1 /\ new[n + 1] = q /\ \A i \in 1..n : new[i] = s[i]
  BY <1>1, <1>3, AppendProperties
<1> HIDE DEF old, new
<1>5. Len(q) \in Nat /\ Len(old[n + 1]) \in Nat /\ Len(q) <= Len(old[n + 1])
      /\ \A k \in 1..Len(q) : q[k] = old[n + 1][k]
  <2>1. CASE n < Len(s)
    <3>1. n + 1 \in 1..Len(s) /\ s[n + 1] \in Seq(Cell)
      BY <1>1, <2>1, ElementOfSeq
    <3> QED
      BY <1>2, <2>1, <3>1, LenProperties
  <2>2. CASE ~(n < Len(s))
    BY <1>1, <1>2, <2>2, LenProperties
  <2> QED
    BY <2>1, <2>2
<1>6. ASSUME NEW i \in Nat, NEW k \in Nat, IsCell(new, i, k)
      PROVE  IsCell(old, i, k) /\ CellAt(new, i, k) = CellAt(old, i, k)
  <2>1. CASE i \in 1..n
    <3>1. i \in 1..Len(s) /\ i \in 1..Len(old)
      BY <1>1, <1>2, <2>1
    <3>2. new[i] = s[i] /\ old[i] = s[i]
      BY <1>2, <1>4, <2>1, <3>1
    <3> QED
      BY <1>6, <3>1, <3>2 DEF IsCell, CellAt
  <2>2. CASE i = n + 1
    BY <1>1, <1>2, <1>4, <1>5, <1>6, <2>2 DEF IsCell, CellAt
  <2> QED
    BY <1>1, <1>4, <1>6, <2>1, <2>2 DEF IsCell
<1> QED
  BY <1>6 DEF Within, old, new

\* A row of its own for what is behind the last newline.
LEMMA RowClosed ==
    ASSUME NEW s \in Seq(Seq(Cell)), NEW r \in Seq(Cell)
    PROVE  Within(Append(Append(s, r), << >>), Append(s, r))
<1> DEFINE old == Append(s, r)
           new == Append(old, << >>)
<1>1. old \in Seq(Seq(Cell)) /\ Len(old) \in Nat
  BY AppendProperties, LenProperties
<1> HIDE DEF old
<1>2. Len(new) = Len(old) + 1 /\ new[Len(old) + 1] = << >> /\ \A i \in 1..Len(old) : new[i] = old[i]
  BY <1>1, EmptySeq, AppendProperties
<1> HIDE DEF new
<1>3. \A k \in Nat : ~IsCell(new, Len(old) + 1, k)
  BY <1>2, EmptySeq DEF IsCell
<1>4. ASSUME NEW i \in Nat, NEW k \in Nat, IsCell(new, i, k)
      PROVE  IsCell(old, i, k) /\ CellAt(new, i, k) = CellAt(old, i, k)
  <2>1. i \in 1..Len(old) + 1 /\ i # Len(old) + 1
    BY <1>2, <1>3, <1>4 DEF IsCell
  <2>2. \A n \in Nat : i \in 1..n + 1 /\ i # n + 1 => i \in 1..n
    OBVIOUS
  <2>3. i \in 1..Len(old)
    BY <1>1, <2>1, <2>2
  <2> QED
    BY <1>2, <1>4, <2>3 DEF IsCell, CellAt
<1> QED
  BY <1>4 DEF Within, old, new

-----------------------------------------------------------------------------
(* RowsInv is inductive *)

\* No call comes to its write, or is refused, that has written.
StayOut ==
    /\ \A c \in Calls : outcome'[c] \in {"unused", "refused"} =>
         \/ outcome[c] \in {"unused", "refused"}
         \/ \E t \in Threads : pc[t] \in {"lock", "write"} /\ call[t] = c
    /\ \A t \in Threads : pc'[t] \in {"lock", "write"} =>
         \/ pc[t] \in {"lock", "write"} /\ call'[t] = call[t]
         \/ call'[t] \in Calls /\ outcome[call'[t]] = "unused"

LEMMA RowsKept ==
    ASSUME TypeInv, RowsInv, StayOut, Within(Rows', Rows)
    PROVE  RowsInv'
<1>1. /\ Once(Rows) => Once(Rows')
      /\ \A c \in Calls : HasCell(Rows', c) => HasCell(Rows, c)
  BY WithinKeeps
<1> HIDE DEF Rows, Once, HasCell
<1>2. Once(Rows')
  BY <1>1 DEF RowsInv
<1>3. ASSUME NEW c \in Calls, outcome'[c] \in {"unused", "refused"} PROVE ~HasCell(Rows', c)
  BY <1>1, <1>3 DEF RowsInv, StayOut
<1>4. ASSUME NEW t \in Threads, pc'[t] \in {"lock", "write"} PROVE ~HasCell(Rows', call'[t])
  <2>1. pc[t] \in {"lock", "write"} => call[t] \in Calls
    BY DEF TypeInv, LocalsTyped, RecordHolding
  <2> QED
    BY <1>1, <1>4, <2>1 DEF RowsInv, StayOut
<1> QED
  BY <1>2, <1>3, <1>4 DEF RowsInv

LEMMA SameRows ==
    ASSUME Rows' = Rows
    PROVE  Within(Rows', Rows)
BY DEF Within

LEMMA SameBytesSameRows ==
    ASSUME UNCHANGED << lines, tail, buf, pending >>
    PROVE  Within(Rows', Rows)
BY SameRows DEF Rows, Stream

\* The text layer hands its text to the buffer.
LEMMA PushedRows ==
    ASSUME TypeOK, UNCHANGED << lines, tail >>, buf' = buf \o pending, pending' = << >>
    PROVE  Within(Rows', Rows)
<1>1. buf \in Seq(Cell) /\ pending \in Seq(Cell)
  BY DEF TypeOK
<1>2. buf \o pending \in Seq(Cell)
  BY <1>1, ConcatProperties
<1>3. (buf \o pending) \o << >> = buf \o pending
  BY <1>2, ConcatEmptySeq
<1> QED
  BY <1>3, SameRows DEF Rows, Stream

\* What was on its way is cut somewhere behind the tail.
LEMMA CutRows ==
    ASSUME TypeOK, UNCHANGED << lines, tail >>, pending' = << >>,
           buf' \in Seq(Cell), Len(buf') <= Len(buf),
           \A k \in 1..Len(buf') : buf'[k] = buf[k]
    PROVE  Within(Rows', Rows)
<1>1. /\ lines \in Seq(Seq(Cell)) /\ tail \in Seq(Cell) /\ buf \in Seq(Cell)
      /\ pending \in Seq(Cell) /\ << >> \in Seq(Cell) /\ Len(<< >>) = 0
  BY EmptySeq DEF TypeOK
<1>2. Stream' = tail \o (buf' \o << >>)
  BY DEF Stream
<1>3. /\ Stream' \in Seq(Cell) /\ Len(Stream') = Len(tail) + Len(buf')
      /\ Len(tail) \in Nat /\ Len(buf') \in Nat
      /\ \A k \in 1..Len(tail) : Stream'[k] = tail[k]
      /\ \A k \in 1..Len(buf') : Stream'[Len(tail) + k] = buf'[k]
  BY <1>1, <1>2, ThreeParts
<1>4. /\ Stream \in Seq(Cell) /\ Len(Stream) = Len(tail) + Len(buf) + Len(pending)
      /\ Len(buf) \in Nat /\ Len(pending) \in Nat
      /\ \A k \in 1..Len(tail) : Stream[k] = tail[k]
      /\ \A k \in 1..Len(buf) : Stream[Len(tail) + k] = buf[k]
  BY <1>1, ThreeParts DEF Stream
<1>5. Len(Stream') <= Len(Stream)
  BY <1>3, <1>4
<1>6. ASSUME NEW k \in 1..Len(Stream') PROVE Stream'[k] = Stream[k]
  <2>1. CASE k <= Len(tail)
    <3>1. k \in 1..Len(tail)
      BY <1>3, <2>1
    <3> QED
      BY <1>3, <1>4, <3>1
  <2>2. CASE ~(k <= Len(tail))
    <3>1. k - Len(tail) \in 1..Len(buf') /\ k - Len(tail) \in 1..Len(buf)
          /\ Len(tail) + (k - Len(tail)) = k
      BY <1>3, <1>4, <2>2
    <3>2. Stream'[k] = buf'[k - Len(tail)]
      BY <1>3, <3>1
    <3>3. Stream[k] = buf[k - Len(tail)]
      BY <1>4, <3>1
    <3> QED
      BY <3>1, <3>2, <3>3
  <2> QED
    BY <1>3, <2>1, <2>2
<1>7. Rows' = Append(lines, Stream')
  BY DEF Rows
<1> HIDE DEF Stream
<1> QED
  BY <1>1, <1>3, <1>4, <1>5, <1>6, <1>7, LastRowCut DEF Rows

\* Everything behind the tail is lost.
LEMMA LostRows ==
    ASSUME TypeOK, UNCHANGED << lines, tail >>, pending' = << >>, buf' = << >>
    PROVE  Within(Rows', Rows)
<1>1. buf' \in Seq(Cell) /\ Len(buf') = 0 /\ Len(buf) \in Nat
  BY EmptySeq, LenProperties DEF TypeOK
<1> QED
  BY <1>1, CutRows

\* What a failed large write() leaves in the buffer was there before.
LEMMA WithoutLineIsCut ==
    ASSUME TypeOK
    PROVE  /\ Len(WithoutLine) <= Len(buf)
           /\ \A k \in 1..Len(WithoutLine) : WithoutLine[k] = buf[k]
<1> DEFINE n == IF Len(buf) > LineCells THEN Len(buf) - LineCells ELSE 0
<1>1. buf \in Seq(Cell) /\ Len(buf) \in Nat
  BY LenProperties DEF TypeOK
<1>2. n \in Nat /\ n <= Len(buf)
  BY <1>1, LineCellsAssumption
<1>3. WithoutLine = SubSeq(buf, 1, n)
  BY DEF WithoutLine
<1> HIDE DEF n
<1>4. \A i \in 1..n : buf[i] \in Cell
  BY <1>1, <1>2, ElementOfSeq
<1>5. Len(SubSeq(buf, 1, n)) = n /\ \A k \in 1..n : SubSeq(buf, 1, n)[k] = buf[k]
  BY <1>2, <1>4, SubSeqProperties
<1> QED
  BY <1>2, <1>3, <1>5

\* Either the bytes stay where they are, or a large write() drops its line.
LEMMA FailedRows ==
    ASSUME TypeOK, UNCHANGED << lines, tail, pending >>,
           \/ buf' = buf
           \/ buf' = WithoutLine /\ pending = << >>
    PROVE  Within(Rows', Rows)
<1>1. CASE buf' = buf
  BY <1>1, SameBytesSameRows
<1>2. CASE buf' = WithoutLine /\ pending = << >>
  BY <1>2, WithoutLineIsCut, WithoutLineType, CutRows
<1> QED
  BY <1>1, <1>2

\* One cell moves from the buffer to the file.
LEMMA DrainedParts ==
    ASSUME TypeOK, NEW t \in Threads, Drain(t)
    PROVE  \/ Rows' = Rows
           \/ \E last, cut \in Nat : SplitFrom(Rows', Rows, last, cut)
<1>1. /\ lines \in Seq(Seq(Cell)) /\ tail \in Seq(Cell) /\ buf \in Seq(Cell) /\ pending \in Seq(Cell)
      /\ buf # << >> /\ pending' = pending /\ buf' = Tail(buf)
  BY DEF TypeOK, Drain
<1>2. /\ Head(buf) = buf[1] /\ Head(buf) \in Cell /\ Tail(buf) \in Seq(Cell)
      /\ Len(Tail(buf)) = Len(buf) - 1
      /\ \A i \in 1..Len(Tail(buf)) : Tail(buf)[i] = buf[i + 1]
      /\ Len(buf) \in Nat /\ Len(buf) > 0
  <2>1. Head(buf) = buf[1]
    OBVIOUS
  <2> QED
    BY <1>1, <2>1, HeadTailProperties, LenProperties, EmptySeq
<1> DEFINE r == Stream
           v == Tail(buf) \o pending
<1>3. /\ r \in Seq(Cell) /\ Len(r) = Len(tail) + Len(buf) + Len(pending)
      /\ Len(tail) \in Nat /\ Len(buf) \in Nat /\ Len(pending) \in Nat
      /\ \A k \in 1..Len(tail) : r[k] = tail[k]
      /\ \A k \in 1..Len(buf) : r[Len(tail) + k] = buf[k]
      /\ \A k \in 1..Len(pending) : r[Len(tail) + Len(buf) + k] = pending[k]
  BY <1>1, ThreeParts DEF Stream
<1>4. /\ v \in Seq(Cell) /\ Len(v) = Len(Tail(buf)) + Len(pending)
      /\ \A k \in 1..Len(Tail(buf)) + Len(pending) :
           v[k] = IF k <= Len(Tail(buf)) THEN Tail(buf)[k] ELSE pending[k - Len(Tail(buf))]
  BY <1>1, <1>2, ConcatProperties
<1> HIDE DEF r, v
<1>5. Len(r) = Len(tail) + 1 + Len(v)
  BY <1>2, <1>3, <1>4
<1>6. ASSUME NEW k \in 1..Len(v) PROVE v[k] = r[Len(tail) + 1 + k]
  <2>1. CASE k <= Len(Tail(buf))
    <3>1. k \in 1..Len(Tail(buf)) /\ k + 1 \in 1..Len(buf) /\ Len(tail) + (k + 1) = Len(tail) + 1 + k
      BY <1>2, <1>3, <1>4, <2>1
    <3>2. v[k] = buf[k + 1]
      BY <1>2, <1>4, <2>1, <3>1
    <3>3. r[Len(tail) + (k + 1)] = buf[k + 1]
      BY <1>3, <3>1
    <3> QED
      BY <3>1, <3>2, <3>3
  <2>2. CASE ~(k <= Len(Tail(buf)))
    <3>1. /\ k - Len(Tail(buf)) \in 1..Len(pending)
          /\ Len(tail) + Len(buf) + (k - Len(Tail(buf))) = Len(tail) + 1 + k
      BY <1>2, <1>3, <1>4, <2>2
    <3>2. v[k] = pending[k - Len(Tail(buf))]
      BY <1>4, <2>2
    <3>3. r[Len(tail) + Len(buf) + (k - Len(Tail(buf)))] = pending[k - Len(Tail(buf))]
      BY <1>3, <3>1
    <3> QED
      BY <3>1, <3>2, <3>3
  <2> QED
    BY <2>1, <2>2
<1>7. CASE Head(buf).part # LineCells
  <2>1. lines' = lines /\ tail' = Append(tail, buf[1])
    BY <1>2, <1>7 DEF Drain
  <2>2. /\ Append(tail, buf[1]) \in Seq(Cell) /\ Len(Append(tail, buf[1])) = Len(tail) + 1
        /\ \A i \in 1..Len(tail) : Append(tail, buf[1])[i] = tail[i]
        /\ Append(tail, buf[1])[Len(tail) + 1] = buf[1]
    BY <1>1, <1>2, AppendProperties
  <2>3. Stream' = Append(tail, buf[1]) \o v
    BY <1>1, <2>1 DEF Stream, v
  <2>4. /\ Stream' \in Seq(Cell) /\ Len(Stream') = Len(tail) + 1 + Len(v) /\ Len(v) \in Nat
        /\ \A k \in 1..Len(tail) + 1 + Len(v) :
             Stream'[k] = IF k <= Len(tail) + 1 THEN Append(tail, buf[1])[k] ELSE v[k - (Len(tail) + 1)]
    <3> DEFINE a == Append(tail, buf[1])
    <3>1. a \in Seq(Cell) /\ Len(a) = Len(tail) + 1 /\ Stream' = a \o v /\ Len(v) \in Nat
      BY <1>4, <2>2, <2>3, LenProperties
    <3> HIDE DEF a
    <3>0. a \in Seq(Cell) /\ v \in Seq(Cell)
      BY <1>4, <3>1
    <3>2. /\ a \o v \in Seq(Cell) /\ Len(a \o v) = Len(a) + Len(v)
          /\ \A k \in 1..Len(a) + Len(v) : (a \o v)[k] = IF k <= Len(a) THEN a[k] ELSE v[k - Len(a)]
      BY <3>0, ConcatProperties
    <3> QED
      BY <3>1, <3>2 DEF a
  <2>5. ASSUME NEW k \in 1..Len(Stream') PROVE Stream'[k] = r[k]
    <3>1. CASE k <= Len(tail)
      <4>1. k \in 1..Len(tail) /\ k <= Len(tail) + 1 /\ k \in 1..Len(tail) + 1 + Len(v)
        BY <1>3, <2>4, <3>1
      <4> QED
        BY <1>3, <2>2, <2>4, <4>1
    <3>2. CASE k = Len(tail) + 1
      <4>1. 1 \in 1..Len(buf) /\ k \in 1..Len(tail) + 1 + Len(v) /\ k <= Len(tail) + 1
        BY <1>2, <1>3, <2>4, <3>2
      <4>2. Stream'[k] = buf[1]
        BY <2>2, <2>4, <3>2, <4>1
      <4>3. r[Len(tail) + 1] = buf[1]
        BY <1>3, <4>1
      <4> QED
        BY <3>2, <4>2, <4>3
    <3>3. CASE k > Len(tail) + 1
      <4>1. k - (Len(tail) + 1) \in 1..Len(v) /\ ~(k <= Len(tail) + 1)
            /\ Len(tail) + 1 + (k - (Len(tail) + 1)) = k
        BY <1>3, <2>4, <3>3
      <4>2. Stream'[k] = v[k - (Len(tail) + 1)]
        BY <2>4, <4>1
      <4>3. v[k - (Len(tail) + 1)] = r[Len(tail) + 1 + (k - (Len(tail) + 1))]
        BY <1>6, <4>1
      <4> QED
        BY <4>1, <4>2, <4>3
    <3> QED
      BY <1>3, <2>4, <3>1, <3>2, <3>3
  <2>6. Stream' = r
    BY <1>3, <1>5, <2>4, <2>5, SeqEqual
  <2>7. Rows' = Rows
    BY <2>1, <2>6 DEF Rows, r
  <2> QED
    BY <2>7
<1>8. CASE Head(buf).part = LineCells
  <2>1. lines' = Append(lines, tail) /\ tail' = << >>
    BY <1>8 DEF Drain
  <2>2. Stream' = v
    <3>1. << >> \o v = v
      BY <1>4, ConcatEmptySeq
    <3> QED
      BY <1>1, <2>1, <3>1 DEF Stream, v
  <2>3. Rows' = Append(Append(lines, tail), v) /\ Rows = Append(lines, r)
    BY <2>1, <2>2 DEF Rows, r
  <2>4. Len(lines) + 1 \in Nat /\ Len(tail) \in Nat /\ SplitFrom(Rows', Rows, Len(lines) + 1, Len(tail))
    BY <1>1, <1>3, <1>4, <1>5, <1>6, <2>3, RowSplit
  <2> QED
    BY <2>4
<1> QED
  BY <1>7, <1>8

LEMMA DrainedRows ==
    ASSUME TypeInv, RowsInv, StayOut, NEW t \in Threads, Drain(t)
    PROVE  RowsInv'
<1>1. TypeOK
  BY DEF TypeInv
<1>2. CASE Rows' = Rows
  BY <1>2, SameRows, RowsKept
<1>3. ASSUME NEW last \in Nat, NEW cut \in Nat, SplitFrom(Rows', Rows, last, cut) PROVE RowsInv'
  <2>1. /\ Once(Rows) => Once(Rows')
        /\ \A c \in Calls : HasCell(Rows', c) => HasCell(Rows, c)
    BY <1>3, SplitKeeps
  <2>2. \A u \in Threads : pc[u] \in {"lock", "write"} => call[u] \in Calls
    BY DEF TypeInv, LocalsTyped, RecordHolding
  <2> HIDE DEF Rows, Once, HasCell
  <2> QED
    BY <2>1, <2>2 DEF RowsInv, StayOut
<1> QED
  BY <1>1, <1>2, <1>3, DrainedParts

\* A line is written behind everything else, for a call that is running.
LEMMA WrittenParts ==
    ASSUME TypeInv, CallsInv, NEW t \in Threads, WriteSmall(t) \/ WriteBig(t)
    PROVE  /\ entry[t] \in AuditEvent /\ entry[t].call = call[t] /\ outcome[call[t]] = "running"
           /\ lines \in Seq(Seq(Cell)) /\ Stream \in Seq(Cell)
           /\ Rows' = Append(lines, Stream \o LineOf(entry[t])) /\ Rows = Append(lines, Stream)
<1> DEFINE e == entry[t]
           line == LineOf(entry[t])
<1>1. /\ lines \in Seq(Seq(Cell)) /\ tail \in Seq(Cell) /\ buf \in Seq(Cell) /\ pending \in Seq(Cell)
      /\ pc[t] = "write" /\ lines' = lines /\ tail' = tail /\ call' = call /\ outcome' = outcome
      /\ pc \in [Threads -> PC]
  BY DEF WriteSmall, WriteBig, TypeInv, TypeOK, file, instance
<1>2. e \in AuditEvent /\ e.call = call[t] /\ call[t] \in Calls
  BY <1>1 DEF TypeInv, LocalsTyped, CallsInv, RecordHolding
<1>3. line \in Seq(Cell)
  BY <1>2, LineOfType
<1> HIDE DEF line
<1>4. Stream' = tail \o (buf \o (pending \o line))
  <2>1. CASE WriteSmall(t)
    BY <1>1, <2>1 DEF WriteSmall, Stream, line
  <2>2. CASE WriteBig(t)
    <3>1. buf \o pending \in Seq(Cell)
      BY <1>1, ConcatProperties
    <3>2. (buf \o pending) \o line \in Seq(Cell)
      BY <1>3, <3>1, ConcatProperties
    <3>3. Stream' = tail \o (((buf \o pending) \o line) \o << >>)
      BY <1>1, <2>2 DEF WriteBig, Stream, line
    <3>4. ((buf \o pending) \o line) \o << >> = (buf \o pending) \o line
      BY <3>2, ConcatEmptySeq
    <3>5. buf \in Seq(Cell) /\ pending \in Seq(Cell)
      BY <1>1
    <3>6. (buf \o pending) \o line = buf \o (pending \o line)
      BY <1>3, <3>5, ConcatAssociative
    <3> QED
      BY <3>3, <3>4, <3>6
  <2> QED
    BY <2>1, <2>2
<1>5. Stream' = Stream \o line /\ Stream \in Seq(Cell)
  <2>1. buf \o pending \in Seq(Cell)
    BY <1>1, ConcatProperties
  <2>0. buf \in Seq(Cell) /\ pending \in Seq(Cell) /\ tail \in Seq(Cell)
    BY <1>1
  <2>2. (buf \o pending) \o line = buf \o (pending \o line)
    BY <1>3, <2>0, ConcatAssociative
  <2>3. tail \o ((buf \o pending) \o line) = (tail \o (buf \o pending)) \o line
    <3> DEFINE waiting == buf \o pending
    <3>1. tail \in Seq(Cell) /\ waiting \in Seq(Cell)
      BY <2>0, <2>1
    <3> HIDE DEF waiting
    <3>2. tail \o (waiting \o line) = (tail \o waiting) \o line
      BY <1>3, <3>1, ConcatAssociative
    <3> QED
      BY <3>2 DEF waiting
  <2>4. tail \o (buf \o pending) \in Seq(Cell)
    BY <1>1, <2>1, ConcatProperties
  <2> QED
    BY <1>4, <2>2, <2>3, <2>4 DEF Stream
<1>6. Rows' = Append(lines, Stream \o LineOf(e)) /\ Rows = Append(lines, Stream)
  BY <1>1, <1>5 DEF Rows, line
<1>7. outcome[call[t]] = "running"
  BY <1>1 DEF CallsInv, InRecord, RecordHolding
<1> QED
  BY <1>1, <1>2, <1>5, <1>6, <1>7

LEMMA WrittenRows ==
    ASSUME TypeInv, CallsInv, RowsInv, NEW t \in Threads, WriteSmall(t) \/ WriteBig(t)
    PROVE  RowsInv'
<1> DEFINE e == entry[t]
<1>1. /\ pc[t] = "write" /\ call' = call /\ outcome' = outcome /\ pc \in [Threads -> PC]
  BY DEF WriteSmall, WriteBig, TypeInv, TypeOK, file, instance
<1>2. /\ e \in AuditEvent /\ e.call = call[t] /\ outcome[call[t]] = "running"
      /\ lines \in Seq(Seq(Cell)) /\ Stream \in Seq(Cell)
      /\ Rows' = Append(lines, Stream \o LineOf(e)) /\ Rows = Append(lines, Stream)
  BY WrittenParts
<1>3. call[t] \in Calls
  BY <1>1 DEF TypeInv, LocalsTyped, RecordHolding
<1>7. Once(Rows) /\ ~HasCell(Rows, e.call)
  BY <1>1, <1>2 DEF RowsInv
<1> HIDE DEF e
<1>8. /\ Once(Rows')
      /\ \A c \in Calls : HasCell(Rows', c) => c = e.call \/ HasCell(Rows, c)
  BY <1>2, <1>7, LineAdded
<1>10. \A u \in Threads : pc'[u] \in {"lock", "write"} =>
         /\ pc[u] \in {"lock", "write"} /\ call[u] \in Calls /\ call[u] # call[t]
  <2>1. ASSUME NEW u \in Threads, pc'[u] \in {"lock", "write"} PROVE u # t /\ pc[u] \in {"lock", "write"}
    BY <1>1, <2>1 DEF WriteSmall, WriteBig
  <2> QED
    BY <1>1, <2>1 DEF CallsInv, InRecord, RecordHolding, TypeInv, LocalsTyped
<1> HIDE DEF Rows, Once, HasCell
<1> QED
  BY <1>1, <1>2, <1>3, <1>8, <1>10 DEF RowsInv

\* Power loss and repair take bytes from the end, or a whole line.
LEMMA PowerLossRows ==
    ASSUME TypeOK, PowerLoss
    PROVE  Within(Rows', Rows)
<1>1. /\ lines \in Seq(Seq(Cell)) /\ tail \in Seq(Cell) /\ synced \in Nat /\ Len(lines) \in Nat
      /\ buf' = << >> /\ pending' = << >>
  BY LenProperties DEF TypeOK, PowerLoss, NoInstance
<1> DEFINE cut(n) == IF n < Len(lines) THEN lines[n + 1] ELSE tail
<1>2. PICK n \in synced..Len(lines) :
        lines' = SubSeq(lines, 1, n) /\ \E m \in 0..Len(cut(n)) : tail' = SubSeq(cut(n), 1, m)
  BY DEF PowerLoss
<1>3. PICK m \in 0..Len(cut(n)) : tail' = SubSeq(cut(n), 1, m)
  BY <1>2
<1>4. n \in 0..Len(lines)
  BY <1>1
<1>5. cut(n) \in Seq(Cell) /\ Len(cut(n)) \in Nat
  <2>1. CASE n < Len(lines)
    <3>1. n + 1 \in 1..Len(lines)
      BY <1>1, <1>4, <2>1
    <3>2. lines[n + 1] \in Seq(Cell)
      BY <1>1, <3>1, ElementOfSeq
    <3> QED
      BY <2>1, <3>2, LenProperties
  <2>2. CASE ~(n < Len(lines))
    BY <1>1, <2>2, LenProperties
  <2> QED
    BY <2>1, <2>2
<1>6. /\ tail' \in Seq(Cell) /\ Len(tail') = m /\ m <= Len(cut(n))
      /\ \A k \in 1..m : tail'[k] = cut(n)[k]
  <2> HIDE DEF cut
  <2>1. \A k \in 1..m : cut(n)[k] \in Cell
    BY <1>5, ElementOfSeq
  <2>2. m \in Nat /\ m <= Len(cut(n))
    BY <1>5
  <2> QED
    BY <1>3, <2>1, <2>2, SubSeqProperties
<1>7. Stream' = tail'
  <2>1. << >> \o << >> = << >>
    BY EmptySeq, ConcatEmptySeq
  <2> QED
    BY <1>1, <1>6, <2>1, ConcatEmptySeq DEF Stream
<1>8. /\ Stream \in Seq(Cell) /\ Len(tail) <= Len(Stream)
      /\ \A k \in 1..Len(tail) : Stream[k] = tail[k]
  <2>1. buf \in Seq(Cell) /\ pending \in Seq(Cell)
    BY DEF TypeOK
  <2> QED
    BY <1>1, <2>1, ThreeParts DEF Stream
<1> DEFINE from == IF n < Len(lines) THEN lines[n + 1] ELSE Stream
<1>9. Len(tail') <= Len(from) /\ \A k \in 1..Len(tail') : tail'[k] = from[k]
  <2>1. CASE n < Len(lines)
    BY <1>6, <2>1
  <2>2. CASE ~(n < Len(lines))
    <3>1. Len(Stream) \in Nat /\ Len(tail) \in Nat
      BY <1>1, <1>8, LenProperties
    <3> QED
      BY <1>6, <1>8, <2>2, <3>1
  <2> QED
    BY <2>1, <2>2
<1>10. Rows' = Append(SubSeq(lines, 1, n), tail') /\ Rows = Append(lines, Stream)
  BY <1>2, <1>7 DEF Rows
<1> HIDE DEF cut
<1> QED
  BY <1>1, <1>4, <1>6, <1>8, <1>9, <1>10, RowsCut

LEMMA RepairRows ==
    ASSUME TypeOK, Control, Repair
    PROVE  Within(Rows', Rows)
<1>1. /\ lines \in Seq(Seq(Cell)) /\ tail \in Seq(Cell) /\ Len(lines) \in Nat
      /\ buf = << >> /\ pending = << >> /\ buf' = << >> /\ pending' = << >> /\ tail' = << >>
      /\ << >> \in Seq(Cell) /\ Len(<< >>) = 0
  BY LenProperties, EmptySeq DEF TypeOK, Control, Repair, handle
<1>2. Stream = tail /\ Stream' = << >>
  <2>1. << >> \o << >> = << >>
    BY <1>1, ConcatEmptySeq
  <2> QED
    BY <1>1, <2>1, ConcatEmptySeq DEF Stream
<1>3. Rows = Append(lines, tail) /\ Rows' = Append(lines', << >>)
  BY <1>2 DEF Rows
<1>4. CASE lines' = lines
  <2>1. Len(<< >>) <= Len(tail) /\ \A k \in 1..Len(<< >>) : << >>[k] = tail[k]
    BY <1>1, LenProperties
  <2>2. Within(Append(lines, << >>), Append(lines, tail))
    BY <1>1, <2>1, LastRowCut
  <2> QED
    BY <1>3, <1>4, <2>2
<1>5. CASE lines' = Append(lines, tail)
  BY <1>1, <1>3, <1>5, RowClosed
<1>6. CASE tail = << >> /\ lines' = SubSeq(lines, 1, Len(lines) - 1)
  <2>1. lines # << >>
    BY <1>6 DEF Repair, Resumable
  <2> DEFINE n == Len(lines) - 1
  <2>2. n \in 0..Len(lines) /\ n < Len(lines) /\ n + 1 \in 1..Len(lines)
    BY <1>1, <2>1, EmptySeq
  <2>3. lines[n + 1] \in Seq(Cell)
    BY <1>1, <2>2, ElementOfSeq
  <2> HIDE DEF n
  <2>4. Len(<< >>) <= Len(lines[n + 1]) /\ \A k \in 1..Len(<< >>) : << >>[k] = lines[n + 1][k]
    BY <1>1, <2>3, LenProperties
  <2>5. LET cut == IF n < Len(lines) THEN lines[n + 1] ELSE tail
        IN  Len(<< >>) <= Len(cut) /\ \A k \in 1..Len(<< >>) : << >>[k] = cut[k]
    BY <2>2, <2>4
  <2>6. Within(Append(SubSeq(lines, 1, n), << >>), Append(lines, tail))
    BY <1>1, <2>2, <2>5, RowsCut
  <2> QED
    BY <1>3, <1>6, <2>6 DEF n
<1> QED
  BY <1>4, <1>5, <1>6 DEF Repair

LEMMA RowsInit == Init => RowsInv
<1> SUFFICES ASSUME Init PROVE RowsInv
  OBVIOUS
<1>1. << >> \in Seq(Cell) /\ << >> \in Seq(Seq(Cell)) /\ Len(<< >>) = 0
  BY EmptySeq
<1>2. << >> \o << >> = << >>
  BY <1>1, ConcatEmptySeq
<1>3. Rows = Append(<< >>, << >>)
  BY <1>2 DEF Init, Rows, Stream
<1>4. Len(Rows) = 1 /\ Rows[1] = << >>
  BY <1>1, <1>3, AppendProperties
<1>5. \A i, k \in Nat : ~IsCell(Rows, i, k)
  BY <1>1, <1>4 DEF IsCell
<1> HIDE DEF Rows
<1> QED
  BY <1>5 DEF RowsInv, Once, HasCell, Init

\* A call that ends other than by refusal stays in, if it stayed out before.
LEMMA ReturnStaysOut ==
    ASSUME TypeInv, NEW t \in Threads, NEW result, Return(t, result),
           \/ result \notin {"unused", "refused"}
           \/ pc[t] \in {"lock", "write"}
    PROVE  StayOut
<1>1. /\ \A c \in Calls : outcome'[c] = outcome[c] \/ (c = call[t] /\ outcome'[c] = result)
      /\ \A u \in Threads : pc'[u] \in {"lock", "write"} => pc[u] = pc'[u] /\ call'[u] = call[u]
  BY DEF Return, TypeInv, TypeOK
<1> QED
  BY <1>1 DEF StayOut

\* No thread comes to its write but from the lock, and no call ends.
LEMMA MoveStaysOut ==
    ASSUME UNCHANGED << call, outcome >>,
           \A u \in Threads : pc'[u] \in {"lock", "write"} => pc[u] \in {"lock", "write"}
    PROVE  StayOut
BY DEF StayOut

LEMMA NoInstanceStaysOut ==
    ASSUME NoInstance, outcome' = outcome \/ outcome' = Abandoned
    PROVE  StayOut
BY DEF StayOut, NoInstance, Abandoned

LEMMA StaysOutStep == TypeInv /\ [Next]_vars => StayOut
<1> SUFFICES ASSUME TypeInv, [Next]_vars PROVE StayOut
  OBVIOUS
<1>t. TypeOK /\ pc \in [Threads -> PC] /\ outcome \in [Calls -> Outcome]
      /\ call \in [Threads -> Calls \cup {NoCall}]
  BY DEF TypeInv, TypeOK
<1>1. CASE UNCHANGED vars \/ Construct \/ Repair
  BY <1>1, MoveStaysOut DEF vars, Construct, Repair, locals, history
<1>2. CASE Exit \/ Crash \/ PowerLoss
  BY <1>2, NoInstanceStaysOut DEF Exit, Crash, PowerLoss
<1>3. ASSUME NEW t \in Threads, ThreadNext(t) PROVE StayOut
  <2>1. CASE FindClosed(t) \/ AdvanceHash(t) \/ AppendFails(t) \/ Interrupted(t)
    BY <2>1, ReturnStaysOut DEF FindClosed, AdvanceHash, AppendFails, Interrupted
  <2>2. CASE HandleGone(t)
    <3>1. PICK result \in {"value_error", "write_error"} : Return(t, result)
      BY <2>2 DEF HandleGone, GoneResults
    <3> QED
      BY <3>1, ReturnStaysOut
  <2>3. CASE BuildEvent(t) \/ WriteSmall(t) \/ WriteBig(t) \/ BigWriteDone(t)
    BY <2>3, <1>t, MoveStaysOut DEF BuildEvent, WriteSmall, WriteBig, BigWriteDone, history
  <2>4. CASE FlushStart(t) \/ Drain(t) \/ FlushDone(t)
    BY <2>4, <1>t, MoveStaysOut DEF FlushStart, Drain, FlushDone, AfterFlush, locals, history
  <2>5. CASE Sync(t) \/ AdvanceSequence(t)
    BY <2>5, <1>t, MoveStaysOut DEF Sync, AdvanceSequence, history
  <2>6. CASE CloseSet(t) \/ CloseFlushStart(t) \/ CloseFlushDone(t)
    BY <2>6, <1>t, MoveStaysOut DEF CloseSet, CloseFlushStart, CloseFlushDone, history
  <2>7. CASE CloseDone(t) \/ CloseFindsClosed(t)
    BY <2>7, <1>t, MoveStaysOut DEF CloseDone, CloseFindsClosed, history
  <2> QED
    BY <1>3, <2>1, <2>2, <2>3, <2>4, <2>5, <2>6, <2>7 DEF ThreadNext
<1>4. ASSUME NEW t \in Threads, CloseStart(t) PROVE StayOut
  BY <1>4, <1>t, MoveStaysOut DEF CloseStart, history
<1>5. ASSUME NEW t \in Threads, NEW c \in Calls, NEW args \in Arguments,
             RecordRefused(t, c, args) \/ RecordStart(t, c, args)
      PROVE  StayOut
  BY <1>5, <1>t DEF RecordRefused, RecordStart, StayOut, locals
<1> QED
  BY <1>1, <1>2, <1>3, <1>4, <1>5 DEF Next, Environment

\* But for writes, and for bytes that reach the file, rows only lose cells.
LEMMA RowsMove ==
    TypeInv /\ Control /\ CallsInv /\ [Next]_vars =>
        \/ Within(Rows', Rows)
        \/ \E t \in Threads : WriteSmall(t) \/ WriteBig(t) \/ Drain(t)
<1> SUFFICES ASSUME TypeInv, Control, CallsInv, [Next]_vars,
                    \A t \in Threads : ~WriteSmall(t) /\ ~WriteBig(t) /\ ~Drain(t)
             PROVE  Within(Rows', Rows)
  OBVIOUS
<1>t. TypeOK
  BY DEF TypeInv
<1>1. CASE UNCHANGED << lines, tail, buf, pending >>
  BY <1>1, SameBytesSameRows
<1>2. CASE UNCHANGED vars \/ Construct
  BY <1>1, <1>2 DEF vars, Construct, file, handle
<1>3. CASE Exit \/ Crash
  BY <1>3, <1>t, LostRows DEF Exit, Crash, NoInstance, file
<1>4. CASE PowerLoss \/ Repair
  BY <1>4, <1>t, PowerLossRows, RepairRows
<1>5. ASSUME NEW t \in Threads, ThreadNext(t) PROVE Within(Rows', Rows)
  <2>1. CASE FlushStart(t) \/ CloseFlushStart(t)
    BY <2>1, <1>t, PushedRows DEF FlushStart, CloseFlushStart, file
  <2>2. CASE AppendFails(t) \/ Interrupted(t)
    <3>1. pc[t] = "bigwrite" => pending = << >>
      BY DEF CallsInv
    <3> QED
      BY <2>2, <3>1, <1>t, FailedRows DEF AppendFails, Interrupted, file
  <2>3. CASE CloseDone(t)
    BY <2>3, <1>t, LostRows DEF CloseDone, file
  <2>4. CASE FindClosed(t) \/ BuildEvent(t) \/ BigWriteDone(t) \/ FlushDone(t) \/ Sync(t)
    BY <2>4, <1>1 DEF FindClosed, BuildEvent, BigWriteDone, FlushDone, Sync, file, handle
  <2>5. CASE HandleGone(t) \/ AdvanceSequence(t) \/ AdvanceHash(t)
    BY <2>5, <1>1 DEF HandleGone, AdvanceSequence, AdvanceHash, file, handle
  <2>6. CASE CloseSet(t) \/ CloseFlushDone(t) \/ CloseFindsClosed(t)
    BY <2>6, <1>1 DEF CloseSet, CloseFlushDone, CloseFindsClosed, file, handle
  <2> QED
    BY <1>5, <2>1, <2>2, <2>3, <2>4, <2>5, <2>6 DEF ThreadNext
<1>6. ASSUME NEW t \in Threads, CloseStart(t) PROVE Within(Rows', Rows)
  BY <1>1, <1>6 DEF CloseStart, file, handle
<1>7. ASSUME NEW t \in Threads, NEW c \in Calls, NEW args \in Arguments,
             RecordRefused(t, c, args) \/ RecordStart(t, c, args)
      PROVE  Within(Rows', Rows)
  BY <1>1, <1>7 DEF RecordRefused, RecordStart, file, handle
<1> QED
  BY <1>2, <1>3, <1>4, <1>5, <1>6, <1>7 DEF Next, Environment

LEMMA RowsStep == TypeInv /\ Control /\ CallsInv /\ RowsInv /\ [Next]_vars => RowsInv'
BY RowsMove, StaysOutStep, RowsKept, WrittenRows, DrainedRows

-----------------------------------------------------------------------------

\* Everything the two theorems below rest on, as one inductive invariant.
ByteInv == TypeInv /\ Control /\ CallsInv /\ RowsInv

LEMMA ByteInit == Init => ByteInv
BY TypeInit, ControlInit, CallsInit, RowsInit DEF ByteInv

LEMMA ByteStep == ByteInv /\ [Next]_vars => ByteInv'
BY TypeStep, ControlStep, CallsStep, RowsStep DEF ByteInv

LEMMA LineParts ==
    ASSUME TypeOK, NEW c \in Calls, NEW i \in LinesOf(c)
    PROVE  /\ i \in Nat /\ IsCell(Rows, i, 1) /\ CellAt(Rows, i, 1).part = 1
           /\ CellAt(Rows, i, 1).event.call = c
<1>1. i \in 1..Len(lines) /\ Parses(lines[i]) /\ lines[i][1].event.call = c
  BY DEF LinesOf, EventOf
<1>2. Len(lines[i]) = LineCells - 1 /\ lines[i][1] = [event |-> lines[i][1].event, part |-> 1]
  BY <1>1, LineCellsAssumption DEF Parses
<1>3. Rows[i] = lines[i] /\ Len(Rows) = Len(lines) + 1 /\ Len(lines) \in Nat
  BY <1>1, RowsType
<1>4. lines[i][1].part = 1
  BY <1>2
<1> HIDE DEF Rows
<1> QED
  BY <1>1, <1>2, <1>3, <1>4, LineCellsAssumption DEF IsCell, CellAt

LEMMA OncePerFile == ByteInv => NeverTwice
<1> SUFFICES ASSUME ByteInv, NEW c \in Calls, NEW i \in 1..Len(lines), NEW j \in 1..Len(lines),
                    i \in LinesOf(c), j \in LinesOf(c)
             PROVE  i = j
  BY DEF NeverTwice
<1>1. /\ i \in Nat /\ IsCell(Rows, i, 1) /\ CellAt(Rows, i, 1).part = 1
      /\ CellAt(Rows, i, 1).event.call = c
      /\ j \in Nat /\ IsCell(Rows, j, 1) /\ CellAt(Rows, j, 1).part = 1
      /\ CellAt(Rows, j, 1).event.call = c
  BY LineParts DEF ByteInv, TypeInv
<1> QED
  BY <1>1 DEF ByteInv, RowsInv, Once

LEMMA RefusedIsNowhere == ByteInv => RefusedLeavesNoTrace
<1> SUFFICES ASSUME ByteInv, NEW c \in Calls, outcome[c] \in {"unused", "refused"},
                    NEW cells \in {tail, pending, buf} \cup {lines[i] : i \in 1..Len(lines)},
                    NEW k \in 1..Len(cells), cells[k].event.call = c
             PROVE  FALSE
  BY DEF RefusedLeavesNoTrace
<1>1. ~HasCell(Rows, c)
  BY DEF ByteInv, RowsInv
<1>2. /\ Len(Rows) = Len(lines) + 1 /\ Len(lines) \in Nat
      /\ \A i \in 1..Len(lines) : Rows[i] = lines[i]
      /\ Rows[Len(lines) + 1] = Stream
  BY RowsType DEF ByteInv, TypeInv
<1>3. /\ Len(Stream) = Len(tail) + Len(buf) + Len(pending)
      /\ Len(tail) \in Nat /\ Len(buf) \in Nat /\ Len(pending) \in Nat
      /\ \A n \in 1..Len(tail) : Stream[n] = tail[n]
      /\ \A n \in 1..Len(buf) : Stream[Len(tail) + n] = buf[n]
      /\ \A n \in 1..Len(pending) : Stream[Len(tail) + Len(buf) + n] = pending[n]
  <2>1. tail \in Seq(Cell) /\ buf \in Seq(Cell) /\ pending \in Seq(Cell)
    BY DEF ByteInv, TypeInv, TypeOK
  <2> DEFINE parts == tail \o (buf \o pending)
  <2>2. /\ Len(parts) = Len(tail) + Len(buf) + Len(pending)
        /\ Len(tail) \in Nat /\ Len(buf) \in Nat /\ Len(pending) \in Nat
        /\ \A n \in 1..Len(tail) : parts[n] = tail[n]
        /\ \A n \in 1..Len(buf) : parts[Len(tail) + n] = buf[n]
        /\ \A n \in 1..Len(pending) : parts[Len(tail) + Len(buf) + n] = pending[n]
    BY <2>1, ThreeParts
  <2>3. Stream = parts
    BY DEF Stream
  <2> HIDE DEF parts, Stream
  <2> QED
    BY <2>2, <2>3
<1> HIDE DEF Rows, Stream
<1>4. CASE \E i \in 1..Len(lines) : cells = lines[i]
  <2>1. PICK i \in 1..Len(lines) : cells = lines[i]
    BY <1>4
  <2>2. Len(lines[i]) \in Nat
    BY ElementOfSeq, LenProperties DEF ByteInv, TypeInv, TypeOK
  <2>3. i \in Nat /\ k \in Nat /\ IsCell(Rows, i, k) /\ CellAt(Rows, i, k).event.call = c
    BY <1>2, <2>1, <2>2 DEF IsCell, CellAt
  <2> QED
    BY <1>1, <2>3 DEF HasCell
<1>5. ASSUME NEW n \in 1..Len(Stream), Stream[n].event.call = c PROVE FALSE
  <2>1. Len(lines) + 1 \in Nat /\ n \in Nat
    BY <1>2, <1>3, <1>5
  <2>2. IsCell(Rows, Len(lines) + 1, n) /\ CellAt(Rows, Len(lines) + 1, n).event.call = c
    BY <1>2, <1>5 DEF IsCell, CellAt
  <2> QED
    BY <1>1, <2>1, <2>2 DEF HasCell
<1>6. CASE cells = tail
  <2>1. k \in 1..Len(Stream) /\ Stream[k] = tail[k]
    BY <1>3, <1>6
  <2> QED
    BY <1>5, <1>6, <2>1
<1>7. CASE cells = buf
  <2>1. Len(tail) + k \in 1..Len(Stream) /\ Stream[Len(tail) + k] = buf[k]
    BY <1>3, <1>7
  <2> QED
    BY <1>5, <1>7, <2>1
<1>8. CASE cells = pending
  <2>1. Len(tail) + Len(buf) + k \in 1..Len(Stream) /\ Stream[Len(tail) + Len(buf) + k] = pending[k]
    BY <1>3, <1>8
  <2> QED
    BY <1>5, <1>8, <2>1
<1> QED
  BY <1>4, <1>6, <1>7, <1>8

\* No call is in the file twice, whatever failed and however the file was cut
\* and repaired (the exceptions of record(), audit.py's lines 268-298): also
\* after an append has gone on behind a failed one.
THEOREM NeverTwiceAlways == Spec => []NeverTwice
BY ByteInit, ByteStep, OncePerFile, PTL DEF Spec

\* A call that raised before its first byte has no byte anywhere, in the file
\* or in a buffer that may still be flushed.
THEOREM RefusedLeavesNoTraceAlways == Spec => []RefusedLeavesNoTrace
BY ByteInit, ByteStep, RefusedIsNowhere, PTL DEF Spec

-----------------------------------------------------------------------------
(* Calls that returned                                                     *)
(*                                                                         *)
(* AckedOnDisk looks at one moment, the return of record(), and claims     *)
(* something for ever after.  What carries it over: while no append goes   *)
(* on behind a failed one, the line of a thread that is about to return is *)
(* the last of the file, on stable storage with fsync=, and no other       *)
(* thread's bytes are under way.                                           *)

\* A failed append leaves the critical section; no fault, no failed append
\* while the handle is open.
FailuresLeave ==
    /\ ~spoiled => \A t \in Threads : pc[t] \in RecordHolding \ {"write"} => ~dirty
    /\ ~live => ~dirty
    /\ faults = 0 => ~spoiled /\ (fh_open => ~dirty)

LEMMA FailuresInit == Init => FailuresLeave
BY DEF Init, FailuresLeave, RecordHolding

\* Steps of a thread that neither enter the critical section nor fail there.
LEMMA FailuresStay ==
    ASSUME FailuresLeave, UNCHANGED << dirty, spoiled, fh_open, live >>,
           faults' = 0 => faults = 0,
           \A t \in Threads : pc'[t] \in RecordHolding \ {"write"} => pc[t] \in RecordHolding \ {"write"}
    PROVE  FailuresLeave'
BY DEF FailuresLeave

LEMMA FailuresStep == TypeInv /\ Control /\ FailuresLeave /\ [Next]_vars => FailuresLeave'
<1> SUFFICES ASSUME TypeInv, Control, FailuresLeave, [Next]_vars PROVE FailuresLeave'
  OBVIOUS
<1>t. /\ pc \in [Threads -> PC] /\ faults \in Nat /\ dirty \in BOOLEAN /\ spoiled \in BOOLEAN
      /\ live \in BOOLEAN /\ fh_open \in BOOLEAN
  BY DEF TypeInv, TypeOK
<1>1. CASE UNCHANGED vars
  BY <1>1, FailuresStay DEF vars, handle, instance, locals, history
<1>2. CASE Construct
  BY <1>2, <1>t DEF Construct, FailuresLeave, Control, locals, history, RecordHolding
<1>3. CASE Exit \/ Crash \/ PowerLoss
  BY <1>3 DEF Exit, Crash, PowerLoss, NoInstance, FailuresLeave, RecordHolding
<1>4. CASE Repair
  BY <1>4, FailuresStay DEF Repair, handle, instance, locals, history
<1>5. ASSUME NEW t \in Threads, ThreadNext(t) PROVE FailuresLeave'
  <2>l. fh_open => live
    BY DEF Control
  <2>1. CASE FindClosed(t)
    BY <2>1, <1>t, FailuresStay DEF FindClosed, Return, handle, RecordHolding
  <2>2. CASE BuildEvent(t)
    BY <2>2, <1>t, FailuresStay DEF BuildEvent, handle, history, RecordHolding
  <2>3. CASE WriteSmall(t) \/ WriteBig(t)
    <3>1. \A u \in Threads \ {t} : pc'[u] \notin RecordHolding
      BY <2>3, <1>t, AuditLogAssumption DEF WriteSmall, WriteBig, Control, RecordHolding
    <3> QED
      BY <2>3, <1>t, <2>l, <3>1 DEF WriteSmall, WriteBig, FailuresLeave, instance
  <2>4. CASE BigWriteDone(t)
    BY <2>4, <1>t, FailuresStay DEF BigWriteDone, instance, history, RecordHolding
  <2>5. CASE FlushStart(t)
    BY <2>5, <1>t, FailuresStay DEF FlushStart, instance, history, RecordHolding
  <2>6. CASE Drain(t)
    BY <2>6, FailuresStay DEF Drain, instance, locals, history
  <2>7. CASE FlushDone(t)
    BY <2>7, <1>t, FailuresStay DEF FlushDone, AfterFlush, instance, history, RecordHolding
  <2>8. CASE Sync(t)
    BY <2>8, <1>t, FailuresStay DEF Sync, handle, instance, history, RecordHolding
  <2>9. CASE AppendFails(t) \/ Interrupted(t)
    <3>1. \A u \in Threads : pc'[u] \notin RecordHolding
      BY <2>9, <1>t, AuditLogAssumption DEF AppendFails, Interrupted, Return, Control, RecordHolding
    <3>2. live /\ faults' # 0
      BY <2>9, <1>t DEF AppendFails, Interrupted, Control, RecordHolding
    <3> QED
      BY <2>9, <3>1, <3>2 DEF AppendFails, Interrupted, FailuresLeave
  <2>10. CASE HandleGone(t)
    <3>1. \A u \in Threads : pc'[u] \notin RecordHolding
      BY <2>10, <1>t, AuditLogAssumption DEF HandleGone, Return, Control, RecordHolding
    <3>2. live
      BY <2>10, <1>t DEF HandleGone, Control
    <3> QED
      BY <2>10, <3>1, <3>2 DEF HandleGone, FailuresLeave, handle
  <2>11. CASE AdvanceSequence(t)
    BY <2>11, <1>t, FailuresStay DEF AdvanceSequence, handle, history, RecordHolding
  <2>12. CASE AdvanceHash(t)
    BY <2>12, <1>t, FailuresStay DEF AdvanceHash, Return, handle, RecordHolding
  <2>13. CASE CloseSet(t)
    BY <2>13, <1>t, FailuresStay DEF CloseSet, handle, history, RecordHolding
  <2>14. CASE CloseFlushStart(t)
    BY <2>14, <1>t, FailuresStay DEF CloseFlushStart, instance, history, RecordHolding
  <2>15. CASE CloseFlushDone(t)
    BY <2>15, <1>t, FailuresStay DEF CloseFlushDone, instance, RecordHolding
  <2>16. CASE CloseDone(t)
    BY <2>16, <1>t DEF CloseDone, FailuresLeave, instance, RecordHolding
  <2>17. CASE CloseFindsClosed(t)
    BY <2>17, <1>t, FailuresStay DEF CloseFindsClosed, handle, instance, history, RecordHolding
  <2> QED
    BY <1>5, <2>1, <2>2, <2>3, <2>4, <2>5, <2>6, <2>7, <2>8, <2>9, <2>10, <2>11,
       <2>12, <2>13, <2>14, <2>15, <2>16, <2>17 DEF ThreadNext
<1>6. ASSUME NEW t \in Threads, CloseStart(t) PROVE FailuresLeave'
  BY <1>6, <1>t, FailuresStay DEF CloseStart, handle, instance, history, RecordHolding
<1>7. ASSUME NEW t \in Threads, NEW c \in Calls, NEW args \in Arguments,
             RecordRefused(t, c, args) \/ RecordStart(t, c, args)
      PROVE  FailuresLeave'
  BY <1>7, <1>t, FailuresStay DEF RecordRefused, RecordStart, handle, instance, locals, RecordHolding
<1> QED
  BY <1>1, <1>2, <1>3, <1>4, <1>5, <1>6, <1>7 DEF Next, Environment

Advancing == {"advance", "advance_hash"}

\* A line that is there to stay: on stable storage, with fsync=.
OnFile(c) == \E i \in LinesOf(c) : Fsync => i <= synced

Kept ==
    /\ ~spoiled /\ Fsync => \A t \in Threads : pc[t] \in Advancing => Len(lines) <= synced
    /\ ~spoiled /\ (powerLost => Fsync) => \A c \in Calls : outcome[c] = "ok" => OnFile(c)

\* Everything the theorems below rest on.
KeepInv == ChainInv /\ Behind /\ CallsInv /\ FailuresLeave

\* While a thread is about to return, nothing is on its way to the file.
LEMMA NothingUnderWay ==
    ASSUME KeepInv, ~spoiled, NEW t \in Threads, pc[t] \in Advancing
    PROVE  buf = << >>
<1>1. CASE ~fh_open
  BY <1>1 DEF KeepInv, ChainInv, Control
<1>2. CASE fh_open
  <2>1. InStep
    BY <1>2 DEF KeepInv, ChainInv, Unbroken, FailuresLeave, Advancing, RecordHolding
  <2> QED
    BY <2>1 DEF InStep, InFlight, Written, Quiet, Advancing, RecordHolding
<1> QED
  BY <1>1, <1>2

\* The line of that thread is the last of the file, and its call's own.
LEMMA LastIsOwn ==
    ASSUME KeepInv, ~spoiled, NEW t \in Threads, pc[t] \in Advancing
    PROVE  call[t] \in Calls /\ Len(lines) \in LinesOf(call[t])
<1>1. /\ lines \in Seq(Seq(Cell)) /\ pc[t] \in RecordHolding \ {"write"} /\ call[t] \in Calls
      /\ entry[t].call = call[t]
  BY DEF KeepInv, ChainInv, TypeInv, TypeOK, LocalsTyped, CallsInv, Advancing, RecordHolding
<1>2. ~dirty /\ live
  BY <1>1 DEF KeepInv, FailuresLeave, ChainInv, Control, Advancing
<1>3. lines # << >> /\ entry[t] = EventOf(lines[Len(lines)])
  BY <1>2 DEF KeepInv, Behind, EntryIsLast, Finishing, Advancing
<1>4. Len(lines) \in 1..Len(lines)
  BY <1>1, <1>3, EmptySeq
<1>5. Parses(lines[Len(lines)])
  BY <1>4 DEF KeepInv, ChainInv, Chained, ChainedUnder
<1> QED
  BY <1>1, <1>3, <1>4, <1>5 DEF LinesOf

\* Lines that stay where they are, and are not taken off stable storage.
LEMMA StaysOnFile ==
    ASSUME TypeOK, Len(lines') \in Nat, Len(lines) <= Len(lines'),
           \A i \in 1..Len(lines) : lines'[i] = lines[i],
           synced' \in Nat, \A i \in 1..Len(lines) : i <= synced => i <= synced',
           NEW c \in Calls, OnFile(c)
    PROVE  OnFile(c)'
<1>1. PICK i \in LinesOf(c) : Fsync => i <= synced
  BY DEF OnFile
<1>2. i \in 1..Len(lines) /\ lines'[i] = lines[i] /\ i \in 1..Len(lines')
  BY LenProperties DEF LinesOf, TypeOK
<1>3. i \in LinesOf(c)'
  BY <1>1, <1>2 DEF LinesOf
<1> QED
  BY <1>1, <1>2, <1>3 DEF OnFile

\* Steps that change no line, and let no thread advance or return.
LEMMA StaysKept ==
    ASSUME TypeOK, Kept, UNCHANGED << lines, synced, powerLost >>,
           ~spoiled' => ~spoiled,
           \A c \in Calls : outcome'[c] = "ok" => outcome[c] = "ok",
           \A t \in Threads : Fsync /\ pc'[t] \in Advancing => pc[t] \in Advancing
    PROVE  Kept'
<1>1. \A c \in Calls : OnFile(c)' <=> OnFile(c)
  BY DEF OnFile, LinesOf
<1> QED
  BY <1>1 DEF Kept

LEMMA KeptInit == Init => Kept
BY DEF Init, Kept, Advancing

\* A step that makes the file longer, by a line of its own or none.
LEMMA LongerFileKept ==
    ASSUME KeepInv, Kept, UNCHANGED << synced, pc, outcome, spoiled, powerLost >>,
           \/ UNCHANGED lines
           \/ lines' = Append(lines, tail) /\ \A t \in Threads : ~spoiled => pc[t] \notin Advancing
    PROVE  Kept'
<1>1. CASE UNCHANGED lines
  BY <1>1, StaysKept DEF KeepInv, ChainInv, TypeInv
<1>2. CASE lines' = Append(lines, tail) /\ \A t \in Threads : ~spoiled => pc[t] \notin Advancing
  <2>1. /\ TypeOK /\ lines \in Seq(Seq(Cell)) /\ tail \in Seq(Cell) /\ synced \in Nat
        /\ Len(lines) \in Nat
    BY LenProperties DEF KeepInv, ChainInv, TypeInv, TypeOK
  <2>2. Len(lines') = Len(lines) + 1 /\ \A i \in 1..Len(lines) : lines'[i] = lines[i]
    BY <1>2, <2>1, AppendProperties
  <2>3. \A c \in Calls : OnFile(c) => OnFile(c)'
    BY <2>1, <2>2, StaysOnFile
  <2> QED
    BY <1>2, <2>3 DEF Kept
<1> QED
  BY <1>1, <1>2

LEMMA PowerLossKept ==
    ASSUME KeepInv, Kept, PowerLoss
    PROVE  Kept'
<1>1. /\ lines \in Seq(Seq(Cell)) /\ synced \in Nat /\ Len(lines) \in Nat
  BY LenProperties DEF KeepInv, ChainInv, TypeInv, TypeOK
<1>2. PICK n \in synced..Len(lines) : lines' = SubSeq(lines, 1, n) /\ synced' = n
  BY DEF PowerLoss
<1>3. /\ powerLost' /\ UNCHANGED spoiled /\ \A t \in Threads : pc'[t] = "idle"
      /\ \A c \in Calls : outcome'[c] = "ok" => outcome[c] = "ok"
  BY DEF PowerLoss, NoInstance, Abandoned
<1>4. n \in Nat /\ n <= Len(lines) /\ synced <= n
  BY <1>1, <1>2
<1>5. Len(lines') = n /\ \A i \in 1..n : lines'[i] = lines[i]
  <2>1. \A i \in 1..n : lines[i] \in Seq(Cell)
    BY <1>1, <1>4, ElementOfSeq
  <2> QED
    BY <1>2, <1>4, <2>1, SubSeqProperties
<1>6. ASSUME NEW c \in Calls, OnFile(c), Fsync PROVE OnFile(c)'
  <2>1. PICK i \in LinesOf(c) : i <= synced
    BY <1>6 DEF OnFile
  <2>2. i \in 1..Len(lines) /\ i \in 1..n /\ i \in 1..Len(lines') /\ lines'[i] = lines[i]
    BY <1>1, <1>4, <1>5, <2>1 DEF LinesOf
  <2>3. i \in LinesOf(c)' /\ i <= synced'
    BY <1>2, <2>1, <2>2 DEF LinesOf
  <2> QED
    BY <2>3 DEF OnFile
<1> QED
  BY <1>3, <1>6 DEF Kept, Advancing

LEMMA KeptStep == KeepInv /\ Kept /\ [Next]_vars => Kept'
<1> SUFFICES ASSUME KeepInv, Kept, [Next]_vars PROVE Kept'
  OBVIOUS
<1>t. TypeOK /\ pc \in [Threads -> PC] /\ outcome \in [Calls -> Outcome]
      /\ spoiled \in BOOLEAN /\ dirty \in BOOLEAN
  BY DEF KeepInv, ChainInv, TypeInv, TypeOK
<1>s. ASSUME NEW t \in Threads, NEW result, Return(t, result), result # "ok",
             UNCHANGED << lines, synced, powerLost, spoiled >>
      PROVE  Kept'
  BY <1>s, <1>t, StaysKept DEF Return, Advancing
<1>1. CASE UNCHANGED vars
  BY <1>1, <1>t, StaysKept DEF vars, file, locals, history
<1>2. CASE Construct
  BY <1>2, <1>t, StaysKept DEF Construct, file, locals, history
<1>3. CASE Exit \/ Crash
  BY <1>3, <1>t, StaysKept DEF Exit, Crash, NoInstance, Abandoned, file, Advancing
<1>4. CASE PowerLoss
  BY <1>4, PowerLossKept
<1>5. CASE Repair
  <2>1. \A t \in Threads : pc[t] \notin Advancing
    BY <1>5 DEF Repair, KeepInv, ChainInv, Control, Advancing
  <2>2. ASSUME ~spoiled, tail = << >> PROVE FALSE
    <3>1. lines # << >> /\ ~Parses(lines[Len(lines)])
      BY <1>5, <2>2 DEF Repair, Resumable
    <3>2. Len(lines) \in 1..Len(lines)
      BY <1>t, <3>1, EmptySeq DEF TypeOK
    <3> QED
      BY <2>2, <3>1, <3>2 DEF KeepInv, ChainInv, Chained, ChainedUnder
  <2>3. CASE ~spoiled
    <3>1. UNCHANGED synced /\ (UNCHANGED lines \/ lines' = Append(lines, tail))
      BY <1>5, <2>2, <2>3 DEF Repair
    <3> QED
      BY <1>5, <2>1, <3>1, LongerFileKept DEF Repair, locals, history
  <2>4. CASE spoiled
    BY <1>5, <2>4 DEF Repair, Kept, history
  <2> QED
    BY <1>t, <2>3, <2>4
<1>6. ASSUME NEW t \in Threads, ThreadNext(t) PROVE Kept'
  <2>1. CASE FindClosed(t)
    BY <2>1, <1>s DEF FindClosed, file
  <2>2. CASE BuildEvent(t)
    BY <2>2, <1>t, StaysKept DEF BuildEvent, file, history, Advancing
  <2>3. CASE WriteSmall(t) \/ WriteBig(t)
    BY <2>3, <1>t, StaysKept DEF WriteSmall, WriteBig, file, Advancing
  <2>4. CASE BigWriteDone(t)
    BY <2>4, <1>t, StaysKept DEF BigWriteDone, file, history, Advancing
  <2>5. CASE FlushStart(t)
    BY <2>5, <1>t, StaysKept DEF FlushStart, file, history, Advancing
  <2>6. CASE Drain(t)
    <3>1. \A u \in Threads : ~spoiled => pc[u] \notin Advancing
      BY <2>6, NothingUnderWay DEF Drain
    <3>2. UNCHANGED << synced, pc, outcome, spoiled, powerLost >>
          /\ (UNCHANGED lines \/ lines' = Append(lines, tail))
      BY <2>6 DEF Drain, locals, history
    <3> QED
      BY <3>1, <3>2, LongerFileKept
  <2>7. CASE FlushDone(t)
    BY <2>7, <1>t, StaysKept DEF FlushDone, AfterFlush, file, history, Advancing
  <2>8. CASE Sync(t)
    <3>1. synced' = Len(lines) /\ lines' = lines /\ UNCHANGED << outcome, spoiled, powerLost >>
      BY <2>8 DEF Sync, history
    <3>2. lines \in Seq(Seq(Cell)) /\ Len(lines) \in Nat
      BY <1>t, LenProperties DEF TypeOK
    <3>3. \A c \in Calls : OnFile(c) => OnFile(c)'
      BY <1>t, <3>1, <3>2, StaysOnFile
    <3> QED
      BY <3>1, <3>2, <3>3 DEF Kept
  <2>9. CASE AppendFails(t)
    BY <2>9, <1>s DEF AppendFails, file
  <2>10. CASE HandleGone(t)
    <3>1. PICK result \in {"value_error", "write_error"} : Return(t, result)
      BY <2>10 DEF HandleGone, GoneResults
    <3> QED
      BY <2>10, <3>1, <1>s DEF HandleGone, file
  <2>11. CASE Interrupted(t)
    BY <2>11, <1>s DEF Interrupted, file
  <2>12. CASE AdvanceSequence(t)
    BY <2>12, <1>t, StaysKept DEF AdvanceSequence, file, history, Advancing
  <2>13. CASE AdvanceHash(t)
    <3>1. /\ UNCHANGED << lines, synced, spoiled, powerLost >> /\ pc[t] \in Advancing
          /\ \A c \in Calls : outcome'[c] = "ok" => outcome[c] = "ok" \/ c = call[t]
          /\ \A u \in Threads : pc'[u] \in Advancing => pc[u] \in Advancing
      BY <2>13, <1>t DEF AdvanceHash, Return, file, Advancing
    <3>2. \A c \in Calls : OnFile(c)' <=> OnFile(c)
      BY <3>1 DEF OnFile, LinesOf
    <3>3. ~spoiled => OnFile(call[t])
      BY <3>1, LastIsOwn DEF Kept, OnFile
    <3> QED
      BY <3>1, <3>2, <3>3 DEF Kept
  <2>14. CASE CloseSet(t)
    BY <2>14, <1>t, StaysKept DEF CloseSet, file, history, Advancing
  <2>15. CASE CloseFlushStart(t)
    BY <2>15, <1>t, StaysKept DEF CloseFlushStart, file, history, Advancing
  <2>16. CASE CloseFlushDone(t)
    BY <2>16, <1>t, StaysKept DEF CloseFlushDone, file, Advancing
  <2>17. CASE CloseDone(t)
    BY <2>17, <1>t, StaysKept DEF CloseDone, file, Advancing
  <2>18. CASE CloseFindsClosed(t)
    BY <2>18, <1>t, StaysKept DEF CloseFindsClosed, file, history, Advancing
  <2> QED
    BY <1>6, <2>1, <2>2, <2>3, <2>4, <2>5, <2>6, <2>7, <2>8, <2>9, <2>10, <2>11,
       <2>12, <2>13, <2>14, <2>15, <2>16, <2>17, <2>18 DEF ThreadNext
<1>7. ASSUME NEW t \in Threads, CloseStart(t) PROVE Kept'
  BY <1>7, <1>t, StaysKept DEF CloseStart, file, history, Advancing
<1>8. ASSUME NEW t \in Threads, NEW c \in Calls, NEW args \in Arguments,
             RecordRefused(t, c, args) \/ RecordStart(t, c, args)
      PROVE  Kept'
  BY <1>8, <1>t, StaysKept DEF RecordRefused, RecordStart, file, locals, Advancing
<1> QED
  BY <1>1, <1>2, <1>3, <1>4, <1>5, <1>6, <1>7, <1>8 DEF Next, Environment

\* The handle is closed between two lines.
LEMMA ClosesBetweenLines ==
    ASSUME KeepInv, NEW t \in Threads, CloseDone(t), faults' = 0
    PROVE  tail = << >>
<1>1. /\ pc[t] = "c_closing" /\ buf = << >> /\ faults = 0 /\ lock \in Threads \cup {NoThread}
      /\ faults \in Nat
  BY DEF CloseDone, KeepInv, ChainInv, TypeInv, TypeOK
<1>2. InStep
  BY <1>1 DEF KeepInv, ChainInv, Control, Unbroken, FailuresLeave, Draining
<1>3. CASE lock = NoThread
  BY <1>2, <1>3 DEF InStep, MemoryAgrees, Quiet
<1>4. CASE lock # NoThread
  <2>1. PICK u \in Threads : lock = u /\ pc[u] \in RecordHolding
    BY <1>4 DEF KeepInv, CallsInv
  <2>2. CASE pc[u] = "write"
    BY <1>2, <2>2 DEF InStep, MemoryAgrees, Quiet
  <2>3. CASE pc[u] # "write"
    <3>1. InFlight(u) \/ Written(u)
      BY <1>2, <2>1, <2>3 DEF InStep
    <3> QED
      BY <1>1, <3>1 DEF InFlight, Written, Quiet, Streaming
  <2> QED
    BY <2>2, <2>3
<1> QED
  BY <1>3, <1>4

LEMMA TearsNothingInit == Init => CloseTearsNothing
BY DEF Init, CloseTearsNothing

LEMMA TearsNothingStep == KeepInv /\ CloseTearsNothing /\ [Next]_vars => CloseTearsNothing'
<1> SUFFICES ASSUME KeepInv, CloseTearsNothing, [Next]_vars, live', ~fh_open', faults' = 0
             PROVE  tail' = << >>
  BY DEF CloseTearsNothing
<1>t. faults \in Nat /\ (fh_open => live)
      /\ \A t \in Threads : pc[t] \in Draining => fh_open
  BY DEF KeepInv, ChainInv, TypeInv, TypeOK, Control
<1>a. ASSUME UNCHANGED << tail, live, fh_open >>, faults = 0 PROVE tail' = << >>
  BY <1>a DEF CloseTearsNothing
<1>1. CASE UNCHANGED vars
  BY <1>1, <1>a DEF vars, file, handle, instance, history
<1>2. CASE Environment
  BY <1>2 DEF Environment, Construct, Exit, Crash, PowerLoss, Repair, NoInstance
<1>3. ASSUME NEW t \in Threads, ThreadNext(t) PROVE tail' = << >>
  <2>1. CASE CloseDone(t)
    BY <2>1, ClosesBetweenLines DEF CloseDone, file
  <2>2. CASE Drain(t)
    BY <1>t, <2>2 DEF Drain, Draining
  <2>3. CASE FindClosed(t) \/ BuildEvent(t) \/ AdvanceSequence(t) \/ AdvanceHash(t) \/ HandleGone(t)
    BY <1>a, <2>3 DEF FindClosed, BuildEvent, AdvanceSequence, AdvanceHash, HandleGone, file, handle, history
  <2>4. CASE WriteSmall(t) \/ WriteBig(t) \/ BigWriteDone(t) \/ FlushStart(t) \/ FlushDone(t)
    BY <1>a, <2>4 DEF WriteSmall, WriteBig, BigWriteDone, FlushStart, FlushDone, file, instance, history
  <2>5. CASE Sync(t)
    BY <1>a, <2>5 DEF Sync, handle, instance, history
  <2>6. CASE AppendFails(t) \/ Interrupted(t)
    <3>1. faults' = faults + 1
      BY <2>6 DEF AppendFails, Interrupted
    <3> QED
      BY <1>t, <3>1
  <2>7. CASE CloseSet(t) \/ CloseFlushStart(t) \/ CloseFindsClosed(t)
    BY <1>a, <2>7 DEF CloseSet, CloseFlushStart, CloseFindsClosed, file, handle, instance, history
  <2>8. CASE CloseFlushDone(t)
    <3>1. UNCHANGED << tail, live, fh_open >> /\ (faults' = faults \/ faults' = faults + 1)
      BY <2>8 DEF CloseFlushDone, file, instance
    <3>2. faults = 0
      BY <1>t, <3>1
    <3> QED
      BY <1>a, <3>1, <3>2
  <2> QED
    BY <1>3, <2>1, <2>2, <2>3, <2>4, <2>5, <2>6, <2>7, <2>8 DEF ThreadNext
<1>4. ASSUME NEW t \in Threads, CloseStart(t) PROVE tail' = << >>
  BY <1>4, <1>a DEF CloseStart, file, handle, instance, history
<1>5. ASSUME NEW t \in Threads, NEW c \in Calls, NEW args \in Arguments,
             RecordRefused(t, c, args) \/ RecordStart(t, c, args)
      PROVE  tail' = << >>
  BY <1>5, <1>a DEF RecordRefused, RecordStart, file, handle, instance
<1> QED
  BY <1>1, <1>2, <1>3, <1>4, <1>5 DEF Next

-----------------------------------------------------------------------------

LEMMA KeepInit == Init => KeepInv
BY ChainInit, BehindInit, CallsInit, FailuresInit DEF KeepInv

LEMMA KeepStep == KeepInv /\ [Next]_vars => KeepInv'
BY ChainStep, BehindStep, CallsStep, FailuresStep DEF KeepInv, ChainInv

LEMMA KeptIsSynced == Kept => AckedIsSynced
BY DEF Kept, OnFile, AckedIsSynced

LEMMA KeptIsOnDisk == Kept /\ NeverTwice => AckedOnDisk
<1> SUFFICES ASSUME Kept, NeverTwice, ~spoiled, powerLost => Fsync, NEW c \in Calls, outcome[c] = "ok"
             PROVE  \E i \in 1..Len(lines) : LinesOf(c) = {i}
  BY DEF AckedOnDisk
<1>1. PICK i \in LinesOf(c) : TRUE
  BY DEF Kept, OnFile
<1>2. \A j \in LinesOf(c) : j = i
  BY DEF NeverTwice, LinesOf
<1>3. i \in 1..Len(lines) /\ LinesOf(c) = {i}
  BY <1>1, <1>2 DEF LinesOf
<1> QED
  BY <1>3

\* A record() that returned its event is on stable storage from then on, when
\* the instance was made with fsync=True.
THEOREM AckedIsAlwaysSynced == Spec => []AckedIsSynced
BY KeepInit, KeepStep, KeptInit, KeptStep, KeptIsSynced, PTL DEF Spec

\* A record() that returned its event is in the file, once, for ever after:
\* through close(), crashes and restarts, and with fsync=True through power
\* losses, as long as no append goes on behind a failed one.
THEOREM AckedIsAlwaysOnDisk == Spec => []AckedOnDisk
BY KeepInit, KeepStep, KeptInit, KeptStep, KeptIsOnDisk, NeverTwiceAlways, PTL DEF Spec

\* close() takes no lock, and closes the handle between two lines whatever the
\* other threads do, as long as no I/O call fails.
THEOREM CloseNeverTears == Spec => []CloseTearsNothing
BY KeepInit, KeepStep, TearsNothingInit, TearsNothingStep, PTL DEF Spec
=============================================================================
