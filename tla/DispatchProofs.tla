--------------------------- MODULE DispatchProofs ----------------------------
(***************************************************************************)
(* Proofs about Dispatch: that no tool runs unrecorded, and that the log   *)
(* keeps the order clients saw.  The first rests on what is proved of      *)
(* single record() calls: one that returned is in the file.  The second is *)
(* about all bytes the library wrote, in the rows of AuditLogCallProofs.   *)
(***************************************************************************)
EXTENDS Dispatch, AuditLogCallProofs

-----------------------------------------------------------------------------
(* The writer under the handlers *)

\* To the writer a server's step is one of its own, or none.
LEMMA ServerIsWriter == [ServerNext]_serverVars => [Next]_vars
<1> SUFFICES ASSUME [ServerNext]_serverVars PROVE [Next]_vars
  OBVIOUS
<1>1. CASE UNCHANGED serverVars
  BY <1>1 DEF serverVars
<1>2. CASE Construct \/ Repair \/ Exit \/ Crash \/ PowerLoss
  BY <1>2 DEF Next, Environment
<1>3. ASSUME NEW t \in Threads, ThreadNext(t) \/ CloseStart(t) PROVE Next
  BY <1>3 DEF Next
<1>4. ASSUME NEW t \in Threads, NEW c \in Calls, NEW r \in Requests, Serve(t, c, r) PROVE Next
  <2>1. Recorded(r) \in Arguments
    BY DispatchAssumption
  <2> QED
    BY <1>4, <2>1 DEF Serve, Take, Next
<1>5. ASSUME NEW t \in Threads, Handling(t) PROVE UNCHANGED vars
  BY <1>5 DEF Handling, RunBody, ReplyResult, ReplyRaised, ReplyDenied, ReplyRecorded, ReplyError, Reply
<1> QED
  BY <1>1, <1>2, <1>3, <1>4, <1>5 DEF ServerNext

WriterInv == KeepInv /\ Kept /\ ByteInv

LEMMA WriterInit == ServerInit => WriterInv
BY KeepInit, KeptInit, ByteInit DEF ServerInit, WriterInv

LEMMA WriterStep == WriterInv /\ [ServerNext]_serverVars => WriterInv'
BY ServerIsWriter, KeepStep, KeptStep, ByteStep DEF WriterInv

\* A call's outcome is settled once, and a thread stays in record() for the
\* call it entered with.
LEMMA OutcomesSettle ==
    ASSUME TypeOK, NEW t \in Threads, ThreadNext(t), \A u \in Threads : pc[u] \in InRecord => outcome[call[u]] = "running"
    PROVE  /\ \A c \in Calls : outcome[c] # "running" => outcome'[c] = outcome[c]
           /\ \A c \in Calls : outcome[c] = "running" => outcome'[c] # "unused"
           /\ \A u \in Threads : pc'[u] \in InRecord => pc[u] \in InRecord /\ call'[u] = call[u]
<1> USE DEF TypeOK, InRecord, RecordHolding
<1>1. ASSUME NEW result \in Outcome \ {"unused"}, pc[t] \in InRecord, Return(t, result)
      PROVE  /\ \A c \in Calls : outcome[c] # "running" => outcome'[c] = outcome[c]
             /\ \A c \in Calls : outcome[c] = "running" => outcome'[c] # "unused"
             /\ \A u \in Threads : pc'[u] \in InRecord => pc[u] \in InRecord /\ call'[u] = call[u]
  BY <1>1 DEF Return
<1>2. ASSUME NEW to, pc' = [pc EXCEPT ![t] = to], UNCHANGED << call, outcome >>,
             to \in InRecord => pc[t] \in InRecord
      PROVE  /\ \A c \in Calls : outcome[c] # "running" => outcome'[c] = outcome[c]
             /\ \A c \in Calls : outcome[c] = "running" => outcome'[c] # "unused"
             /\ \A u \in Threads : pc'[u] \in InRecord => pc[u] \in InRecord /\ call'[u] = call[u]
  BY <1>2
<1>3. CASE FindClosed(t) \/ AppendFails(t) \/ Interrupted(t) \/ AdvanceHash(t)
  BY <1>1, <1>3 DEF FindClosed, AppendFails, Interrupted, AdvanceHash, Outcome
<1>4. CASE HandleGone(t)
  BY <1>1, <1>4 DEF HandleGone, GoneResults, Outcome
<1>5. CASE BuildEvent(t) \/ WriteSmall(t) \/ WriteBig(t) \/ BigWriteDone(t) \/ FlushStart(t)
  BY <1>2, <1>5 DEF BuildEvent, WriteSmall, WriteBig, BigWriteDone, FlushStart, history
<1>6. CASE FlushDone(t) \/ Sync(t) \/ AdvanceSequence(t)
  BY <1>2, <1>6 DEF FlushDone, AfterFlush, Sync, AdvanceSequence, history
<1>7. CASE Drain(t)
  BY <1>7 DEF Drain, locals, history
<1>8. CASE CloseSet(t) \/ CloseFlushDone(t) \/ CloseDone(t) \/ CloseFindsClosed(t)
  BY <1>2, <1>8 DEF CloseSet, CloseFlushDone, CloseDone, CloseFindsClosed, history
<1>9. CASE CloseFlushStart(t)
  BY <1>2, <1>9 DEF CloseFlushStart, history
<1> QED
  BY <1>3, <1>4, <1>5, <1>6, <1>7, <1>8, <1>9 DEF ThreadNext

LEMMA SettledStays ==
    ASSUME TypeOK, CallsInv, [Next]_vars
    PROVE  \A c \in Calls : outcome[c] \notin {"unused", "running"} => outcome'[c] = outcome[c]
<1>1. CASE UNCHANGED vars \/ Construct \/ Repair
  BY <1>1 DEF vars, Construct, Repair, history
<1>2. CASE Exit \/ Crash \/ PowerLoss
  BY <1>2 DEF Exit, Crash, PowerLoss, Abandoned
<1>3. ASSUME NEW t \in Threads, ThreadNext(t)
      PROVE  \A c \in Calls : outcome[c] \notin {"unused", "running"} => outcome'[c] = outcome[c]
  <2>1. \A u \in Threads : pc[u] \in InRecord => outcome[call[u]] = "running"
    BY DEF CallsInv
  <2> QED
    BY <1>3, <2>1, OutcomesSettle
<1>4. ASSUME NEW t \in Threads, CloseStart(t) PROVE outcome' = outcome
  BY <1>4 DEF CloseStart, history
<1>5. ASSUME NEW t \in Threads, NEW c \in Calls, NEW args \in Arguments,
             RecordRefused(t, c, args) \/ RecordStart(t, c, args)
      PROVE  outcome[c] = "unused" /\ \A d \in Calls \ {c} : outcome'[d] = outcome[d]
  BY <1>5 DEF RecordRefused, RecordStart, TypeOK
<1> QED
  BY <1>1, <1>2, <1>3, <1>4, <1>5 DEF Next, Environment

-----------------------------------------------------------------------------
(* The handlers *)

\* A call is served by one thread, and until its client is answered that is the
\* thread whose record() it is; a request is there from the moment record() is
\* called; tools run for calls that were logged as allowed; and who has an answer
\* is not in record() any more.
ServingInv ==
    /\ serving \in [Threads -> Calls \cup {NoCall}]
    /\ request \in [Calls -> Requests \cup {None}]
    /\ answer \in [Calls -> Answers]
    /\ ran \subseteq Calls
    /\ \A t, u \in Threads : serving[t] # NoCall /\ serving[t] = serving[u] => t = u
    /\ \A t \in Threads :
         serving[t] # NoCall => answer[serving[t]] = "waiting" /\ request[serving[t]] # None
    /\ \A t \in Threads : pc[t] \in InRecord => serving[t] = call[t]
    /\ \A c \in Calls : request[c] = None <=> outcome[c] = "unused"
    /\ \A c \in Calls : request[c] = None <=> answer[c] = "none"
    /\ \A c \in ran : outcome[c] = "ok" /\ Runs(request[c])
    /\ \A c \in Calls : answer[c] \notin {"none", "waiting"} => outcome[c] \notin {"unused", "running"}

LEMMA ServingInit == ServerInit => ServingInv
BY DEF ServerInit, Init, ServingInv, Answers, InRecord, RecordHolding

\* A step of the writer under handlers that stay where they are.
LEMMA WriterServes ==
    ASSUME TypeOK, TypeOK', ServingInv, UNCHANGED server,
           \A c \in Calls : outcome[c] # "running" => outcome'[c] = outcome[c],
           \A c \in Calls : outcome[c] = "running" => outcome'[c] # "unused",
           \A t \in Threads : pc'[t] \in InRecord => pc[t] \in InRecord /\ call'[t] = call[t]
    PROVE  ServingInv'
<1>1. UNCHANGED << serving, request, ran, answer >>
  BY DEF server
<1>2. \A c \in Calls : outcome'[c] = "unused" <=> outcome[c] = "unused"
  OBVIOUS
<1>3. \A c \in Calls : outcome[c] \notin {"unused", "running"} => outcome'[c] = outcome[c]
  OBVIOUS
<1>4. \A c \in ran : c \in Calls /\ outcome'[c] = "ok"
  BY DEF ServingInv
<1> QED
  BY <1>1, <1>2, <1>3, <1>4 DEF ServingInv

\* The process ends under its handlers.
LEMMA DroppedServes ==
    ASSUME TypeOK, ServingInv, NoInstance, Dropped,
           \A c \in Calls : outcome[c] # "running" => outcome'[c] = outcome[c],
           \A c \in Calls : outcome[c] = "running" => outcome'[c] \notin {"unused", "running"}
    PROVE  ServingInv'
<1>1. /\ UNCHANGED << request, ran >>
      /\ \A t \in Threads : serving'[t] = NoCall /\ pc'[t] \notin InRecord
      /\ serving' \in [Threads -> Calls \cup {NoCall}]
      /\ answer' \in [Calls -> Answers]
      /\ \A c \in Calls : answer'[c] = "none" <=> answer[c] = "none"
  BY DEF Dropped, NoInstance, InRecord, RecordHolding, ServingInv, Answers
<1>2. \A c \in Calls : outcome'[c] = "unused" <=> outcome[c] = "unused"
  OBVIOUS
<1>3. \A c \in ran : c \in Calls /\ outcome'[c] = "ok"
  BY DEF ServingInv
<1>4. \A c \in Calls : answer'[c] \notin {"none", "waiting"} => outcome'[c] \notin {"unused", "running"}
  <2>1. \A c \in Calls : answer[c] # "none" => outcome[c] # "unused"
    BY DEF ServingInv
  <2> QED
    BY <1>1, <2>1
<1> QED
  BY <1>1, <1>2, <1>3, <1>4 DEF ServingInv

LEMMA ServeServes ==
    ASSUME TypeOK, ServingInv, NEW t \in Threads, NEW c \in Calls, NEW r \in Requests, Serve(t, c, r)
    PROVE  ServingInv'
<1>1. /\ r # None /\ serving[t] = NoCall /\ request[c] = None /\ outcome[c] = "unused"
      /\ UNCHANGED ran
      /\ serving' \in [Threads -> Calls \cup {NoCall}]
      /\ request' \in [Calls -> Requests \cup {None}]
      /\ answer' \in [Calls -> Answers]
      /\ \A u \in Threads : serving'[u] = IF u = t THEN c ELSE serving[u]
      /\ \A d \in Calls : request'[d] = IF d = c THEN r ELSE request[d]
      /\ \A d \in Calls : answer'[d] = IF d = c THEN "waiting" ELSE answer[d]
  BY DispatchAssumption DEF Serve, Ready, Take, ServingInv, Answers
<1>2. /\ \A d \in Calls \ {c} : outcome'[d] = outcome[d]
      /\ outcome'[c] # "unused"
      /\ \A u \in Threads \ {t} : pc'[u] = pc[u] /\ call'[u] = call[u]
      /\ pc'[t] \in InRecord => call'[t] = c
  BY DEF Serve, Take, RecordStart, RecordRefused, TypeOK, locals, InRecord, RecordHolding
<1>3. c \notin ran /\ \A u \in Threads : serving[u] # c
  BY <1>1, AuditLogAssumption DEF ServingInv
<1>4. c # NoCall
  BY AuditLogAssumption
<1>5. \A u \in Threads : serving[u] # NoCall => serving[u] \in Calls
  BY DEF ServingInv
<1>6. \A u, v \in Threads : serving'[u] # NoCall /\ serving'[u] = serving'[v] => u = v
  BY <1>1, <1>3 DEF ServingInv
<1>7. \A u \in Threads :
        serving'[u] # NoCall => answer'[serving'[u]] = "waiting" /\ request'[serving'[u]] # None
  BY <1>1, <1>5 DEF ServingInv
<1>8. \A u \in Threads : pc'[u] \in InRecord => serving'[u] = call'[u]
  BY <1>1, <1>2 DEF ServingInv
<1>9. /\ \A d \in Calls : request'[d] = None <=> outcome'[d] = "unused"
      /\ \A d \in Calls : request'[d] = None <=> answer'[d] = "none"
  BY <1>1, <1>2 DEF ServingInv
<1>10. \A d \in ran' : outcome'[d] = "ok" /\ Runs(request'[d])
  <2>1. \A d \in ran : d \in Calls \ {c}
    BY <1>3 DEF ServingInv
  <2> QED
    BY <1>1, <1>2, <2>1 DEF ServingInv
<1>11. \A d \in Calls : answer'[d] \notin {"none", "waiting"} => outcome'[d] \notin {"unused", "running"}
  BY <1>1, <1>2 DEF ServingInv
<1>12. /\ serving' \in [Threads -> Calls \cup {NoCall}]
       /\ request' \in [Calls -> Requests \cup {None}]
       /\ answer' \in [Calls -> Answers]
       /\ ran' \subseteq Calls
  BY <1>1 DEF ServingInv
<1> QED
  BY <1>6, <1>7, <1>8, <1>9, <1>10, <1>11, <1>12 DEF ServingInv

\* A call that is back at its handler is not running any more.
LEMMA BackIsSettled ==
    ASSUME CallsInv, ServingInv, NEW t \in Threads, pc[t] = "idle", serving[t] # NoCall
    PROVE  serving[t] \in Calls /\ outcome[serving[t]] \notin {"unused", "running"}
<1>1. serving[t] \in Calls /\ outcome[serving[t]] # "unused"
  BY DEF ServingInv
<1>2. ASSUME outcome[serving[t]] = "running" PROVE FALSE
  <2>1. PICK u \in Threads : pc[u] \in InRecord /\ call[u] = serving[t]
    BY <1>1, <1>2 DEF CallsInv
  <2>2. u = t
    BY <2>1 DEF ServingInv
  <2> QED
    BY <2>1, <2>2 DEF InRecord, RecordHolding
<1> QED
  BY <1>1, <1>2

LEMMA RunBodyServes ==
    ASSUME ServingInv, NEW t \in Threads, RunBody(t)
    PROVE  ServingInv'
<1>1. /\ UNCHANGED << pc, call, outcome, serving, request, answer >>
      /\ serving[t] # NoCall /\ outcome[serving[t]] = "ok"
      /\ Runs(request[serving[t]])
      /\ ran' = ran \cup {serving[t]}
  BY DEF RunBody, Back, vars, locals, history
<1>2. serving[t] \in Calls
  BY <1>1 DEF ServingInv
<1> QED
  BY <1>1, <1>2 DEF ServingInv

LEMMA ReplyServes ==
    ASSUME CallsInv, ServingInv, NEW t \in Threads,
           \/ ReplyResult(t) \/ ReplyRaised(t) \/ ReplyDenied(t) \/ ReplyRecorded(t)
           \/ ReplyError(t)
    PROVE  ServingInv'
<1>1. PICK what \in {"result", "denied", "recorded", "error"} :
        Reply(t, what) /\ pc[t] = "idle" /\ serving[t] # NoCall
  BY DEF ReplyResult, ReplyRaised, ReplyDenied, ReplyRecorded, ReplyError, Back
<1>2. serving[t] \in Calls /\ outcome[serving[t]] \notin {"unused", "running"}
  BY <1>1, BackIsSettled
<1>3. /\ UNCHANGED << pc, call, outcome, request, ran >>
      /\ serving' \in [Threads -> Calls \cup {NoCall}]
      /\ answer' \in [Calls -> Answers]
      /\ \A u \in Threads : serving'[u] = IF u = t THEN NoCall ELSE serving[u]
      /\ \A c \in Calls : answer'[c] = IF c = serving[t] THEN what ELSE answer[c]
  BY <1>1 DEF Reply, ServingInv, Answers, vars, locals, history
<1>4. \A u \in Threads : serving'[u] # NoCall =>
        u # t /\ serving'[u] = serving[u] /\ serving[u] \in Calls /\ serving[u] # serving[t]
  BY <1>1, <1>3 DEF ServingInv
<1>5. \A u \in Threads :
        serving'[u] # NoCall => answer'[serving'[u]] = "waiting" /\ request'[serving'[u]] # None
  BY <1>3, <1>4 DEF ServingInv
<1>6. \A u \in Threads : pc'[u] \in InRecord => serving'[u] = call'[u]
  BY <1>1, <1>3 DEF ServingInv, InRecord, RecordHolding
<1>7. \A u, v \in Threads : serving'[u] # NoCall /\ serving'[u] = serving'[v] => u = v
  BY <1>3, <1>4 DEF ServingInv
<1>8. \A c \in Calls :
        /\ answer'[c] \notin {"none", "waiting"} => outcome'[c] \notin {"unused", "running"}
        /\ request'[c] = None <=> answer'[c] = "none"
  <2>1. request[serving[t]] # None
    BY <1>1 DEF ServingInv
  <2> QED
    BY <1>1, <1>2, <1>3, <2>1 DEF ServingInv
<1> QED
  BY <1>3, <1>5, <1>6, <1>7, <1>8 DEF ServingInv

LEMMA ServingStep == WriterInv /\ ServingInv /\ [ServerNext]_serverVars => ServingInv'
<1> SUFFICES ASSUME WriterInv, ServingInv, [ServerNext]_serverVars PROVE ServingInv'
  OBVIOUS
<1>t. TypeOK /\ CallsInv
  BY DEF WriterInv, KeepInv, ChainInv, TypeInv
<1>u. TypeOK'
  BY WriterStep DEF WriterInv, KeepInv, ChainInv, TypeInv
<1>1. CASE UNCHANGED serverVars
  BY <1>1, <1>t, <1>u, WriterServes DEF serverVars, vars, locals, history
<1>2. CASE (Construct \/ Repair) /\ UNCHANGED server
  BY <1>2, <1>t, <1>u, WriterServes DEF Construct, Repair, locals, history
<1>3. CASE (Exit \/ Crash \/ PowerLoss) /\ Dropped
  <2>1. NoInstance /\ Dropped
    BY <1>3 DEF Exit, Crash, PowerLoss
  <2>2. CASE outcome' = Abandoned
    BY <1>t, <2>1, <2>2, DroppedServes DEF Abandoned
  <2>3. CASE Exit
    <3>1. \A c \in Calls : outcome[c] # "running"
      BY <1>t, <2>3 DEF Exit, CallsInv, InRecord, RecordHolding
    <3> QED
      BY <1>t, <2>1, <2>3, <3>1, DroppedServes DEF Exit
  <2> QED
    BY <1>3, <2>2, <2>3 DEF Crash, PowerLoss
<1>4. ASSUME NEW t \in Threads, ThreadNext(t), UNCHANGED server PROVE ServingInv'
  <2>1. \A u \in Threads : pc[u] \in InRecord => outcome[call[u]] = "running"
    BY <1>t DEF CallsInv
  <2>2. /\ \A c \in Calls : outcome[c] # "running" => outcome'[c] = outcome[c]
        /\ \A c \in Calls : outcome[c] = "running" => outcome'[c] # "unused"
        /\ \A u \in Threads : pc'[u] \in InRecord => pc[u] \in InRecord /\ call'[u] = call[u]
    BY <1>4, <1>t, <2>1, OutcomesSettle
  <2> QED
    BY <1>4, <1>t, <1>u, <2>2, WriterServes
<1>5. ASSUME NEW t \in Threads, CloseStart(t), UNCHANGED server PROVE ServingInv'
  <2>1. /\ UNCHANGED << call, outcome >>
        /\ \A u \in Threads : pc'[u] \in InRecord => pc[u] \in InRecord
    BY <1>5, <1>t DEF CloseStart, history, TypeOK, InRecord, RecordHolding
  <2> QED
    BY <1>5, <1>t, <1>u, <2>1, WriterServes
<1>6. ASSUME NEW t \in Threads, NEW c \in Calls, NEW r \in Requests, Serve(t, c, r)
      PROVE  ServingInv'
  BY <1>6, <1>t, ServeServes
<1>7. ASSUME NEW t \in Threads, Handling(t) PROVE ServingInv'
  BY <1>7, <1>t, RunBodyServes, ReplyServes DEF Handling
<1> QED
  BY <1>1, <1>2, <1>3, <1>4, <1>5, <1>6, <1>7 DEF ServerNext

-----------------------------------------------------------------------------
(* The order of the lines                                                  *)
(*                                                                         *)
(* A call that has its answer is not in record() any more, and a call that *)
(* is made then has no byte yet.  From then on every byte of the second is *)
(* behind every byte of the first, wherever they are between the text      *)
(* layer and the file: bytes are only written behind all others, they move *)
(* on in that order, and what is lost or split off does not change it.     *)

StandsBefore(i, k, j, l) == i < j \/ (i = j /\ k < l)

Precedes(rows, c, d) ==
    \A i, k, j, l \in Nat :
        /\ IsCell(rows, i, k) /\ CellAt(rows, i, k).event.call = c
        /\ IsCell(rows, j, l) /\ CellAt(rows, j, l).event.call = d
        => StandsBefore(i, k, j, l)

OrderInv ==
    /\ earlier \in [Calls -> SUBSET Calls]
    /\ \A d \in Calls : \A c \in earlier[d] :
         outcome[c] \notin {"unused", "running"} /\ Precedes(Rows, c, d)

LEMMA WithinPrecedes ==
    ASSUME NEW c, NEW d, NEW new, NEW old, Within(new, old), Precedes(old, c, d)
    PROVE  Precedes(new, c, d)
BY DEF Within, Precedes

LEMMA SplitPrecedes ==
    ASSUME NEW c, NEW d, NEW last \in Nat, NEW cut \in Nat, NEW new, NEW old,
           SplitFrom(new, old, last, cut), Precedes(old, c, d)
    PROVE  Precedes(new, c, d)
<1> SUFFICES ASSUME NEW i \in Nat, NEW k \in Nat, NEW j \in Nat, NEW l \in Nat,
                    IsCell(new, i, k), CellAt(new, i, k).event.call = c,
                    IsCell(new, j, l), CellAt(new, j, l).event.call = d
             PROVE  StandsBefore(i, k, j, l)
  BY DEF Precedes
<1>1. PICK a \in Nat, b \in Nat :
        /\ IsCell(old, a, b) /\ CellAt(new, i, k) = CellAt(old, a, b)
        /\ \/ i < last /\ a = i /\ b = k
           \/ i = last /\ a = last /\ b = k /\ k <= cut
           \/ i = last + 1 /\ a = last /\ b = cut + 1 + k /\ k > 0
  BY DEF SplitFrom
<1>2. PICK m \in Nat, n \in Nat :
        /\ IsCell(old, m, n) /\ CellAt(new, j, l) = CellAt(old, m, n)
        /\ \/ j < last /\ m = j /\ n = l
           \/ j = last /\ m = last /\ n = l /\ l <= cut
           \/ j = last + 1 /\ m = last /\ n = cut + 1 + l /\ l > 0
  BY DEF SplitFrom
<1>3. StandsBefore(a, b, m, n)
  BY <1>1, <1>2 DEF Precedes
<1> HIDE DEF IsCell, CellAt
<1> QED
  BY <1>1, <1>2, <1>3 DEF StandsBefore

\* A call that is not the first of two writes its line.
LEMMA AddedPrecedes ==
    ASSUME NEW c, NEW d, NEW s \in Seq(Seq(Cell)), NEW u \in Seq(Cell), NEW e \in AuditEvent,
           e.call # c, Precedes(Append(s, u), c, d)
    PROVE  Precedes(Append(s, u \o LineOf(e)), c, d)
<1> DEFINE old  == Append(s, u)
           new  == Append(s, u \o LineOf(e))
           last == Len(s) + 1
           Old(i, k) == /\ IsCell(old, i, k) /\ CellAt(new, i, k) = CellAt(old, i, k)
                        /\ i < last \/ (i = last /\ k <= Len(u))
           New(i, k) == /\ i = last /\ k > Len(u)
                        /\ CellAt(new, i, k) = [event |-> e, part |-> k - Len(u)]
<1>1. /\ last \in Nat /\ Len(u) \in Nat
      /\ \A i, k \in Nat : IsCell(new, i, k) => Old(i, k) \/ New(i, k)
  BY AddedCells
<1>2. Precedes(old, c, d)
  OBVIOUS
<1> HIDE DEF old, new, last
<1>3. ASSUME NEW i \in Nat, NEW k \in Nat, NEW j \in Nat, NEW l \in Nat,
             IsCell(new, i, k), CellAt(new, i, k).event.call = c,
             IsCell(new, j, l), CellAt(new, j, l).event.call = d
      PROVE  StandsBefore(i, k, j, l)
  <2>1. Old(i, k)
    BY <1>1, <1>3
  <2>2. CASE Old(j, l)
    BY <1>2, <1>3, <2>1, <2>2 DEF Precedes
  <2>3. CASE New(j, l)
    BY <1>1, <2>1, <2>3 DEF StandsBefore
  <2> QED
    BY <1>1, <1>3, <2>2, <2>3
<1>4. Precedes(new, c, d)
  BY <1>3 DEF Precedes
<1> QED
  BY <1>4 DEF new

\* No step of the writer moves a byte of a settled call behind another's.
LEMMA OrderStays ==
    ASSUME ByteInv, [Next]_vars, NEW c, outcome[c] # "running", NEW d, Precedes(Rows, c, d)
    PROVE  Precedes(Rows', c, d)
<1>1. TypeInv /\ Control /\ CallsInv /\ TypeOK
  BY DEF ByteInv, TypeInv
<1>2. CASE Within(Rows', Rows)
  BY <1>2, WithinPrecedes
<1>3. ASSUME NEW t \in Threads, WriteSmall(t) \/ WriteBig(t) PROVE Precedes(Rows', c, d)
  <2>1. /\ entry[t] \in AuditEvent /\ entry[t].call = call[t] /\ outcome[call[t]] = "running"
        /\ lines \in Seq(Seq(Cell)) /\ Stream \in Seq(Cell)
        /\ Rows' = Append(lines, Stream \o LineOf(entry[t])) /\ Rows = Append(lines, Stream)
    BY <1>1, <1>3, WrittenParts
  <2>2. entry[t].call # c
    BY <2>1
  <2> QED
    BY <2>1, <2>2, AddedPrecedes
<1>4. ASSUME NEW t \in Threads, Drain(t) PROVE Precedes(Rows', c, d)
  <2>1. CASE Rows' = Rows
    BY <2>1
  <2>2. ASSUME NEW last \in Nat, NEW cut \in Nat, SplitFrom(Rows', Rows, last, cut)
        PROVE  Precedes(Rows', c, d)
    BY <2>2, SplitPrecedes
  <2> QED
    BY <1>1, <1>4, <2>1, <2>2, DrainedParts
<1> QED
  BY <1>1, <1>2, <1>3, <1>4, RowsMove

LEMMA OrderInit == ServerInit => OrderInv
BY DEF ServerInit, OrderInv

LEMMA OrderStep == WriterInv /\ ServingInv /\ OrderInv /\ [ServerNext]_serverVars => OrderInv'
<1> SUFFICES ASSUME WriterInv, ServingInv, OrderInv, [ServerNext]_serverVars PROVE OrderInv'
  OBVIOUS
<1>t. TypeOK /\ CallsInv /\ ByteInv
  BY DEF WriterInv, KeepInv, ChainInv, TypeInv
<1>n. [Next]_vars
  BY ServerIsWriter
<1>s. \A c \in Calls : outcome[c] \notin {"unused", "running"} => outcome'[c] = outcome[c]
  BY <1>t, <1>n, SettledStays
<1>p. \A d \in Calls : \A c \in earlier[d] :
        outcome'[c] \notin {"unused", "running"} /\ Precedes(Rows', c, d)
  <2> SUFFICES ASSUME NEW d \in Calls, NEW c \in earlier[d]
               PROVE  outcome'[c] \notin {"unused", "running"} /\ Precedes(Rows', c, d)
    OBVIOUS
  <2>1. c \in Calls /\ outcome[c] \notin {"unused", "running"} /\ Precedes(Rows, c, d)
    BY DEF OrderInv
  <2> QED
    BY <1>t, <1>n, <1>s, <2>1, OrderStays
<1>1. CASE earlier' = earlier
  BY <1>1, <1>p DEF OrderInv
<1>2. ASSUME NEW t \in Threads, NEW e \in Calls, NEW r \in Requests, Serve(t, e, r)
      PROVE  OrderInv'
  <2> DEFINE answered == {c \in Calls : answer[c] \notin {"none", "waiting"}}
  <2>1. /\ earlier' = [earlier EXCEPT ![e] = answered]
        /\ request[e] = None /\ UNCHANGED << lines, tail, buf, pending >>
    BY <1>2 DEF Serve, Ready, Take, RecordStart, RecordRefused, file, handle
  <2>2. outcome[e] = "unused"
    BY <2>1 DEF ServingInv
  <2>3. ~HasCell(Rows', e)
    <3>1. ~HasCell(Rows, e)
      BY <1>t, <2>2 DEF ByteInv, RowsInv
    <3>2. Rows' = Rows
      BY <2>1 DEF Rows, Stream
    <3> QED
      BY <3>1, <3>2
  <2>4. ASSUME NEW c \in answered
        PROVE  outcome'[c] \notin {"unused", "running"} /\ Precedes(Rows', c, e)
    <3>1. outcome'[c] \notin {"unused", "running"}
      BY <1>s DEF ServingInv
    <3>2. Precedes(Rows', c, e)
      BY <2>3 DEF Precedes, HasCell
    <3> QED
      BY <3>1, <3>2
  <2>5. /\ earlier' \in [Calls -> SUBSET Calls]
        /\ \A d \in Calls : earlier'[d] = IF d = e THEN answered ELSE earlier[d]
    BY <2>1 DEF OrderInv
  <2> HIDE DEF answered
  <2> QED
    BY <1>p, <2>4, <2>5 DEF OrderInv
<1> QED
  BY <1>1, <1>2 DEF ServerNext, serverVars, server, Dropped, Handling, RunBody, ReplyResult,
     ReplyRaised, ReplyDenied, ReplyRecorded, ReplyError, Reply

-----------------------------------------------------------------------------
(* The theorems *)

LEMMA ServerInvariants == ServerSpec => [](WriterInv /\ ServingInv)
<1>1. ServerInit => WriterInv /\ ServingInv
  BY WriterInit, ServingInit
<1>2. WriterInv /\ ServingInv /\ [ServerNext]_serverVars => (WriterInv /\ ServingInv)'
  BY WriterStep, ServingStep
<1> QED
  BY <1>1, <1>2, PTL DEF ServerSpec

\* No tool body runs unless its "allow" is in the log, once ("fail-closed" in
\* USAGE.md): whatever fails under the writer, and after every crash and restart.
THEOREM NothingEverRunsUnrecorded == ServerSpec => []NothingRunsUnrecorded
<1>1. WriterInv /\ ServingInv => NothingRunsUnrecorded
  <2> SUFFICES ASSUME WriterInv, ServingInv, ~spoiled, powerLost => Fsync, NEW c \in ran
               PROVE  \E i \in 1..Len(lines) : LinesOf(c) = {i}
    BY DEF NothingRunsUnrecorded
  <2>1. c \in Calls /\ outcome[c] = "ok"
    BY DEF ServingInv
  <2>2. AckedOnDisk
    BY OncePerFile, KeptIsOnDisk DEF WriterInv
  <2> QED
    BY <2>1, <2>2 DEF AckedOnDisk
<1> QED
  BY <1>1, ServerInvariants, PTL

\* The lines of the log stand in the order clients saw: a call that was made
\* when another had its answer stands behind it (the lock of record(), the bytes
\* a failed flush() leaves in the buffer, and repair by hand, audit.py).
THEOREM LogAlwaysKeepsTheOrder == ServerSpec => []LogKeepsTheOrder
<1>1. ServerInit => OrderInv
  BY OrderInit
<1>2. WriterInv /\ OrderInv => LogKeepsTheOrder
  <2> SUFFICES ASSUME WriterInv, OrderInv, NEW d \in Calls, NEW c \in earlier[d],
                      NEW i \in LinesOf(c), NEW j \in LinesOf(d)
               PROVE  i < j
    BY DEF LogKeepsTheOrder
  <2>1. c \in Calls /\ Precedes(Rows, c, d)
    BY DEF OrderInv
  <2>2. TypeOK
    BY DEF WriterInv, KeepInv, ChainInv, TypeInv
  <2>3. /\ i \in Nat /\ IsCell(Rows, i, 1) /\ CellAt(Rows, i, 1).event.call = c
        /\ j \in Nat /\ IsCell(Rows, j, 1) /\ CellAt(Rows, j, 1).event.call = d
    BY <2>1, <2>2, LineParts
  <2>4. StandsBefore(i, 1, j, 1)
    BY <2>1, <2>3 DEF Precedes
  <2> QED
    BY <2>3, <2>4 DEF StandsBefore
<1> QED
  BY <1>1, <1>2, OrderStep, ServerInvariants, PTL DEF ServerSpec
=============================================================================
