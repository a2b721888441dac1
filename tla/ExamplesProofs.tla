--------------------------- MODULE ExamplesProofs ----------------------------
(***************************************************************************)
(* Proofs about Examples: what a script of examples/ asserts holds on a    *)
(* log of its own, and its "OK" means what it says.  They rest on what is  *)
(* proved of the writer and of the handlers, and on the script being the   *)
(* only thread: with it, no append ever goes on behind a failed one.       *)
(***************************************************************************)
EXTENDS Examples, DispatchProofs

scriptVars == << serverVars, main >>

-----------------------------------------------------------------------------
(* Where the script stands *)

MainInv ==
    /\ phase \in Nat /\ step \in Nat
    /\ block \in {"outside", "with", "closing"}
    /\ failed \in {None, "assertion", "error"}
    /\ ended \in {None, "ok", "assertion", "error", "killed"}
    /\ fresh \in BOOLEAN
    /\ ended = None => /\ script \in Scripts
                       /\ phase \in 1..Len(script)
                       /\ step \in 1..Len(script[phase]) + 1
                       /\ block = "outside" => step = 1 /\ failed = None
    /\ ended # None => block = "outside"
    /\ block = "outside" => ~live
    /\ block = "with" => live /\ fh_open /\ ~closed /\ \A t \in Threads : pc[t] \notin Closing
    /\ block = "closing" => /\ live
                            /\ \A t \in Threads : pc[t] \in Closing \cup {"idle"}
                            /\ failed # None \/ step > Len(script[phase])
    /\ block # "with" \/ failed # None => \A t \in Threads : serving[t] = NoCall

\* What makes "with" a safe place: when an append fails, the exception it
\* raises is on its way out, and nothing is appended any more.
SafeInv ==
    /\ ~spoiled
    /\ dirty => \A t \in Threads :
         /\ pc[t] \notin InRecord
         /\ block = "with" /\ failed = None => serving[t] # NoCall /\ outcome[serving[t]] # "ok"

-----------------------------------------------------------------------------
(* What the script has written *)

\* Requests of the script that record() was called for: those of the phases
\* before, and those of this one.
Before == Expected(phase - 1)

Served == Before + (step - 1)

\* A count that includes the events a log already held.
Counts(n, own) == IF fresh THEN n = own ELSE n > own

\* What thread t was asked for is counted, its chain state set.
Counted(t) ==
    \/ serving[t] = NoCall
    \/ pc[t] = "advance_hash"
    \/ pc[t] = "idle" /\ outcome[serving[t]] = "ok"

CountInv ==
    ended = None /\ failed = None =>
        /\ block = "outside" /\ tail = << >> => Counts(Len(lines), Served)
        /\ block = "with" =>
             \A t \in Threads :
               /\ Counted(t) => Counts(next_sequence, Served)
               /\ pc[t] \in InRecord \ {"advance_hash"} => Counts(next_sequence + 1, Served)
               /\ pc[t] \in RecordHolding \ {"advance_hash"} =>
                    entry[t].sequence_number = next_sequence
        /\ block = "closing" =>
             /\ Counts(next_sequence, Served)
             /\ next_sequence = Len(lines)
             /\ tail = << >> /\ buf = << >> /\ pending = << >>

\* The call that is with its handler still is not looked at.
Answered(c) == \A t \in Threads : serving[t] # c

OwnLine(i) ==
    LET made == EventOf(lines[i]).call
    IN  /\ request[made] = Whole[i]
        /\ Answered(made) => (Runs(Whole[i]) <=> made \in ran)

OwnInv ==
    ended = None /\ failed = None /\ fresh =>
        /\ block = "outside" => \A i \in 1..Len(lines) : OwnLine(i)
        /\ block # "outside" => \A i \in 1..next_sequence : OwnLine(i)
        /\ \A t \in Threads : serving[t] # NoCall => request[serving[t]] = Whole[Served]

EndInv ==
    /\ failed = "assertion" => ~fresh
    /\ ended = "assertion" => ~fresh
    /\ OkMeansComplete
    /\ ended = "ok" /\ script # None => tail = << >>

ScriptInv == MainInv /\ SafeInv /\ CountInv /\ OwnInv /\ EndInv

-----------------------------------------------------------------------------
(* Scripts *)

\* The phases of a script, one behind the other, are the whole of it.
LEMMA ScriptParts ==
    ASSUME script \in Scripts
    PROVE  /\ Len(script) \in {1, 2}
           /\ Whole \in Seq(Requests) /\ Len(Whole) \in Nat
           /\ Expected(0) = 0
           /\ Expected(Len(script)) = Len(Whole)
           /\ \A p \in 1..Len(script) :
                /\ script[p] \in Seq(Requests) /\ Len(script[p]) \in Nat
                /\ Expected(p - 1) \in Nat
                /\ Expected(p) = Expected(p - 1) + Len(script[p])
                /\ \A k \in 1..Len(script[p]) :
                     /\ script[p][k] \in Requests
                     /\ Expected(p - 1) + k \in 1..Len(Whole)
                     /\ Whole[Expected(p - 1) + k] = script[p][k]
<1>1. script \in Seq(Seq(Requests)) /\ Len(script) \in {1, 2}
  BY ExamplesAssumption
<1>2. \A p \in 1..Len(script) : script[p] \in Seq(Requests)
  BY <1>1, ElementOfSeq
<1>3. \A p \in 1..Len(script) : Len(script[p]) \in Nat /\ \A k \in 1..Len(script[p]) : script[p][k] \in Requests
  BY <1>2, ElementOfSeq, LenProperties
<1>4. CASE Len(script) = 1
  <2>1. Whole = script[1] /\ 1 \in 1..Len(script)
    BY <1>1, <1>4, EmptySeq, ExamplesAssumption DEF Whole
  <2>2. Expected(0) = 0 /\ Expected(1) = Len(script[1])
    BY <1>4, <2>1 DEF Expected
  <2>3. \A p \in 1..Len(script) : p = 1 /\ p - 1 = 0
    BY <1>4
  <2> QED
    BY <1>2, <1>3, <1>4, <2>1, <2>2, <2>3
<1>5. CASE Len(script) = 2
  <2> DEFINE one == script[1]
             two == script[2]
  <2>1. 1 \in 1..Len(script) /\ 2 \in 1..Len(script)
    BY <1>5
  <2>2. one \in Seq(Requests) /\ two \in Seq(Requests) /\ Len(one) \in Nat /\ Len(two) \in Nat
    BY <1>2, <1>3, <2>1
  <2>3. Whole = one \o two
    BY <1>5, ExamplesAssumption DEF Whole
  <2> HIDE DEF one, two
  <2>4. /\ one \o two \in Seq(Requests) /\ Len(one \o two) = Len(one) + Len(two)
        /\ \A k \in 1..Len(one) + Len(two) :
             (one \o two)[k] = IF k <= Len(one) THEN one[k] ELSE two[k - Len(one)]
    BY <2>2, ConcatProperties
  <2>5. /\ \A k \in 1..Len(one) : 0 + k \in 1..Len(Whole) /\ Whole[0 + k] = one[k]
        /\ \A k \in 1..Len(two) : Len(one) + k \in 1..Len(Whole) /\ Whole[Len(one) + k] = two[k]
    <3>1. ASSUME NEW k \in 1..Len(one) PROVE 0 + k \in 1..Len(Whole) /\ Whole[0 + k] = one[k]
      <4>1. 0 + k = k /\ k \in 1..Len(one) + Len(two) /\ k <= Len(one)
        BY <2>2
      <4> QED
        BY <2>3, <2>4, <4>1
    <3>2. ASSUME NEW k \in 1..Len(two)
          PROVE  Len(one) + k \in 1..Len(Whole) /\ Whole[Len(one) + k] = two[k]
      <4>1. /\ Len(one) + k \in 1..Len(one) + Len(two) /\ ~(Len(one) + k <= Len(one))
            /\ Len(one) + k - Len(one) = k
        BY <2>2
      <4> QED
        BY <2>3, <2>4, <4>1
    <3> QED
      BY <3>1, <3>2
  <2>6. Expected(0) = 0 /\ Expected(1) = Len(one) /\ Expected(2) = Len(one) + Len(two)
    BY <1>5, <2>3, <2>4 DEF Expected, one
  <2>7. \A p \in 1..Len(script) : (p = 1 /\ p - 1 = 0) \/ (p = 2 /\ p - 1 = 1)
    BY <1>5
  <2>8. script[1] = one /\ script[2] = two
    BY DEF one, two
  <2>9. \A k \in 1..Len(one) : one[k] \in Requests
    BY <1>3, <2>1 DEF one
  <2>10. \A k \in 1..Len(two) : two[k] \in Requests
    BY <1>3, <2>1 DEF two
  <2>11. Whole \in Seq(Requests) /\ Len(Whole) = Len(one) + Len(two) /\ Len(Whole) \in Nat
    BY <2>2, <2>3, <2>4
  <2>12. ASSUME NEW p \in 1..Len(script)
         PROVE  /\ script[p] \in Seq(Requests) /\ Len(script[p]) \in Nat
                /\ Expected(p - 1) \in Nat
                /\ Expected(p) = Expected(p - 1) + Len(script[p])
                /\ \A k \in 1..Len(script[p]) :
                     /\ script[p][k] \in Requests
                     /\ Expected(p - 1) + k \in 1..Len(Whole)
                     /\ Whole[Expected(p - 1) + k] = script[p][k]
    <3>1. CASE p = 1 /\ p - 1 = 0
      BY <3>1, <2>2, <2>5, <2>6, <2>8, <2>9
    <3>2. CASE p = 2 /\ p - 1 = 1
      <4>1. /\ script[p] = two /\ Expected(p - 1) = Len(one)
            /\ Expected(p) = Len(one) + Len(two)
        BY <3>2, <2>6, <2>8
      <4> QED
        BY <2>2, <2>5, <2>10, <4>1
    <3> QED
      BY <2>7, <3>1, <3>2
  <2> QED
    BY <1>5, <2>6, <2>11, <2>12
<1> QED
  BY <1>1, <1>4, <1>5

-----------------------------------------------------------------------------
(* The server under the script *)

LEMMA MainIsServer == MainInv /\ [MainNext]_scriptVars => [ServerNext]_serverVars
<1> SUFFICES ASSUME MainInv, [MainNext]_scriptVars PROVE [ServerNext]_serverVars
  OBVIOUS
<1>1. CASE UNCHANGED scriptVars
  BY <1>1 DEF scriptVars
<1>2. ASSUME NEW s \in Scripts, Begin(s) PROVE UNCHANGED serverVars
  BY <1>2 DEF Begin
<1>3. CASE Open
  BY <1>3 DEF Open, ServerNext, serverVars
<1>4. CASE Killed \/ (Repair /\ UNCHANGED << server, main >>)
  BY <1>4 DEF Killed, ServerNext
<1>5. ASSUME NEW t \in Threads, ThreadNext(t), UNCHANGED << server, main >> PROVE ServerNext
  BY <1>5 DEF ServerNext
<1>6. ASSUME NEW t \in Threads, Step(t) PROVE ServerNext
  <2>1. PICK c \in Calls : Serve(t, c, script[phase][step])
    <3>1. Unmade # {} /\ Serve(t, CHOOSE c \in Unmade : TRUE, script[phase][step])
      BY <1>6 DEF Step
    <3>2. (CHOOSE c \in Unmade : TRUE) \in Calls
      BY <3>1 DEF Unmade
    <3> QED
      BY <3>1, <3>2
  <2>2. script \in Scripts /\ phase \in 1..Len(script) /\ step \in 1..Len(script[phase])
    BY <1>6 DEF Step, MainInv
  <2>3. script[phase][step] \in Requests
    BY <2>2, ScriptParts
  <2> QED
    BY <2>1, <2>3 DEF ServerNext
<1>7. ASSUME NEW t \in Threads, Handled(t) PROVE ServerNext
  BY <1>7 DEF Handled, Handling, ServerNext
<1>8. ASSUME NEW t \in Threads, Close(t) \/ Closed(t) PROVE ServerNext
  BY <1>8 DEF Close, Closed, ServerNext
<1> QED
  BY <1>1, <1>2, <1>3, <1>4, <1>5, <1>6, <1>7, <1>8 DEF MainNext

ServerInv == WriterInv /\ ServingInv

LEMMA ServerInvInit == MainInit => ServerInv
BY WriterInit, ServingInit DEF MainInit, ServerInv

LEMMA ServerInvStep == ServerInv /\ MainInv /\ [MainNext]_scriptVars => ServerInv'
BY MainIsServer, WriterStep, ServingStep DEF ServerInv

LEMMA ScriptInit == MainInit => ScriptInv
<1> SUFFICES ASSUME MainInit PROVE ScriptInv
  OBVIOUS
<1>1. MainInv
  BY ExamplesAssumption DEF MainInit, ServerInit, Init, MainInv, Closing
<1>2. SafeInv
  BY DEF MainInit, ServerInit, Init, SafeInv
<1>3. CountInv /\ OwnInv /\ EndInv
  BY ExamplesAssumption DEF MainInit, CountInv, OwnInv, EndInv, OkMeansComplete
<1> QED
  BY <1>1, <1>2, <1>3 DEF ScriptInv

-----------------------------------------------------------------------------
(* What the writer's own steps do to what the script looks at *)

\* A step of the script's thread inside record() or close().
LEMMA ThreadSteps ==
    ASSUME TypeOK, Control, NEW t \in Threads, ThreadNext(t)
    PROVE  /\ UNCHANGED live
           /\ pc'[t] \in Closing => pc[t] \in Closing
           /\ pc[t] \in InRecord => pc'[t] \in InRecord \cup {"idle"}
           /\ pc[t] \in Closing => pc'[t] \in Closing \cup {"idle"}
           /\ pc[t] \in InRecord \/ pc[t] \in Closing
           /\ pc[t] \in InRecord => UNCHANGED << closed, fh_open >>
<1> USE DEF TypeOK, InRecord, RecordHolding, Closing
<1>1. ASSUME NEW result, pc[t] \in InRecord, Return(t, result) PROVE pc'[t] = "idle"
  BY <1>1 DEF Return
<1>2. CASE FindClosed(t) \/ AppendFails(t) \/ Interrupted(t) \/ AdvanceHash(t)
  BY <1>1, <1>2 DEF FindClosed, AppendFails, Interrupted, AdvanceHash, handle
<1>3. CASE HandleGone(t)
  BY <1>1, <1>3 DEF HandleGone, handle
<1>4. CASE BuildEvent(t) \/ AdvanceSequence(t)
  BY <1>4 DEF BuildEvent, AdvanceSequence, handle
<1>5. CASE WriteSmall(t) \/ WriteBig(t) \/ BigWriteDone(t) \/ FlushStart(t) \/ FlushDone(t)
  BY <1>5 DEF WriteSmall, WriteBig, BigWriteDone, FlushStart, FlushDone, AfterFlush, instance
<1>6. CASE Sync(t)
  BY <1>6 DEF Sync, handle, instance
<1>7. CASE Drain(t)
  BY <1>7 DEF Drain, Draining, instance, locals
<1>8. CASE CloseSet(t) \/ CloseFlushStart(t) \/ CloseFlushDone(t) \/ CloseDone(t) \/ CloseFindsClosed(t)
  BY <1>8 DEF CloseSet, CloseFlushStart, CloseFlushDone, CloseDone, CloseFindsClosed, instance
<1> QED
  BY <1>2, <1>3, <1>4, <1>5, <1>6, <1>7, <1>8 DEF ThreadNext

\* No thread stands anywhere while there is no instance.
LEMMA NoneRunning ==
    ASSUME ServerInv, ~live
    PROVE  /\ ~fh_open /\ ~dirty
           /\ \A t \in Threads : pc[t] = "idle"
BY DEF ServerInv, WriterInv, KeepInv, ChainInv, Control, FailuresLeave

LEMMA MainStep == ServerInv /\ MainInv /\ [MainNext]_scriptVars => MainInv'
<1> SUFFICES ASSUME ServerInv, MainInv, [MainNext]_scriptVars PROVE MainInv'
  OBVIOUS
<1>t. TypeOK /\ Control /\ \A t, u \in Threads : t = u
  BY ExamplesAssumption DEF ServerInv, WriterInv, KeepInv, ChainInv, TypeInv
<1>1. CASE UNCHANGED scriptVars
  BY <1>1 DEF MainInv, scriptVars, serverVars, main, server, vars, handle, instance, locals
<1>2. ASSUME NEW s \in Scripts, Begin(s) PROVE MainInv'
  <2>1. /\ ended # None /\ ~live /\ block = "outside"
        /\ UNCHANGED << live, pc, serving >>
        /\ script' = s /\ phase' = 1 /\ step' = 1 /\ block' = "outside" /\ failed' = None
        /\ ended' = None /\ fresh' \in BOOLEAN
    BY <1>2 DEF Begin, MainInv, serverVars, server, vars, instance, locals
  <2>2. 1 \in 1..Len(s) /\ 1 \in 1..Len(s[1]) + 1
    <3>1. s \in Seq(Seq(Requests)) /\ Len(s) \in {1, 2}
      BY ExamplesAssumption
    <3>2. 1 \in 1..Len(s)
      <4>1. Len(s) \in {1, 2}
        BY <3>1
      <4> QED
        BY <4>1
    <3>3. Len(s[1]) \in Nat
      BY <3>1, <3>2, ElementOfSeq, LenProperties
    <3> QED
      BY <3>2, <3>3
  <2> QED
    BY <2>1, <2>2 DEF MainInv
<1>3. CASE Open
  <2>1. CASE Resumable
    <3>1. /\ Construct /\ block' = "with" /\ failed' \in {None, "assertion"}
          /\ UNCHANGED << ended, server, script, phase, step, fresh >>
          /\ ended = None /\ block = "outside"
      BY <1>3, <2>1 DEF Open
    <3>2. live' /\ fh_open' /\ ~closed' /\ UNCHANGED pc /\ \A t \in Threads : pc[t] = "idle"
      BY <3>1, NoneRunning DEF Construct, locals
    <3> QED
      BY <3>1, <3>2 DEF MainInv, server, Closing
  <2>2. CASE ~Resumable
    <3>1. /\ ended' = "error" /\ UNCHANGED << vars, block, failed, server, script, phase, step, fresh >>
          /\ ended = None /\ block = "outside"
      BY <1>3, <2>2 DEF Open
    <3> QED
      BY <3>1, ExamplesAssumption DEF MainInv, server, vars, instance
  <2> QED
    BY <2>1, <2>2
<1>4. CASE Killed
  <2>1. /\ ended' = "killed" /\ block' = "outside" /\ ~live'
        /\ \A t \in Threads : serving'[t] = NoCall
        /\ UNCHANGED << script, phase, step, failed, fresh >>
    BY <1>4 DEF Killed, Crash, PowerLoss, NoInstance, Dropped
  <2> QED
    BY <2>1, ExamplesAssumption DEF MainInv
<1>5. CASE Repair /\ UNCHANGED << server, main >>
  BY <1>5 DEF Repair, MainInv, handle, instance, locals, server, main
<1>6. ASSUME NEW t \in Threads, ThreadNext(t), UNCHANGED << server, main >> PROVE MainInv'
  <2>1. /\ UNCHANGED live
        /\ pc'[t] \in Closing => pc[t] \in Closing
        /\ pc[t] \in InRecord => pc'[t] \in InRecord \cup {"idle"}
        /\ pc[t] \in Closing => pc'[t] \in Closing \cup {"idle"}
        /\ pc[t] \in InRecord \/ pc[t] \in Closing
        /\ pc[t] \in InRecord => UNCHANGED << closed, fh_open >>
    BY <1>6, <1>t, ThreadSteps
  <2>2. /\ UNCHANGED << serving, script, phase, step, block, failed, ended, fresh >>
    BY <1>6 DEF server, main
  <2>3. \A u \in Threads : u = t
    BY <1>t
  <2>4. block # "outside"
    BY <2>1, NoneRunning DEF MainInv, InRecord, RecordHolding, Closing
  <2>5. CASE block = "with"
    <3>1. pc[t] \in InRecord /\ UNCHANGED << closed, fh_open >>
      BY <2>1, <2>5 DEF MainInv
    <3>2. \A u \in Threads : pc'[u] \notin Closing
      BY <2>1, <2>3, <2>5 DEF MainInv
    <3> QED
      BY <2>1, <2>2, <2>5, <3>1, <3>2 DEF MainInv
  <2>6. CASE block = "closing"
    BY <2>1, <2>2, <2>3, <2>6 DEF MainInv, InRecord, RecordHolding, Closing
  <2> QED
    BY <2>4, <2>5, <2>6 DEF MainInv
<1>7. ASSUME NEW t \in Threads, Step(t) PROVE MainInv'
  <2>1. PICK c, r : Serve(t, c, r)
    BY <1>7 DEF Step
  <2>2. /\ UNCHANGED << live, fh_open, closed >> /\ pc'[t] \in {"idle", "lock"}
    BY <2>1, <1>t DEF Serve, Take, RecordStart, RecordRefused, handle, instance, locals, TypeOK
  <2>3. /\ UNCHANGED << script, phase, block, failed, ended, fresh >> /\ step' = step + 1
        /\ block = "with" /\ failed = None /\ step <= Len(script[phase])
    BY <1>7 DEF Step
  <2>4. step \in Nat /\ step + 1 \in Nat /\ (ended = None => step + 1 \in 1..Len(script[phase]) + 1)
    <3>1. ended = None => Len(script[phase]) \in Nat
      BY ScriptParts DEF MainInv
    <3> QED
      BY <2>3, <3>1 DEF MainInv
  <2> QED
    BY <1>t, <2>2, <2>3, <2>4 DEF MainInv, Closing
<1>8. ASSUME NEW t \in Threads, Handled(t) PROVE MainInv'
  <2>1. /\ UNCHANGED << vars, script, phase, step, block, ended, fresh >>
        /\ serving[t] # NoCall
        /\ \/ failed' = failed
           \/ failed' = "error" /\ serving' = [serving EXCEPT ![t] = NoCall]
        /\ serving' = serving \/ serving' = [serving EXCEPT ![t] = NoCall]
    BY <1>8 DEF Handled, RunBody, ReplyResult, ReplyDenied, ReplyRecorded, ReplyError, Reply, Back
  <2>2. UNCHANGED << live, fh_open, closed, pc >>
    BY <2>1 DEF vars, handle, instance, locals
  <2>3. block = "with" /\ failed = None
    BY <2>1 DEF MainInv
  <2>4. \A u \in Threads : serving'[u] = NoCall \/ serving' = serving
    BY <1>t, <2>1 DEF ServerInv, ServingInv
  <2>5. failed' # None => \A u \in Threads : serving'[u] = NoCall
    BY <1>t, <2>1, <2>3 DEF ServerInv, ServingInv
  <2> QED
    BY <2>1, <2>2, <2>3, <2>4, <2>5 DEF MainInv
<1>9. ASSUME NEW t \in Threads, Close(t) PROVE MainInv'
  <2>1. /\ block = "with" /\ serving[t] = NoCall /\ (failed # None \/ step > Len(script[phase]))
        /\ block' = "closing" /\ UNCHANGED << serving, live, script, phase, step, failed, ended, fresh >>
        /\ pc'[t] = "c_set"
    BY <1>9, <1>t DEF Close, CloseStart, server, instance, TypeOK
  <2> QED
    BY <1>t, <2>1 DEF MainInv, Closing
<1>10. ASSUME NEW t \in Threads, Closed(t) PROVE MainInv'
  <2>1. /\ block = "closing" /\ block' = "outside" /\ ~live'
        /\ \A u \in Threads : serving'[u] = NoCall
        /\ UNCHANGED << script, failed, fresh >> /\ phase' = phase + 1 /\ step' = 1
    BY <1>10 DEF Closed, Exit, NoInstance, Dropped
  <2>2. /\ ended' \in {None, "ok", "assertion", "error"}
        /\ ended' = None => failed = None /\ phase # Len(script)
    BY <1>10, ExamplesAssumption DEF Closed, MainInv
  <2>3. ended = None
    BY <2>1 DEF MainInv
  <2>4. /\ Len(script) \in {1, 2} /\ \A p \in 1..Len(script) : Len(script[p]) \in Nat
    BY <2>3, ScriptParts DEF MainInv
  <2>5. phase' \in Nat /\ step' \in Nat
    BY <2>1 DEF MainInv
  <2>6. ASSUME ended' = None
        PROVE  /\ script' \in Scripts
               /\ phase' \in 1..Len(script')
               /\ step' \in 1..Len(script'[phase']) + 1
               /\ step' = 1 /\ failed' = None
    <3>1. phase \in 1..Len(script) /\ phase # Len(script) /\ script \in Scripts
      BY <2>2, <2>3, <2>6 DEF MainInv
    <3>2. phase + 1 \in 1..Len(script)
      BY <2>4, <3>1
    <3>3. 1 \in 1..Len(script[phase + 1]) + 1
      BY <2>4, <3>2
    <3> QED
      BY <2>1, <2>2, <2>6, <3>1, <3>2, <3>3
  <2>7. failed' \in {None, "assertion", "error"} /\ fresh' \in BOOLEAN
    BY <2>1 DEF MainInv
  <2> QED
    BY <2>1, <2>2, <2>5, <2>6, <2>7 DEF MainInv
<1> QED
  BY <1>1, <1>2, <1>3, <1>4, <1>5, <1>6, <1>7, <1>8, <1>9, <1>10 DEF MainNext

-----------------------------------------------------------------------------
(* No append goes on behind a failed one *)

\* An append fails on its way out of record(), which does not return an event.
LEMMA ThreadFails ==
    ASSUME TypeOK, NEW t \in Threads, ThreadNext(t), ~spoiled,
           pc[t] \in InRecord => ~dirty /\ call[t] \in Calls
    PROVE  /\ ~spoiled'
           /\ dirty' => \/ dirty /\ pc[t] \in Closing
                        \/ pc[t] \in InRecord /\ pc'[t] = "idle" /\ outcome'[call[t]] # "ok"
<1> USE DEF TypeOK, InRecord, RecordHolding, Closing
<1>1. ASSUME NEW result \in {"write_error", "value_error", "interrupted"},
             pc[t] \in RecordHolding, Return(t, result), UNCHANGED spoiled
      PROVE  ~spoiled' /\ pc[t] \in InRecord /\ pc'[t] = "idle" /\ outcome'[call[t]] # "ok"
  BY <1>1 DEF Return
<1>2. CASE AppendFails(t) \/ Interrupted(t)
  BY <1>1, <1>2 DEF AppendFails, Interrupted
<1>3. CASE HandleGone(t)
  BY <1>1, <1>3 DEF HandleGone, GoneResults
<1>4. CASE FindClosed(t) \/ BuildEvent(t) \/ AdvanceSequence(t) \/ AdvanceHash(t)
  BY <1>4 DEF FindClosed, BuildEvent, AdvanceSequence, AdvanceHash, history
<1>5. CASE WriteSmall(t) \/ WriteBig(t) \/ BigWriteDone(t) \/ FlushStart(t) \/ FlushDone(t)
  BY <1>5 DEF WriteSmall, WriteBig, BigWriteDone, FlushStart, FlushDone, history
<1>6. CASE Sync(t)
  BY <1>6 DEF Sync, history
<1>7. CASE Drain(t)
  BY <1>7 DEF Drain, Draining, history
<1>8. CASE CloseSet(t) \/ CloseFlushStart(t) \/ CloseFlushDone(t) \/ CloseDone(t) \/ CloseFindsClosed(t)
  BY <1>8 DEF CloseSet, CloseFlushStart, CloseFlushDone, CloseDone, CloseFindsClosed, history
<1> QED
  BY <1>2, <1>3, <1>4, <1>5, <1>6, <1>7, <1>8 DEF ThreadNext

\* The script's thread is in record() for the request it serves.
LEMMA InRecordServes ==
    ASSUME ServerInv, NEW t \in Threads, pc[t] \in InRecord
    PROVE  call[t] \in Calls /\ serving[t] = call[t] /\ call[t] # NoCall
BY AuditLogAssumption
   DEF ServerInv, WriterInv, ServingInv, KeepInv, ChainInv, TypeInv, LocalsTyped, InRecord

LEMMA SafeStep == ServerInv /\ MainInv /\ SafeInv /\ [MainNext]_scriptVars => SafeInv'
<1> SUFFICES ASSUME ServerInv, MainInv, SafeInv, [MainNext]_scriptVars PROVE SafeInv'
  OBVIOUS
<1>t. TypeOK /\ Control /\ \A t, u \in Threads : t = u
  BY ExamplesAssumption DEF ServerInv, WriterInv, KeepInv, ChainInv, TypeInv
<1>1. CASE UNCHANGED scriptVars
  BY <1>1 DEF SafeInv, scriptVars, serverVars, main, server, vars, locals, history
<1>2. ASSUME ~live, UNCHANGED << dirty, spoiled >> PROVE SafeInv'
  BY <1>2, NoneRunning DEF SafeInv
<1>3. ASSUME NEW s \in Scripts, Begin(s) PROVE SafeInv'
  BY <1>2, <1>3 DEF Begin, serverVars, vars, history
<1>4. CASE Open
  BY <1>2, <1>4 DEF Open, Construct, MainInv, vars, history
<1>5. CASE Killed
  BY <1>5 DEF Killed, Crash, PowerLoss, NoInstance, SafeInv
<1>6. CASE Repair
  BY <1>2, <1>6 DEF Repair, history
<1>7. ASSUME NEW t \in Threads, ThreadNext(t), UNCHANGED << server, main >> PROVE SafeInv'
  <2>1. /\ pc[t] \in InRecord => call[t] \in Calls /\ serving[t] = call[t] /\ ~dirty
        /\ pc[t] \in Closing => block # "with"
    BY InRecordServes DEF SafeInv, MainInv
  <2>2. /\ ~spoiled'
        /\ dirty' => \/ dirty /\ pc[t] \in Closing
                     \/ pc[t] \in InRecord /\ pc'[t] = "idle" /\ outcome'[call[t]] # "ok"
    BY <1>7, <1>t, <2>1, ThreadFails DEF SafeInv
  <2>3. pc[t] \in Closing => pc'[t] \in Closing \cup {"idle"}
    BY <1>7, <1>t, ThreadSteps
  <2>4. UNCHANGED << serving, block, failed >>
    BY <1>7 DEF server, main
  <2>5. ASSUME dirty'
        PROVE  /\ pc'[t] \notin InRecord
               /\ block' = "with" /\ failed' = None => serving'[t] # NoCall /\ outcome'[serving'[t]] # "ok"
    <3>1. CASE dirty /\ pc[t] \in Closing
      BY <2>1, <2>3, <2>4, <3>1 DEF InRecord, RecordHolding, Closing
    <3>2. CASE pc[t] \in InRecord /\ pc'[t] = "idle" /\ outcome'[call[t]] # "ok"
      BY <2>1, <2>4, <3>2, AuditLogAssumption DEF InRecord, RecordHolding
    <3> QED
      BY <2>2, <2>5, <3>1, <3>2
  <2> QED
    BY <1>t, <2>2, <2>5 DEF SafeInv
<1>8. ASSUME NEW t \in Threads, Step(t) PROVE SafeInv'
  <2>1. PICK c, r : Serve(t, c, r)
    BY <1>8 DEF Step
  <2>2. UNCHANGED << dirty, spoiled >> /\ serving[t] = NoCall /\ block = "with" /\ failed = None
    BY <1>8, <2>1 DEF Step, Serve, Ready, Take, RecordStart, RecordRefused
  <2> QED
    BY <2>2 DEF SafeInv
<1>9. ASSUME NEW t \in Threads, Handled(t) PROVE SafeInv'
  <2>1. /\ UNCHANGED << vars, block >>
        /\ \/ outcome[serving[t]] = "ok" /\ serving[t] # NoCall
           \/ failed' = "error"
    BY <1>9 DEF Handled, RunBody, ReplyResult, ReplyDenied, ReplyRecorded, ReplyError, Reply, Back
  <2>2. UNCHANGED << dirty, spoiled, pc, outcome >> /\ block = "with" /\ failed = None
    BY <1>9, <2>1 DEF vars, history, locals, MainInv, Handled, RunBody, ReplyResult, ReplyDenied,
       ReplyRecorded, ReplyError, Back
  <2>3. dirty => failed' # None
    BY <2>1, <2>2, ExamplesAssumption DEF SafeInv
  <2> QED
    BY <2>2, <2>3 DEF SafeInv
<1>10. ASSUME NEW t \in Threads, Close(t) PROVE SafeInv'
  <2>1. UNCHANGED << dirty, spoiled >> /\ pc'[t] = "c_set" /\ block' = "closing"
    BY <1>10, <1>t DEF Close, CloseStart, history, TypeOK
  <2> QED
    BY <1>t, <2>1 DEF SafeInv, InRecord, RecordHolding
<1>11. ASSUME NEW t \in Threads, Closed(t) PROVE SafeInv'
  BY <1>11 DEF Closed, Exit, NoInstance, SafeInv
<1> QED
  BY <1>1, <1>3, <1>4, <1>5, <1>6, <1>7, <1>8, <1>9, <1>10, <1>11 DEF MainNext

-----------------------------------------------------------------------------
(* Every request of the script is counted *)

\* How the chain state moves while the script's thread is in record().
LEMMA ThreadCounts ==
    ASSUME TypeOK, NEW t \in Threads, ThreadNext(t), pc[t] \in InRecord, call[t] \in Calls
    PROVE  \/ AdvanceSequence(t)
           \/ /\ UNCHANGED next_sequence
              /\ pc'[t] # "advance_hash"
              /\ pc'[t] = "idle" /\ outcome'[call[t]] = "ok" => pc[t] = "advance_hash"
              /\ pc'[t] \in InRecord => pc[t] # "advance_hash"
              /\ pc'[t] \in RecordHolding =>
                   \/ entry'[t].sequence_number = next_sequence
                   \/ pc[t] \in RecordHolding /\ entry'[t] = entry[t]
<1> USE DEF TypeOK, InRecord, RecordHolding
<1>1. ASSUME NEW result, Return(t, result), UNCHANGED next_sequence,
             result = "ok" => pc[t] = "advance_hash"
      PROVE  /\ UNCHANGED next_sequence /\ pc'[t] = "idle"
             /\ outcome'[call[t]] = "ok" => pc[t] = "advance_hash"
  BY <1>1 DEF Return
<1>2. CASE FindClosed(t) \/ AppendFails(t) \/ Interrupted(t) \/ AdvanceHash(t)
  BY <1>1, <1>2 DEF FindClosed, AppendFails, Interrupted, AdvanceHash
<1>3. CASE HandleGone(t)
  BY <1>1, <1>3 DEF HandleGone, GoneResults
<1>4. CASE BuildEvent(t)
  BY <1>4, MakeEventFields DEF BuildEvent
<1>5. CASE WriteSmall(t) \/ WriteBig(t) \/ BigWriteDone(t) \/ FlushStart(t) \/ FlushDone(t)
  BY <1>5 DEF WriteSmall, WriteBig, BigWriteDone, FlushStart, FlushDone, AfterFlush, instance
<1>6. CASE Sync(t)
  BY <1>6 DEF Sync, instance
<1>7. CASE Drain(t)
  BY <1>7 DEF Drain, Draining, instance, locals
<1>8. ~(CloseSet(t) \/ CloseFlushStart(t) \/ CloseFlushDone(t) \/ CloseDone(t) \/ CloseFindsClosed(t))
  BY DEF CloseSet, CloseFlushStart, CloseFlushDone, CloseDone, CloseFindsClosed
<1> QED
  BY <1>2, <1>3, <1>4, <1>5, <1>6, <1>7, <1>8 DEF ThreadNext

\* close() behind a finished append moves no byte.
LEMMA CloseMovesNothing ==
    ASSUME TypeOK, NEW t \in Threads, ThreadNext(t), pc[t] \in Closing,
           buf = << >>, pending = << >>
    PROVE  UNCHANGED << next_sequence, lines, tail, buf, pending >>
<1> USE DEF Closing
<1>1. CASE CloseSet(t) \/ CloseFlushDone(t) \/ CloseDone(t) \/ CloseFindsClosed(t)
  BY <1>1 DEF CloseSet, CloseFlushDone, CloseDone, CloseFindsClosed, file, handle, instance
<1>2. CASE CloseFlushStart(t)
  <2>1. buf \o pending = << >>
    BY EmptyTyped, ConcatEmptySeq
  <2> QED
    BY <1>2, <2>1 DEF CloseFlushStart, file, instance
<1>3. ~Drain(t)
  BY DEF Drain
<1>4. ~(FindClosed(t) \/ BuildEvent(t) \/ WriteSmall(t) \/ WriteBig(t) \/ BigWriteDone(t) \/ FlushStart(t))
  BY DEF FindClosed, BuildEvent, WriteSmall, WriteBig, BigWriteDone, FlushStart
<1>5. ~(FlushDone(t) \/ Sync(t) \/ AppendFails(t) \/ HandleGone(t) \/ AdvanceSequence(t) \/ AdvanceHash(t))
  BY DEF FlushDone, Sync, AppendFails, HandleGone, AdvanceSequence, AdvanceHash
<1>6. ~Interrupted(t)
  BY DEF Interrupted, RecordHolding
<1> QED
  BY <1>1, <1>2, <1>3, <1>4, <1>5, <1>6 DEF ThreadNext

\* A log that is opened, and one the script's thread is not writing to.
LEMMA MemoryIsFile ==
    ASSUME ServerInv, SafeInv, live, fh_open, ~dirty, \A t \in Threads : pc[t] \notin RecordHolding
    PROVE  next_sequence = Len(lines) /\ tail = << >> /\ buf = << >> /\ pending = << >>
<1>1. lock = NoThread
  BY DEF ServerInv, WriterInv, KeepInv, CallsInv
<1> QED
  BY <1>1 DEF SafeInv, ServerInv, WriterInv, KeepInv, ChainInv, Unbroken, InStep, MemoryAgrees, Quiet

\* A log that has just been opened: memory is what its lines say.
LEMMA OpenedMemory ==
    ASSUME ServerInv, MainInv, SafeInv, Open, [MainNext]_scriptVars, Resumable
    PROVE  /\ UNCHANGED << lines, tail, pc, serving, request, ran, script, phase, step, fresh, ended >>
           /\ \A t \in Threads : pc[t] = "idle" /\ serving[t] = NoCall
           /\ next_sequence' = Len(lines)
<1>1. /\ Construct /\ UNCHANGED << server, script, phase, step, fresh, ended >>
      /\ block = "outside"
  BY DEF Open
<1>2. UNCHANGED << lines, tail, pc, serving, request, ran >> /\ live' /\ fh_open' /\ ~dirty'
      /\ \A t \in Threads : pc[t] = "idle" /\ serving[t] = NoCall
  BY <1>1, NoneRunning DEF Construct, file, locals, history, server, MainInv
<1>3. \A t \in Threads : pc'[t] \notin RecordHolding
  BY <1>2 DEF RecordHolding
<1>4. (ServerInv /\ SafeInv /\ live /\ fh_open /\ ~dirty
       /\ (\A t \in Threads : pc[t] \notin RecordHolding) => next_sequence = Len(lines))'
  BY MemoryIsFile, PTL
<1>5. ServerInv' /\ SafeInv'
  BY ServerInvStep, SafeStep
<1> QED
  BY <1>1, <1>2, <1>3, <1>4, <1>5

\* Counting, for the steps that leave the script where it is.
LEMMA SameServed ==
    ASSUME UNCHANGED << script, phase, step, fresh >>
    PROVE  Served' = Served /\ Whole' = Whole /\ \A n, k : Counts(n, k)' <=> Counts(n, k)
BY DEF Served, Before, Expected, Whole, Counts

\* The requests of a script that stands in a phase.
LEMMA ServedType ==
    ASSUME MainInv, ended = None
    PROVE  /\ Served \in Nat
           /\ phase \in Nat \ {0} /\ step \in Nat \ {0}
           /\ Expected(phase) = Before + Len(script[phase])
           /\ Expected(Len(script)) = Len(Whole)
           /\ Len(script[phase]) \in Nat /\ Before \in Nat /\ Len(Whole) \in Nat
           /\ step <= Len(script[phase]) + 1
           /\ step = Len(script[phase]) + 1 => Served = Expected(phase)
<1>1. /\ script \in Scripts /\ phase \in 1..Len(script)
      /\ step \in 1..Len(script[phase]) + 1 /\ phase \in Nat
  BY DEF MainInv
<1>2. /\ Len(script[phase]) \in Nat /\ Expected(phase - 1) \in Nat
      /\ Expected(phase) = Expected(phase - 1) + Len(script[phase])
      /\ Expected(Len(script)) = Len(Whole) /\ Len(Whole) \in Nat
  BY <1>1, ScriptParts
<1>3. step \in Nat \ {0} /\ step <= Len(script[phase]) + 1 /\ phase \in Nat \ {0}
  BY <1>1, <1>2
<1> QED
  BY <1>2, <1>3 DEF Served, Before

LEMMA CountThread ==
    ASSUME ServerInv, MainInv, SafeInv, CountInv,
           NEW t \in Threads, ThreadNext(t), UNCHANGED << server, main >>
    PROVE  CountInv'
<1> SUFFICES ASSUME ended' = None, failed' = None PROVE CountInv'
  BY DEF CountInv
<1>t. TypeOK /\ Control /\ \A u \in Threads : u = t
  BY ExamplesAssumption DEF ServerInv, WriterInv, KeepInv, ChainInv, TypeInv
<1>m. /\ UNCHANGED << serving, script, phase, step, block, failed, ended, fresh >>
      /\ ended = None /\ failed = None
  BY DEF server, main
<1>s. Served' = Served /\ \A n, k : Counts(n, k)' <=> Counts(n, k)
  BY <1>m, SameServed
<1>1. CASE pc[t] \in InRecord
  <2>1. call[t] \in Calls /\ serving[t] = call[t] /\ serving[t] # NoCall
    BY <1>1, InRecordServes
  <2>2. block = "with"
    BY <2>1 DEF MainInv
  <2>3. /\ Counted(t) => Counts(next_sequence, Served)
        /\ pc[t] # "advance_hash" => Counts(next_sequence + 1, Served)
        /\ pc[t] \in RecordHolding \ {"advance_hash"} => entry[t].sequence_number = next_sequence
    BY <1>1, <1>m, <2>2 DEF CountInv
  <2>4. CASE AdvanceSequence(t)
    <3>1. /\ pc[t] = "advance" /\ pc'[t] = "advance_hash"
          /\ next_sequence' = entry[t].sequence_number + 1
      BY <2>4, <1>t DEF AdvanceSequence, TypeOK
    <3>2. next_sequence' = next_sequence + 1 /\ Counts(next_sequence + 1, Served)
      BY <2>3, <3>1 DEF RecordHolding
    <3>3. Counts(next_sequence, Served)'
      BY <1>s, <1>m, <3>2 DEF Counts
    <3> QED
      BY <1>t, <1>m, <2>2, <3>1, <3>3 DEF CountInv
  <2>5. CASE ~AdvanceSequence(t)
    <3>1. /\ UNCHANGED next_sequence
          /\ pc'[t] # "advance_hash"
          /\ pc'[t] = "idle" /\ outcome'[call[t]] = "ok" => pc[t] = "advance_hash"
          /\ pc'[t] \in InRecord => pc[t] # "advance_hash"
          /\ pc'[t] \in RecordHolding =>
               \/ entry'[t].sequence_number = next_sequence
               \/ pc[t] \in RecordHolding /\ entry'[t] = entry[t]
      BY <1>1, <1>t, <2>1, <2>5, ThreadCounts
    <3>2. Counted(t)' => Counts(next_sequence, Served)'
      <4>1. Counted(t)' => Counted(t)
        BY <1>m, <2>1, <3>1 DEF Counted
      <4> QED
        BY <1>s, <1>m, <2>3, <3>1, <4>1 DEF Counts
    <3>3. pc'[t] \in InRecord \ {"advance_hash"} => Counts(next_sequence + 1, Served)'
      BY <1>s, <1>m, <2>3, <3>1 DEF Counts
    <3>4. pc'[t] \in RecordHolding \ {"advance_hash"} => entry'[t].sequence_number = next_sequence'
      BY <2>3, <3>1 DEF InRecord
    <3> QED
      BY <1>t, <1>m, <2>2, <3>2, <3>3, <3>4 DEF CountInv
  <2> QED
    BY <2>4, <2>5
<1>2. CASE pc[t] \in Closing
  <2>1. block = "closing"
    BY <1>2, NoneRunning DEF MainInv, Closing
  <2>2. /\ Counts(next_sequence, Served) /\ next_sequence = Len(lines)
        /\ tail = << >> /\ buf = << >> /\ pending = << >>
    BY <1>m, <2>1 DEF CountInv
  <2>3. UNCHANGED << next_sequence, lines, tail, buf, pending >>
    BY <1>2, <1>t, <2>2, CloseMovesNothing
  <2>4. Counts(next_sequence, Served)'
    BY <1>s, <1>m, <2>2, <2>3 DEF Counts
  <2> QED
    BY <1>m, <2>1, <2>2, <2>3, <2>4 DEF CountInv
<1> QED
  BY <1>1, <1>2, <1>t, ThreadSteps

LEMMA CountStep ==
    ServerInv /\ MainInv /\ SafeInv /\ CountInv /\ [MainNext]_scriptVars => CountInv'
<1> SUFFICES ASSUME ServerInv, MainInv, SafeInv, CountInv, [MainNext]_scriptVars,
                    ended' = None, failed' = None
             PROVE  CountInv'
  BY DEF CountInv
<1>t. TypeOK /\ Control /\ \A t, u \in Threads : t = u
  BY ExamplesAssumption DEF ServerInv, WriterInv, KeepInv, ChainInv, TypeInv
<1>n. next_sequence \in Nat /\ Len(lines) \in Nat
  BY <1>t, LenProperties DEF TypeOK
<1>i. ServerInv' /\ MainInv' /\ SafeInv'
  BY ServerInvStep, MainStep, SafeStep
<1>1. CASE UNCHANGED scriptVars
  <2>1. UNCHANGED << tail, lines, buf, pending, next_sequence, pc, entry, outcome, serving >>
    BY <1>1 DEF scriptVars, serverVars, server, vars, file, handle, instance, locals, history
  <2>2. UNCHANGED << script, phase, step, block, failed, ended, fresh >>
    BY <1>1 DEF scriptVars, main
  <2>3. Served' = Served /\ \A n, k : Counts(n, k)' <=> Counts(n, k)
    BY <2>2, SameServed
  <2> QED
    BY <2>1, <2>2, <2>3 DEF CountInv, Counted, Counts
<1>2. ASSUME NEW s \in Scripts, Begin(s) PROVE CountInv'
  <2>1. /\ block' = "outside" /\ script' = s /\ phase' = 1 /\ step' = 1
        /\ UNCHANGED << lines, tail >> /\ fresh' = (lines = << >> /\ tail = << >>)
    BY <1>2 DEF Begin, serverVars, vars, file
  <2>2. (script \in Scripts => Expected(0) = 0)'
    BY ScriptParts, PTL
  <2>3. Served' = 0
    <3>1. phase' - 1 = 0 /\ step' - 1 = 0
      BY <2>1
    <3>2. Before' = Expected(0)'
      BY <3>1 DEF Before, Expected
    <3>3. Expected(0)' = 0
      BY <2>1, <2>2
    <3> QED
      BY <3>1, <3>2, <3>3 DEF Served
  <2>4. tail' = << >> => Counts(Len(lines), Served)'
    <3>1. lines = << >> <=> Len(lines) = 0
      BY <1>t, EmptySeq DEF TypeOK
    <3>2. CASE fresh'
      <4>1. Len(lines) = 0
        BY <2>1, <3>1, <3>2
      <4> QED
        BY <2>1, <2>3, <3>2, <4>1 DEF Counts
    <3>3. CASE ~fresh'
      <4>0. ~(lines = << >> /\ tail = << >>)
        BY <2>1, <3>3
      <4>1. tail' = << >> => Len(lines) > 0
        BY <1>n, <2>1, <3>1, <4>0
      <4> QED
        BY <2>1, <2>3, <3>3, <4>1 DEF Counts
    <3> QED
      BY <3>2, <3>3
  <2> QED
    BY <2>1, <2>4 DEF CountInv
<1>3. CASE Open
  <2>1. /\ Resumable /\ Construct /\ block' = "with"
        /\ UNCHANGED << server, script, phase, step, fresh, ended >>
        /\ block = "outside" /\ failed = None
    BY <1>3, ExamplesAssumption DEF Open, MainInv
  <2>2. UNCHANGED << lines, pc, serving >> /\ next_sequence' = Len(lines)
        /\ \A t \in Threads : pc[t] = "idle" /\ serving[t] = NoCall
    BY <1>3, <2>1, OpenedMemory
  <2>4. Counts(next_sequence, Served)'
    <3>1. Counts(Len(lines), Served)
      BY <2>1 DEF CountInv, Resumable
    <3>2. Served' = Served
      BY <2>1, SameServed
    <3> QED
      BY <2>1, <2>2, <3>1, <3>2 DEF Counts
  <2> QED
    BY <2>1, <2>2, <2>4 DEF CountInv, InRecord, RecordHolding
<1>4. CASE Killed \/ (ended # None /\ Repair /\ UNCHANGED << server, main >>)
  BY <1>4, ExamplesAssumption DEF Killed, main
<1>5. ASSUME NEW t \in Threads, ThreadNext(t), UNCHANGED << server, main >> PROVE CountInv'
  BY <1>5, CountThread
<1>6. ASSUME NEW t \in Threads, Step(t) PROVE CountInv'
  <2>1. PICK c, r : Serve(t, c, r) /\ c \in Calls
    <3>1. Unmade # {} /\ Serve(t, CHOOSE c \in Unmade : TRUE, script[phase][step])
      BY <1>6 DEF Step
    <3>2. (CHOOSE c \in Unmade : TRUE) \in Calls
      BY <3>1 DEF Unmade
    <3> QED
      BY <3>1, <3>2
  <2>2. /\ block = "with" /\ failed = None /\ serving[t] = NoCall
        /\ UNCHANGED << script, phase, block, failed, ended, fresh >> /\ step' = step + 1
    BY <1>6, <2>1 DEF Step, Serve, Ready
  <2>3. /\ UNCHANGED next_sequence /\ serving'[t] = c /\ c # NoCall
        /\ \/ pc'[t] = "lock"
           \/ pc'[t] = "idle" /\ outcome'[c] = "refused"
    BY <1>t, <2>1, AuditLogAssumption
       DEF Serve, Take, RecordStart, RecordRefused, instance, locals, TypeOK, ServerInv, ServingInv
  <2>4. Counts(next_sequence, Served)
    BY <2>2 DEF CountInv, Counted
  <2>5. Served' = Served + 1 /\ Served \in Nat
    <3>1. ended = None
      BY <2>2
    <3>2. step \in Nat \ {0} /\ Before \in Nat
      BY <3>1, ServedType
    <3>3. Before' = Before
      BY <2>2 DEF Before, Expected, Whole
    <3> QED
      BY <2>2, <3>2, <3>3 DEF Served
  <2>6. Counts(next_sequence + 1, Served)'
    BY <1>n, <2>2, <2>3, <2>4, <2>5 DEF Counts
  <2> QED
    BY <1>t, <2>2, <2>3, <2>6 DEF CountInv, Counted, RecordHolding
<1>7. ASSUME NEW t \in Threads, Handled(t) PROVE CountInv'
  <2>1. /\ UNCHANGED << vars, script, phase, step, block, ended, fresh, failed >>
        /\ outcome[serving[t]] = "ok" /\ serving[t] # NoCall /\ pc[t] = "idle"
    BY <1>7, ExamplesAssumption
       DEF Handled, RunBody, ReplyResult, ReplyDenied, ReplyRecorded, ReplyError, Reply, Back
  <2>2. UNCHANGED << next_sequence, pc, entry >> /\ block = "with"
    BY <2>1 DEF vars, instance, locals, MainInv
  <2>3. Served' = Served
    BY <2>1, SameServed
  <2>4. Counts(next_sequence, Served)
    BY <2>1, <2>2 DEF CountInv, Counted
  <2>5. Counts(next_sequence, Served)'
    BY <2>1, <2>2, <2>3, <2>4 DEF Counts
  <2> QED
    BY <1>t, <2>1, <2>2, <2>5 DEF CountInv, InRecord, RecordHolding
<1>8. ASSUME NEW t \in Threads, Close(t) PROVE CountInv'
  <2>1. /\ block = "with" /\ serving[t] = NoCall /\ block' = "closing" /\ failed = None
        /\ UNCHANGED << script, phase, step, fresh, ended, next_sequence, lines, tail, buf, pending >>
        /\ pc[t] = "idle"
    BY <1>8 DEF Close, CloseStart, file, handle, instance
  <2>2. live /\ fh_open /\ ~dirty /\ \A u \in Threads : pc[u] \notin RecordHolding
    BY <1>t, <2>1 DEF MainInv, SafeInv, RecordHolding
  <2>3. next_sequence = Len(lines) /\ tail = << >> /\ buf = << >> /\ pending = << >>
    BY <2>2, MemoryIsFile
  <2>4. Counts(next_sequence, Served) /\ Served' = Served
    BY <2>1, SameServed DEF CountInv, Counted
  <2>5. Counts(next_sequence, Served)'
    BY <2>1, <2>4 DEF Counts
  <2> QED
    BY <2>1, <2>3, <2>5 DEF CountInv
<1>9. ASSUME NEW t \in Threads, Closed(t) PROVE CountInv'
  <2>1. /\ block = "closing" /\ block' = "outside" /\ failed = None /\ ended = None
        /\ UNCHANGED << lines, tail, script, fresh >> /\ phase' = phase + 1 /\ step' = 1
    BY <1>9 DEF Closed, Exit, file, MainInv
  <2>2. Counts(Len(lines), Served)
    BY <2>1 DEF CountInv
  <2>3. Served' = Served
    <3>1. /\ phase \in Nat /\ Expected(phase) \in Nat /\ Served = Expected(phase)
      BY <2>1, ServedType DEF MainInv
    <3>2. Served' = Expected(phase)
      BY <2>1, <3>1 DEF Served, Before, Expected, Whole
    <3> QED
      BY <3>1, <3>2
  <2> QED
    BY <2>1, <2>2, <2>3 DEF CountInv, Counts
<1> QED
  BY <1>1, <1>2, <1>3, <1>4, <1>5, <1>6, <1>7, <1>8, <1>9 DEF MainNext

-----------------------------------------------------------------------------
(* Every line of a fresh log is the script's own *)

\* The lines of the file name calls.
LEMMA MadeIsCall ==
    ASSUME ServerInv, SafeInv, NEW i \in 1..Len(lines)
    PROVE  EventOf(lines[i]).call \in Calls
<1>1. lines[i] \in Seq(Cell) /\ Parses(lines[i])
  BY ElementOfSeq
     DEF ServerInv, WriterInv, KeepInv, ChainInv, TypeInv, TypeOK, Chained, ChainedUnder, SafeInv
<1>2. 1 \in 1..Len(lines[i])
  BY <1>1, LineCellsAssumption DEF Parses
<1>3. lines[i][1] \in Cell
  BY <1>1, <1>2, ElementOfSeq
<1> QED
  BY <1>3 DEF Cell, AuditEvent, EventOf

\* While the script runs, memory is not ahead of the file.
LEMMA MemoryBehind ==
    ASSUME ServerInv, SafeInv, live, ~dirty
    PROVE  /\ next_sequence <= Len(lines)
           /\ \A t \in Threads : pc[t] \in Finishing => EntryIsLast(t)
BY DEF ServerInv, WriterInv, KeepInv, Behind, SafeInv

\* The line whose thread advances the chain state is the one behind those that
\* are counted.
LEMMA AdvancingLine ==
    ASSUME ServerInv, SafeInv, live, NEW t \in Threads, pc[t] = "advance",
           entry[t].sequence_number = next_sequence
    PROVE  /\ Len(lines) = next_sequence + 1
           /\ EventOf(lines[Len(lines)]).call = call[t]
<1>1. /\ TypeOK /\ ChainedUnder(Key, lines) /\ ~dirty /\ entry[t].call = call[t]
  BY DEF ServerInv, WriterInv, KeepInv, CallsInv, ChainInv, TypeInv, Chained, SafeInv,
         InRecord, RecordHolding
<1>2. lines # << >> /\ entry[t] = EventOf(lines[Len(lines)])
  BY <1>1, MemoryBehind DEF Finishing, EntryIsLast
<1>3. EventOf(lines[Len(lines)]).sequence_number + 1 = Len(lines)
  BY <1>1, <1>2, LastSequence
<1> QED
  BY <1>1, <1>2, <1>3

\* A line stays the script's own while nothing it is compared with changes.
LEMMA SameOwnLine ==
    ASSUME UNCHANGED << script, request, ran, serving >>, NEW i, lines'[i] = lines[i], OwnLine(i)
    PROVE  OwnLine(i)'
BY DEF OwnLine, Answered, Whole

LEMMA OwnThread ==
    ASSUME ServerInv, MainInv, SafeInv, CountInv, OwnInv,
           NEW t \in Threads, ThreadNext(t), UNCHANGED << server, main >>
    PROVE  OwnInv'
<1> SUFFICES ASSUME ended' = None, failed' = None, fresh' PROVE OwnInv'
  BY DEF OwnInv
<1>t. TypeOK /\ Control /\ \A u \in Threads : u = t
  BY ExamplesAssumption DEF ServerInv, WriterInv, KeepInv, ChainInv, TypeInv
<1>n. next_sequence \in Nat /\ Len(lines) \in Nat /\ lines \in Seq(Seq(Cell)) /\ tail \in Seq(Cell)
  BY <1>t, LenProperties DEF TypeOK
<1>m. /\ UNCHANGED << serving, request, ran, script, phase, step, block, failed, ended, fresh >>
      /\ ended = None /\ failed = None /\ fresh
  BY DEF server, main
<1>s. Served' = Served /\ Whole' = Whole
  BY <1>m, SameServed
<1>f. /\ block # "outside"
      /\ \A i \in 1..next_sequence : OwnLine(i)
      /\ \A u \in Threads : serving[u] # NoCall => request[serving[u]] = Whole[Served]
  <2>1. block # "outside"
    BY <1>t, ThreadSteps, NoneRunning DEF MainInv, InRecord, RecordHolding, Closing
  <2> QED
    BY <1>m, <2>1 DEF OwnInv
<1>g. \A u \in Threads : serving'[u] # NoCall => request'[serving'[u]] = Whole'[Served']
  BY <1>m, <1>s, <1>f
<1>1. CASE pc[t] \in InRecord
  <2>1. call[t] \in Calls /\ serving[t] = call[t] /\ serving[t] # NoCall /\ ~dirty
    BY <1>1, InRecordServes DEF SafeInv
  <2>2. block = "with" /\ live
    BY <2>1 DEF MainInv
  <2>3. next_sequence <= Len(lines)
    BY <2>1, <2>2, MemoryBehind
  <2>4. \A i \in 1..Len(lines) : lines'[i] = lines[i]
    <3>1. lines' = lines \/ lines' = Append(lines, tail)
      BY DEF ThreadNext, FindClosed, BuildEvent, WriteSmall, WriteBig, BigWriteDone, FlushStart,
             Drain, FlushDone, Sync, AppendFails, HandleGone, Interrupted, AdvanceSequence,
             AdvanceHash, CloseSet, CloseFlushStart, CloseFlushDone, CloseDone, CloseFindsClosed, file
    <3>2. \A i \in 1..Len(lines) : Append(lines, tail)[i] = lines[i]
      BY <1>n, AppendProperties
    <3> QED
      BY <3>1, <3>2
  <2>5. \A i \in 1..next_sequence : OwnLine(i)'
    <3> TAKE i \in 1..next_sequence
    <3>1. i \in 1..Len(lines)
      BY <1>n, <2>3
    <3>2. lines'[i] = lines[i] /\ OwnLine(i)
      BY <1>f, <2>4, <3>1
    <3> QED
      BY <1>m, <3>2, SameOwnLine
  <2>6. CASE AdvanceSequence(t)
    <3>1. /\ pc[t] = "advance" /\ next_sequence' = entry[t].sequence_number + 1
          /\ UNCHANGED << lines, request, serving >>
      BY <1>m, <2>6 DEF AdvanceSequence, file
    <3>2. entry[t].sequence_number = next_sequence /\ Counts(next_sequence + 1, Served)
      BY <1>1, <1>m, <2>2, <3>1 DEF CountInv, RecordHolding
    <3>3. Len(lines) = next_sequence + 1 /\ EventOf(lines[Len(lines)]).call = serving[t]
      BY <2>1, <2>2, <3>1, <3>2, AdvancingLine
    <3>4. Served = next_sequence + 1
      BY <1>m, <3>2 DEF Counts
    <3>5. ASSUME NEW i, i = Len(lines) PROVE OwnLine(i)'
      <4> DEFINE made == EventOf(lines[i]).call
      <4>1. made = serving[t] /\ i = Served /\ lines' = lines
        BY <3>1, <3>3, <3>4, <3>5
      <4>2. request'[made] = Whole'[i] /\ ~Answered(made)'
        BY <1>f, <1>m, <1>s, <2>1, <4>1 DEF Answered
      <4> QED
        BY <4>1, <4>2 DEF OwnLine
    <3>6. \A i \in 1..next_sequence' : i \in 1..next_sequence \/ i = Len(lines)
      BY <1>n, <3>1, <3>2, <3>3
    <3>7. \A i \in 1..next_sequence' : OwnLine(i)'
      BY <2>5, <3>5, <3>6
    <3> QED
      BY <1>f, <1>g, <1>m, <3>7 DEF OwnInv
  <2>7. CASE ~AdvanceSequence(t)
    <3>1. UNCHANGED next_sequence
      BY <1>1, <1>t, <2>1, <2>7, ThreadCounts
    <3>2. \A i \in 1..next_sequence' : OwnLine(i)'
      BY <2>5, <3>1
    <3> QED
      BY <1>f, <1>g, <1>m, <3>2 DEF OwnInv
  <2> QED
    BY <2>6, <2>7
<1>2. CASE pc[t] \in Closing
  <2>1. block = "closing"
    BY <1>2, NoneRunning DEF MainInv, Closing
  <2>2. buf = << >> /\ pending = << >>
    BY <1>m, <2>1 DEF CountInv
  <2>3. UNCHANGED << next_sequence, lines >>
    BY <1>2, <1>t, <2>2, CloseMovesNothing
  <2>4. \A i \in 1..next_sequence' : OwnLine(i)'
    BY <1>f, <1>m, <2>3, SameOwnLine
  <2> QED
    BY <1>f, <1>g, <1>m, <2>4 DEF OwnInv
<1> QED
  BY <1>1, <1>2, <1>t, ThreadSteps

\* The request a script that stands in a phase makes next.
LEMMA NextRequest ==
    ASSUME MainInv, ended = None, step <= Len(script[phase])
    PROVE  /\ script[phase][step] = Whole[Served + 1]
           /\ Served + 1 \in 1..Len(Whole) /\ Served \in Nat
           /\ \A i \in 1..Served : Whole[i] # None
<1>1. script \in Scripts /\ phase \in 1..Len(script)
  BY DEF MainInv
<1>2. step \in Nat \ {0} /\ Len(script[phase]) \in Nat /\ Before \in Nat /\ Len(Whole) \in Nat /\ Served \in Nat
  BY ServedType
<1>3. step \in 1..Len(script[phase])
  BY <1>2
<1>4. /\ Before + step \in 1..Len(Whole) /\ Whole[Before + step] = script[phase][step]
      /\ Whole \in Seq(Requests)
  BY <1>1, <1>3, ScriptParts DEF Before
<1>5. Before + step = Served + 1
  BY <1>2 DEF Served
<1>6. ASSUME NEW i \in 1..Served PROVE Whole[i] # None
  <2>1. i \in 1..Len(Whole)
    BY <1>2, <1>4, <1>5
  <2>2. Whole[i] \in Requests
    BY <1>4, <2>1, ElementOfSeq
  <2> QED
    BY <2>2, DispatchAssumption
<1> QED
  BY <1>2, <1>4, <1>5, <1>6

\* The script makes a request: no line is about it yet.
LEMMA OwnServe ==
    ASSUME ServerInv, MainInv, SafeInv, CountInv, OwnInv, NEW t \in Threads, Step(t)
    PROVE  OwnInv'
<1> SUFFICES ASSUME ended' = None, failed' = None, fresh' PROVE OwnInv'
  BY DEF OwnInv
<1>t. TypeOK /\ \A u \in Threads : u = t
  BY ExamplesAssumption DEF ServerInv, WriterInv, KeepInv, ChainInv, TypeInv
<1>1. PICK c \in Calls : Serve(t, c, script[phase][step])
  <2>1. Unmade # {} /\ Serve(t, CHOOSE c \in Unmade : TRUE, script[phase][step])
    BY DEF Step
  <2>2. (CHOOSE c \in Unmade : TRUE) \in Calls
    BY <2>1 DEF Unmade
  <2> QED
    BY <2>1, <2>2
<1>2. /\ block = "with" /\ failed = None /\ ended = None /\ fresh /\ step <= Len(script[phase])
      /\ UNCHANGED << script, phase, block, failed, ended, fresh >> /\ step' = step + 1
  BY DEF Step
<1>3. /\ serving[t] = NoCall /\ request[c] = None /\ UNCHANGED << next_sequence, lines, ran >>
      /\ request' = [request EXCEPT ![c] = script[phase][step]]
      /\ serving' = [serving EXCEPT ![t] = c]
  BY <1>1 DEF Serve, Ready, Take, RecordStart, RecordRefused, instance, file
<1>4. /\ request \in [Calls -> Requests \cup {None}] /\ serving \in [Threads -> Calls \cup {NoCall}]
  BY DEF ServerInv, ServingInv
<1>5. next_sequence = Served /\ next_sequence <= Len(lines) /\ Len(lines) \in Nat
  <2>1. next_sequence = Served
    BY <1>2, <1>3 DEF CountInv, Counted, Counts
  <2>2. live
    BY <1>2 DEF MainInv
  <2>3. ~dirty
    BY <1>2, <1>3 DEF SafeInv
  <2> QED
    BY <1>t, <2>1, <2>2, <2>3, MemoryBehind, LenProperties DEF TypeOK
<1>6. /\ script[phase][step] = Whole[Served + 1] /\ Served \in Nat
      /\ \A i \in 1..Served : Whole[i] # None
  BY <1>2, NextRequest
<1>7. Whole' = Whole /\ Before' = Before
  BY <1>2 DEF Whole, Before, Expected
<1>8. Served' = Served + 1
  <2>1. step \in Nat \ {0} /\ Before \in Nat
    BY <1>2, ServedType
  <2> QED
    BY <1>2, <1>7, <2>1 DEF Served
<1>9. ASSUME NEW i \in 1..next_sequence PROVE OwnLine(i)'
  <2> DEFINE made == EventOf(lines[i]).call
  <2>1. i \in 1..Len(lines) /\ i \in 1..Served
    BY <1>5, <1>6
  <2>2. made \in Calls
    BY <2>1, MadeIsCall
  <2>3. OwnLine(i)
    BY <1>2, <1>9 DEF OwnInv
  <2> HIDE DEF made
  <2>4. request[made] = Whole[i] /\ (Answered(made) => (Runs(Whole[i]) <=> made \in ran))
    BY <2>3 DEF OwnLine, made
  <2>5. made # c
    BY <1>3, <1>6, <2>1, <2>4
  <2>6. Answered(made)
    BY <1>t, <1>3, <2>2, AuditLogAssumption DEF Answered
  <2>7. request'[made] = Whole'[i] /\ (Runs(Whole'[i]) <=> made \in ran')
    BY <1>3, <1>4, <1>7, <2>2, <2>4, <2>5, <2>6
  <2>8. made = EventOf(lines'[i]).call
    BY <1>3 DEF made
  <2> QED
    BY <2>7, <2>8 DEF OwnLine
<1>10. \A u \in Threads : serving'[u] # NoCall => request'[serving'[u]] = Whole'[Served']
  BY <1>t, <1>3, <1>4, <1>6, <1>7, <1>8
<1> QED
  BY <1>2, <1>3, <1>9, <1>10 DEF OwnInv

\* The handler of a request answers: the tool has run if it was allowed to.
LEMMA OwnHandled ==
    ASSUME ServerInv, MainInv, SafeInv, CountInv, OwnInv, NEW t \in Threads, Handled(t)
    PROVE  OwnInv'
<1> SUFFICES ASSUME ended' = None, failed' = None, fresh' PROVE OwnInv'
  BY DEF OwnInv
<1>t. \A u \in Threads : u = t
  BY ExamplesAssumption
<1>1. /\ UNCHANGED << vars, request, script, phase, step, block, ended, fresh, failed >>
      /\ serving[t] # NoCall
      /\ RunBody(t) \/ ReplyResult(t) \/ ReplyDenied(t) \/ ReplyRecorded(t)
  BY ExamplesAssumption DEF Handled, RunBody, ReplyResult, ReplyDenied, ReplyRecorded, ReplyError, Reply, Back
<1>2. UNCHANGED << next_sequence, lines >> /\ block = "with"
  BY <1>1 DEF vars, instance, file, MainInv
<1>3. Served' = Served /\ Whole' = Whole
  BY <1>1, SameServed
<1>4. /\ serving \in [Threads -> Calls \cup {NoCall}]
      /\ \A c \in ran : Runs(request[c])
  BY DEF ServerInv, ServingInv
<1>5. \A u \in Threads : serving'[u] # NoCall => request'[serving'[u]] = Whole'[Served']
  <2>1. \A u \in Threads : serving'[u] # NoCall => serving'[u] = serving[u]
    BY <1>t, <1>1, <1>4 DEF RunBody, ReplyResult, ReplyDenied, ReplyRecorded, Reply
  <2>2. \A u \in Threads : serving[u] # NoCall => request[serving[u]] = Whole[Served]
    BY <1>1 DEF OwnInv
  <2> QED
    BY <1>1, <1>3, <2>1, <2>2
<1>6. ASSUME NEW i \in 1..next_sequence PROVE OwnLine(i)'
  <2>0. PICK made : made = EventOf(lines[i]).call
    OBVIOUS
  <2>1. OwnLine(i)
    BY <1>1, <1>2, <1>6 DEF OwnInv
  <2>2. request[made] = Whole[i] /\ (Answered(made) => (Runs(Whole[i]) <=> made \in ran))
    BY <2>0, <2>1 DEF OwnLine
  <2>3. Answered(made)' => (Runs(Whole[i]) <=> made \in ran')
    <3> SUFFICES ASSUME Answered(made)' PROVE Runs(Whole[i]) <=> made \in ran'
      OBVIOUS
    <3>1. CASE made # serving[t]
      <4>1. Answered(made)
        BY <1>t, <3>1 DEF Answered
      <4>2. made \in ran' <=> made \in ran
        BY <1>1, <3>1 DEF RunBody, ReplyResult, ReplyDenied, ReplyRecorded, Reply
      <4> QED
        BY <2>2, <4>1, <4>2
    <3>2. CASE made = serving[t]
      <4>1. ~RunBody(t)
        BY <1>1, <3>2 DEF RunBody, Answered
      <4>2. UNCHANGED ran
        BY <1>1, <4>1 DEF ReplyResult, ReplyDenied, ReplyRecorded, Reply
      <4>3. CASE ReplyResult(t)
        BY <1>4, <2>2, <3>2, <4>2, <4>3 DEF ReplyResult
      <4>4. CASE ReplyDenied(t)
        BY <1>4, <2>2, <3>2, <4>2, <4>4 DEF ReplyDenied
      <4>5. CASE ReplyRecorded(t)
        <5>1. ~Runs(Whole[i])
          BY <2>2, <3>2, <4>5 DEF ReplyRecorded, Runs
        <5> QED
          BY <1>4, <2>2, <4>2, <5>1
      <4> QED
        BY <1>1, <4>1, <4>3, <4>4, <4>5
    <3> QED
      BY <3>1, <3>2
  <2>4. made = EventOf(lines'[i]).call /\ request' = request
    BY <1>1, <1>2, <2>0
  <2> QED
    BY <1>3, <2>2, <2>3, <2>4 DEF OwnLine
<1> QED
  BY <1>1, <1>2, <1>5, <1>6 DEF OwnInv

\* No line is the script's own because its handler has not answered yet, once
\* no handler is at work.
LEMMA AllAnswered ==
    ASSUME ServerInv, SafeInv, UNCHANGED << script, request, ran, lines >>,
           \A t \in Threads : serving[t] = NoCall,
           NEW i \in 1..Len(lines), OwnLine(i)
    PROVE  /\ request[EventOf(lines[i]).call] = Whole[i]
           /\ Runs(Whole[i]) <=> EventOf(lines[i]).call \in ran
           /\ OwnLine(i)'
<1>1. Answered(EventOf(lines[i]).call)
  BY MadeIsCall, AuditLogAssumption DEF Answered
<1> QED
  BY <1>1 DEF OwnLine, Whole

LEMMA OwnStep ==
    ServerInv /\ MainInv /\ SafeInv /\ CountInv /\ OwnInv /\ [MainNext]_scriptVars => OwnInv'
<1> SUFFICES ASSUME ServerInv, MainInv, SafeInv, CountInv, OwnInv, [MainNext]_scriptVars,
                    ended' = None, failed' = None, fresh'
             PROVE  OwnInv'
  BY DEF OwnInv
<1>i. MainInv'
  BY MainStep
<1>1. CASE UNCHANGED scriptVars
  <2>1. UNCHANGED << lines, next_sequence, serving, request, ran >>
    BY <1>1 DEF scriptVars, serverVars, server, vars, file, instance
  <2>2. UNCHANGED << script, phase, step, block, failed, ended, fresh >>
    BY <1>1 DEF scriptVars, main
  <2>3. Served' = Served /\ Whole' = Whole
    BY <2>2, SameServed
  <2>4. \A i : OwnLine(i) => OwnLine(i)'
    BY <2>1, <2>2, SameOwnLine
  <2> QED
    BY <2>1, <2>2, <2>3, <2>4 DEF OwnInv
<1>2. ASSUME NEW s \in Scripts, Begin(s) PROVE OwnInv'
  <2>1. block' = "outside" /\ UNCHANGED lines /\ lines = << >>
    BY <1>2 DEF Begin, serverVars, vars, file
  <2>2. \A t \in Threads : serving'[t] = NoCall
    BY <1>i, <2>1 DEF MainInv
  <2>3. 1..Len(lines') = {}
    BY <2>1
  <2> QED
    BY <2>1, <2>2, <2>3 DEF OwnInv
<1>3. CASE Open
  <2>1. Resumable /\ block = "outside" /\ block' = "with"
    BY <1>3, ExamplesAssumption DEF Open
  <2>2. /\ UNCHANGED << lines, serving, request, ran, script, fresh, ended >>
        /\ next_sequence' = Len(lines)
        /\ \A t \in Threads : serving[t] = NoCall
    BY <1>3, <2>1, OpenedMemory
  <2>3. failed = None
    BY <2>1, <2>2 DEF MainInv
  <2>4. \A i \in 1..Len(lines) : OwnLine(i)'
    BY <2>1, <2>2, <2>3, SameOwnLine DEF OwnInv
  <2> QED
    BY <2>1, <2>2, <2>4 DEF OwnInv
<1>4. CASE Killed \/ (ended # None /\ Repair /\ UNCHANGED << server, main >>)
  BY <1>4, ExamplesAssumption DEF Killed, main
<1>5. ASSUME NEW t \in Threads, ThreadNext(t), UNCHANGED << server, main >> PROVE OwnInv'
  BY <1>5, OwnThread
<1>6. ASSUME NEW t \in Threads, Step(t) PROVE OwnInv'
  BY <1>6, OwnServe
<1>7. ASSUME NEW t \in Threads, Handled(t) PROVE OwnInv'
  BY <1>7, OwnHandled
<1>8. ASSUME NEW t \in Threads, Close(t) PROVE OwnInv'
  <2>1. /\ block = "with" /\ block' = "closing"
        /\ UNCHANGED << lines, next_sequence, serving, request, ran >>
        /\ UNCHANGED << script, phase, step, failed, ended, fresh >>
    BY <1>8 DEF Close, CloseStart, file, instance, server
  <2>2. Served' = Served /\ Whole' = Whole
    BY <2>1, SameServed
  <2>3. \A i : OwnLine(i) => OwnLine(i)'
    BY <2>1, SameOwnLine
  <2> QED
    BY <2>1, <2>2, <2>3 DEF OwnInv
<1>9. ASSUME NEW t \in Threads, Closed(t) PROVE OwnInv'
  <2>1. /\ block = "closing" /\ block' = "outside" /\ failed = None /\ fresh /\ ended = None
        /\ UNCHANGED << lines, request, ran, script >>
        /\ \A u \in Threads : serving'[u] = NoCall
    BY <1>9 DEF Closed, Exit, Dropped, file, MainInv
  <2>2. \A u \in Threads : serving[u] = NoCall
    BY <2>1 DEF MainInv
  <2>3. \A i \in 1..Len(lines) : OwnLine(i)
    BY <2>1 DEF OwnInv, CountInv
  <2>4. \A i \in 1..Len(lines) : OwnLine(i)'
    BY <2>1, <2>2, <2>3, AllAnswered
  <2> QED
    BY <2>1, <2>4 DEF OwnInv
<1> QED
  BY <1>1, <1>2, <1>3, <1>4, <1>5, <1>6, <1>7, <1>8, <1>9 DEF MainNext

-----------------------------------------------------------------------------
(* How a script ends *)

\* A log that ends in a whole line is not repaired.
LEMMA ChainIsResumable ==
    ASSUME ServerInv, SafeInv, tail = << >>
    PROVE  Resumable
<1>1. ChainedUnder(Key, lines) /\ TypeOK
  BY DEF ServerInv, WriterInv, KeepInv, ChainInv, TypeInv, Chained, SafeInv
<1>2. ASSUME lines # << >> PROVE Parses(lines[Len(lines)])
  <2>1. Len(lines) \in 1..Len(lines)
    BY <1>1, <1>2, EmptySeq, LenProperties DEF TypeOK
  <2> QED
    BY <1>1, <2>1 DEF ChainedUnder
<1> QED
  BY <1>2 DEF Resumable

\* What a script that closes its log without an exception has counted.
LEMMA ClosedCount ==
    ASSUME ServerInv, MainInv, SafeInv, CountInv, block = "closing", failed = None
    PROVE  /\ ended = None /\ tail = << >> /\ next_sequence = Len(lines)
           /\ fresh => Len(lines) = Expected(phase)
           /\ ~fresh => Len(lines) > Expected(phase)
           /\ Expected(Len(script)) = Len(Whole) /\ Len(Whole) \in Nat
           /\ ChainedUnder(Key, lines)
<1>1. ended = None /\ step > Len(script[phase])
  BY DEF MainInv
<1>2. /\ Counts(next_sequence, Served) /\ next_sequence = Len(lines) /\ tail = << >>
  BY <1>1 DEF CountInv
<1>3. /\ step \in Nat /\ Len(script[phase]) \in Nat /\ step <= Len(script[phase]) + 1
      /\ step = Len(script[phase]) + 1 => Served = Expected(phase)
      /\ Expected(Len(script)) = Len(Whole) /\ Len(Whole) \in Nat
  BY <1>1, ServedType
<1>4. Served = Expected(phase)
  BY <1>1, <1>3
<1>5. ChainedUnder(Key, lines)
  BY DEF ServerInv, WriterInv, KeepInv, ChainInv, Chained, SafeInv
<1> QED
  BY <1>1, <1>2, <1>3, <1>4, <1>5 DEF Counts

LEMMA EndStep ==
    ServerInv /\ MainInv /\ SafeInv /\ CountInv /\ OwnInv /\ EndInv /\ [MainNext]_scriptVars
    => EndInv'
<1> SUFFICES ASSUME ServerInv, MainInv, SafeInv, CountInv, OwnInv, EndInv, [MainNext]_scriptVars
             PROVE  EndInv'
  OBVIOUS
<1>a. ASSUME UNCHANGED << ended, fresh >>, ended = None, failed' = "assertion" => ~fresh PROVE EndInv'
  BY <1>a, ExamplesAssumption DEF EndInv, OkMeansComplete
<1>b. ASSUME ended' \in {None, "killed", "error"}, UNCHANGED << failed, fresh >> PROVE EndInv'
  BY <1>b, ExamplesAssumption DEF EndInv, OkMeansComplete
<1>1. CASE UNCHANGED scriptVars
  BY <1>1 DEF scriptVars, serverVars, server, main, vars, file, instance,
              EndInv, OkMeansComplete, Whole
<1>2. ASSUME NEW s \in Scripts, Begin(s) PROVE EndInv'
  BY <1>2, ExamplesAssumption DEF Begin, EndInv, OkMeansComplete
<1>3. CASE Open
  <2>1. /\ ended = None /\ block = "outside" /\ UNCHANGED << fresh, phase, script >>
        /\ failed = None /\ step = 1
    BY <1>3 DEF Open, MainInv
  <2>2. CASE ~Resumable
    BY <1>3, <1>b, <2>1, <2>2 DEF Open
  <2>3. CASE Resumable
    <3>1. /\ UNCHANGED ended
          /\ failed' = IF phase = 1 \/ next_sequence' = Expected(phase - 1) THEN None ELSE "assertion"
      BY <1>3, <2>3 DEF Open
    <3>2. next_sequence' = Len(lines) /\ tail = << >>
      BY <1>3, <2>3, OpenedMemory DEF Resumable
    <3>3. fresh => Len(lines) = Served
      BY <2>1, <3>2 DEF CountInv, Counts
    <3>4. Served = Expected(phase - 1)
      BY <2>1, ServedType DEF Served, Before
    <3> QED
      BY <1>a, <2>1, <3>1, <3>2, <3>3, <3>4, ExamplesAssumption
  <2> QED
    BY <2>2, <2>3
<1>4. CASE Killed
  BY <1>4, <1>b DEF Killed
<1>5. CASE ended # None /\ Repair /\ UNCHANGED << server, main >>
  <2>1. ended = "ok" => script = None
    BY <1>5, ChainIsResumable DEF EndInv, Repair
  <2> QED
    BY <1>5, <2>1 DEF EndInv, OkMeansComplete, main
<1>6. ASSUME NEW t \in Threads,
             (ThreadNext(t) /\ UNCHANGED << server, main >>) \/ Step(t) \/ Handled(t) \/ Close(t)
      PROVE EndInv'
  <2>1. UNCHANGED << ended, fresh >> /\ failed' \in {failed, "error"}
    BY <1>6 DEF main, Step, Handled, Close
  <2>2. ended = None
    <3>1. CASE ThreadNext(t)
      <4>1. TypeOK /\ Control
        BY DEF ServerInv, WriterInv, KeepInv, ChainInv, TypeInv
      <4>2. live
        BY <3>1, <4>1, ThreadSteps, NoneRunning DEF InRecord, RecordHolding, Closing
      <4> QED
        BY <4>2 DEF MainInv
    <3>2. CASE Step(t) \/ Close(t)
      BY <3>2 DEF Step, Close, MainInv
    <3>3. CASE Handled(t)
      <4>1. serving[t] # NoCall
        BY <3>3 DEF Handled, RunBody, ReplyResult, ReplyDenied, ReplyRecorded, ReplyError, Back
      <4> QED
        BY <4>1 DEF MainInv
    <3> QED
      BY <1>6, <3>1, <3>2, <3>3
  <2> QED
    BY <1>a, <2>1, <2>2 DEF EndInv
<1>7. ASSUME NEW t \in Threads, Closed(t) PROVE EndInv'
  <2>1. /\ block = "closing" /\ block' = "outside"
        /\ UNCHANGED << lines, tail, request, ran, script, failed, fresh >>
    BY <1>7 DEF Closed, Exit, Dropped, file
  <2> DEFINE asserted == Len(script) > 1 => next_sequence = Expected(phase)
             read     == IF tail = << >> THEN lines ELSE Append(lines, tail)
             over     == phase = Len(script)
  <2>2. ended' = IF failed # None THEN failed
                 ELSE IF ~asserted \/ (over /\ ~Verified(read)) THEN "assertion"
                 ELSE IF over THEN "ok" ELSE None
    BY <1>7 DEF Closed
  <2>3. CASE failed # None
    <3>1. ended' = failed /\ failed \in {"assertion", "error"}
      BY <2>2, <2>3 DEF MainInv
    <3> QED
      BY <2>1, <3>1, ExamplesAssumption DEF EndInv, OkMeansComplete
  <2>4. CASE failed = None
    <3>1. /\ tail = << >> /\ next_sequence = Len(lines) /\ ended = None
          /\ fresh => Len(lines) = Expected(phase)
          /\ ~fresh => Len(lines) > Expected(phase)
          /\ Expected(Len(script)) = Len(Whole) /\ Len(Whole) \in Nat
          /\ ChainedUnder(Key, lines)
      BY <2>1, <2>4, ClosedCount
    <3>2. read = lines
      BY <3>1
    <3> HIDE DEF read
    <3>3. fresh => asserted /\ (over => Verified(read))
      BY <3>1, <3>2 DEF Verified
    <3>4. ended' \in {"assertion", "ok", None} /\ (ended' = "assertion" => ~fresh)
      BY <2>2, <2>4, <3>3, ExamplesAssumption
    <3>5. ASSUME ended' = "ok"
          PROVE  /\ Len(lines) = Len(Whole)
                 /\ \A i \in 1..Len(lines) :
                      /\ request[EventOf(lines[i]).call] = Whole[i]
                      /\ Runs(Whole[i]) <=> EventOf(lines[i]).call \in ran
      <4>1. over /\ Verified(read)
        BY <2>2, <2>4, <3>5, ExamplesAssumption
      <4>2. Len(lines) = Len(Whole)
        BY <3>2, <4>1 DEF Verified
      <4>3. fresh
        BY <3>1, <4>1, <4>2
      <4>4. \A u \in Threads : serving[u] = NoCall
        BY <2>1 DEF MainInv
      <4>5. \A i \in 1..Len(lines) : OwnLine(i)
        BY <2>1, <2>4, <3>1, <4>3 DEF OwnInv
      <4> QED
        BY <2>1, <4>2, <4>4, <4>5, AllAnswered
    <3>6. (ended = "ok" /\ script # None /\ ~live => /\ Len(lines) = Len(Whole)
              /\ \A i \in 1..Len(lines) :
                   /\ request[EventOf(lines[i]).call] = Whole[i]
                   /\ Runs(Whole[i]) <=> EventOf(lines[i]).call \in ran)'
      BY <2>1, <3>5 DEF Whole
    <3> QED
      BY <2>1, <2>4, <3>1, <3>4, <3>6, ExamplesAssumption DEF EndInv, OkMeansComplete
  <2> QED
    BY <2>3, <2>4
<1> QED
  BY <1>1, <1>2, <1>3, <1>4, <1>5, <1>6, <1>7 DEF MainNext

-----------------------------------------------------------------------------
(* Theorems *)

LEMMA ScriptInvariants == MainSpec => [](ServerInv /\ ScriptInv)
<1>1. MainInit => ServerInv /\ ScriptInv
  BY ServerInvInit, ScriptInit
<1>2. ServerInv /\ ScriptInv /\ [MainNext]_scriptVars => (ServerInv /\ ScriptInv)'
  BY ServerInvStep, MainStep, SafeStep, CountStep, OwnStep, EndStep DEF ScriptInv
<1> QED
  BY <1>1, <1>2, PTL DEF MainSpec, scriptVars

\* On a log of its own no assertion of a script fails, for scripts of any
\* length: the second phase starts where the first one ended, and verify()
\* counts every request (the asserts of examples/audit_singleton.py and of the
\* other scripts).
THEOREM AssertionsAlwaysHold == MainSpec => []AssertionsHold
<1>1. ScriptInv => AssertionsHold
  BY DEF ScriptInv, EndInv, AssertionsHold
<1> QED
  BY <1>1, ScriptInvariants, PTL

\* A script that ends in "OK" leaves a log with one line per request, in the
\* order of the script, and each tool ran exactly when its line allows it.
THEOREM OkAlwaysMeansComplete == MainSpec => []OkMeansComplete
<1>1. ScriptInv => OkMeansComplete
  BY DEF ScriptInv, EndInv
<1> QED
  BY <1>1, ScriptInvariants, PTL

\* The log of scripts is one chain under their key whatever fails under them and
\* however often they are run: an exception of record() leaves the with
\* statement, and nothing is appended behind a failed append.
THEOREM ScriptsAlwaysKeepTheChain == MainSpec => []ScriptsKeepTheChain
<1>1. ServerInv /\ ScriptInv => ScriptsKeepTheChain
  BY DEF ServerInv, WriterInv, KeepInv, ChainInv, Chained, ScriptInv, SafeInv, ScriptsKeepTheChain
<1> QED
  BY <1>1, ScriptInvariants, PTL
=============================================================================
