---------------------------- MODULE LiveLogProofs -----------------------------
(***************************************************************************)
(* Proofs about LiveLog: what verify() and the next constructor make of    *)
(* the bytes a writer leaves.  They rest on what is proved of the writer:  *)
(* the chain of complete lines, the one line that is under way, and the    *)
(* calls that returned.                                                    *)
(***************************************************************************)
EXTENDS LiveLog, AuditLogCallProofs

-----------------------------------------------------------------------------
(* The bytes, as they are read *)

Parts == Reader!_split_byte_lines(FileAsRead)

\* Line i is the one the writer's key puts there.
Fits(parts, i) ==
    /\ parts[i].kind = "object"
    /\ \E c \in Calls :
         parts[i].event =
           MakeEvent(Key, i - 1, c, IF i = 1 THEN Genesis ELSE parts[i - 1].event.current_hash)

\* Text that is one event in full is read as that event, any other is not read.
LEMMA ReadText ==
    ASSUME NEW text \in Seq(Cell)
    PROVE  IF Parses(text)
             THEN AsRead(text) = [kind |-> "object", event |-> EventOf(text), spelling |-> "canonical"]
             ELSE AsRead(text) = [kind |-> IF text = << >> THEN "blank" ELSE "not_json"]
BY DEF AsRead, Raw!Object, Raw!Broken

LEMMA ReadTail ==
    ASSUME NEW text \in Seq(Cell)
    PROVE  AsRead(text) # NoTail
<1>1. CASE Parses(text)
  <2>1. text[1] \in Cell
    <3>1. 1 \in 1..Len(text)
      BY <1>1, LineCellsAssumption DEF Parses
    <3> QED
      BY <3>1, ElementOfSeq
  <2>2. EventOf(text) \in AuditEvent
    BY <2>1 DEF Cell, EventOf
  <2>3. AsRead(text) = [kind |-> "object", event |-> EventOf(text), spelling |-> "canonical"]
    BY <1>1, ReadText
  <2>4. AsRead(text) \in [kind : {"object"}, event : AuditEvent, spelling : {"canonical"}]
    BY <2>2, <2>3
  <2> QED
    BY <2>4, LiveLogAssumption
<1>2. CASE ~Parses(text)
  <2>1. AsRead(text) \in [kind : Raw!Unreadable]
    BY <1>2, ReadText DEF Raw!Unreadable
  <2> QED
    BY <2>1, LiveLogAssumption
<1> QED
  BY <1>1, <1>2

\* The lines of the file in their order, and behind them what has no newline.
LEMMA PartsAre ==
    ASSUME TypeOK
    PROVE  /\ Len(lines) \in Nat
           /\ Len(Parts) = IF tail = << >> THEN Len(lines) ELSE Len(lines) + 1
           /\ \A i \in 1..Len(lines) : Parts[i] = AsRead(lines[i])
           /\ tail # << >> => Parts[Len(lines) + 1] = AsRead(tail)
<1> DEFINE n == Len(lines)
           read == [i \in 1..n |-> AsRead(lines[i])]
           Texts == {AsRead(lines[i]) : i \in 1..n} \cup {AsRead(tail)}
<1>1. n \in Nat /\ tail \in Seq(Cell) /\ AsRead(tail) # NoTail
  BY ReadTail, LenProperties DEF TypeOK
<1>2. read \in Seq(Texts) /\ Len(read) = n /\ \A i \in 1..n : read[i] = AsRead(lines[i])
  <2>1. \A i \in 1..n : read[i] \in Texts
    OBVIOUS
  <2> HIDE DEF Texts
  <2>2. read \in [1..n -> Texts]
    BY <2>1
  <2>3. read \in Seq(Texts)
    BY <1>1, <2>2, SeqDef
  <2>4. Len(read) = n
    BY <1>1, <2>2, <2>3, LenProperties
  <2> QED
    BY <2>3, <2>4
<1> HIDE DEF read
<1>3. /\ FileAsRead.lines = read
      /\ FileAsRead.tail = IF tail = << >> THEN NoTail ELSE AsRead(tail)
  BY DEF FileAsRead, read
<1>4. CASE tail = << >>
  <2>1. Parts = read
    BY <1>3, <1>4 DEF Parts, Reader!_split_byte_lines
  <2> QED
    BY <1>1, <1>2, <1>4, <2>1
<1>5. CASE tail # << >>
  <2>1. Parts = Append(read, AsRead(tail))
    BY <1>1, <1>3, <1>5 DEF Parts, Reader!_split_byte_lines
  <2>2. /\ Len(Append(read, AsRead(tail))) = n + 1
        /\ \A i \in 1..n : Append(read, AsRead(tail))[i] = read[i]
        /\ Append(read, AsRead(tail))[n + 1] = AsRead(tail)
    <3>1. AsRead(tail) \in Texts
      OBVIOUS
    <3> HIDE DEF Texts, n
    <3> QED
      BY <1>2, <3>1, AppendProperties
  <2> QED
    BY <1>1, <1>2, <1>5, <2>1, <2>2
<1> QED
  BY <1>4, <1>5

\* Every part is the next line of the chain, but for torn text at the very end.
LEMMA PartsFit ==
    ASSUME TypeOK, ChainedUnder(Key, lines), StreamInv, NEW i \in 1..Len(Parts)
    PROVE  \/ Fits(Parts, i)
           \/ i = Len(lines) + 1 /\ tail # << >> /\ Parts[i].kind = "not_json"
<1> DEFINE n == Len(lines)
<1>1. /\ n \in Nat
      /\ Len(Parts) = IF tail = << >> THEN n ELSE n + 1
      /\ \A j \in 1..n : Parts[j] = AsRead(lines[j])
      /\ tail # << >> => Parts[n + 1] = AsRead(tail)
  BY PartsAre
<1>2. ASSUME NEW j \in 1..n
      PROVE  /\ lines[j] \in Seq(Cell)
             /\ Parses(lines[j])
             /\ Parts[j].kind = "object" /\ Parts[j].event = EventOf(lines[j])
             /\ EventOf(lines[j]).call \in Calls
  <2>1. lines[j] \in Seq(Cell) /\ Parses(lines[j])
    BY ElementOfSeq DEF TypeOK, ChainedUnder
  <2>2. lines[j][1] \in Cell
    <3>1. 1 \in 1..Len(lines[j])
      BY <2>1, LineCellsAssumption DEF Parses
    <3> QED
      BY <2>1, <3>1, ElementOfSeq
  <2>3. Parts[j] = [kind |-> "object", event |-> EventOf(lines[j]), spelling |-> "canonical"]
    BY <1>1, <2>1, ReadText
  <2> QED
    BY <2>1, <2>2, <2>3 DEF Cell, EventOf, AuditEvent
<1>3. CASE i \in 1..n
  <2>1. EventOf(lines[i]) =
          MakeEvent(Key, i - 1, EventOf(lines[i]).call,
                    IF i = 1 THEN Genesis ELSE EventOf(lines[i - 1]).current_hash)
    BY <1>3 DEF ChainedUnder
  <2>2. i # 1 => i - 1 \in 1..n
    BY <1>1, <1>3
  <2>3. (IF i = 1 THEN Genesis ELSE EventOf(lines[i - 1]).current_hash)
          = IF i = 1 THEN Genesis ELSE Parts[i - 1].event.current_hash
    BY <1>2, <2>2
  <2> QED
    BY <1>2, <1>3, <2>1, <2>3 DEF Fits
<1>4. CASE i \notin 1..n
  <2>1. i = n + 1 /\ tail # << >> /\ Parts[i] = AsRead(tail) /\ tail \in Seq(Cell)
    BY <1>1, <1>4 DEF TypeOK
  <2>2. CASE ~Parses(tail)
    BY <2>1, <2>2, ReadText
  <2>3. CASE Parses(tail)
    <3>1. Parts[i].kind = "object" /\ Parts[i].event = EventOf(tail)
      BY <2>1, <2>3, ReadText
    <3>2. PICK c \in Calls : Streaming(NextEvent(c), tail, buf, pending)
      BY <2>1 DEF StreamInv, Quiet
    <3>3. EventOf(tail) = NextEvent(c)
      <4>1. 1 \in 1..Len(tail)
        BY <2>3, LineCellsAssumption DEF Parses
      <4>2. tail[1] = [event |-> NextEvent(c), part |-> 1]
        <5> HIDE DEF NextEvent
        <5> QED
          BY <3>2, <4>1 DEF Streaming
      <4> HIDE DEF NextEvent
      <4> QED
        BY <4>2 DEF EventOf
    <3>4. ChainHead(lines) = IF i = 1 THEN Genesis ELSE Parts[i - 1].event.current_hash
      <4>1. lines = << >> <=> n = 0
        BY EmptySeq DEF TypeOK
      <4>2. n # 0 => n \in 1..n /\ i - 1 = n
        BY <1>1, <2>1
      <4> QED
        BY <1>1, <1>2, <2>1, <4>1, <4>2 DEF ChainHead
    <3>5. i - 1 = n
      BY <1>1, <2>1
    <3> QED
      BY <3>1, <3>2, <3>3, <3>4, <3>5 DEF Fits, NextEvent
  <2> QED
    BY <2>2, <2>3
<1> QED
  BY <1>3, <1>4

-----------------------------------------------------------------------------
(* The reader *)

\* What is proved of the writer in AuditLogCallProofs.
WriterInv == KeepInv /\ Kept

HashAfter(parts, n) == IF n = 0 THEN Genesis ELSE parts[n].event.current_hash

\* All of it passes, or all but a torn line at the very end.
TailVerdict ==
    IF result.ok
      THEN idx = Len(byte_lines) /\ result.entries_checked = idx
      ELSE /\ tail # << >>
           /\ result.failure.kind = "parse_error"
           /\ result.failure.line = Len(lines) + 1
           /\ result.entries_checked = Len(lines)

ReadingInv ==
    /\ stage = "before" => idx = 0 /\ expected_seq = 0 /\ prev_hash = Genesis
    /\ stage # "before" => key = Key /\ byte_lines = Parts
    /\ stage # "before" /\ ~spoiled =>
         /\ stage \in {"loop", "returned"}
         /\ idx \in 0..Len(Parts)
         /\ expected_seq = idx
         /\ prev_hash = HashAfter(byte_lines, idx)
         /\ stage = "returned" => TailVerdict

\* A line of the chain passes, whichever of the checks looks at it.
LEMMA FitPasses ==
    ASSUME ReadingInv, stage = "loop", ~spoiled, Reader!VerifyNext,
           idx < Len(Parts), Fits(Parts, idx + 1)
    PROVE  /\ stage' = "loop" /\ idx' = idx + 1 /\ expected_seq' = expected_seq + 1
           /\ prev_hash' = HashAfter(byte_lines, idx + 1)
           /\ UNCHANGED << key, byte_lines >>
<1>1. /\ idx \in Nat /\ idx + 1 - 1 = idx /\ (idx + 1 = 1 <=> idx = 0)
      /\ expected_seq = idx /\ key = Key /\ byte_lines = Parts
      /\ prev_hash = HashAfter(Parts, idx)
  BY DEF ReadingInv
<1>2. PICK c \in Calls : Parts[idx + 1].event = MakeEvent(Key, idx, c, HashAfter(Parts, idx))
  BY <1>1 DEF Fits, HashAfter
<1> DEFINE e == Reader!event
<1>3. Reader!raw.kind = "object" /\ e = MakeEvent(Key, idx, c, prev_hash)
  BY <1>1, <1>2 DEF Fits, Reader!raw, Reader!event
<1>4. /\ DOMAIN e = Reader!RequiredKeys
      /\ e.sequence_number = idx /\ e.call = c /\ e.previous_hash = prev_hash
      /\ e.current_hash = Append(prev_hash, [key |-> Key, sequence_number |-> idx, call |-> c])
  BY <1>3 DEF MakeEvent, compute_current_hash, Reader!RequiredKeys
<1> HIDE DEF e
<1>5. /\ Reader!IsCanonical(Reader!payload)
      /\ Reader!compute_current_hash(key, Reader!payload) = e.current_hash
  BY <1>1, <1>4, LiveLogAssumption DEF Reader!payload, Reader!IsCanonical, Reader!compute_current_hash,
                                       Reader!RequiredKeys, e
<1>6. Reader!LinePasses
  <2>1. ~Reader!ParseError /\ ~Reader!LoadsRaises /\ ~Reader!AllPassed
    BY <1>1, <1>3 DEF Reader!ParseError, Reader!LoadsRaises, Reader!AllPassed, Reader!Unreadable
  <2>2. ~Reader!UnexpectedField /\ ~Reader!MissingField
    BY <1>4 DEF Reader!UnexpectedField, Reader!MissingField, e
  <2>3. ~Reader!SequenceGap /\ ~Reader!ChainBreak /\ ~Reader!ContentTampered
    BY <1>1, <1>4, <1>5 DEF Reader!SequenceGap, Reader!ChainBreak, Reader!ContentTampered,
                            Reader!AtSequence, Reader!AtLink, e
  <2> QED
    BY <2>1, <2>2, <2>3 DEF Reader!VerifyNext
<1>7. /\ stage' = stage /\ idx' = idx + 1 /\ expected_seq' = e.sequence_number + 1
      /\ prev_hash' = e.current_hash /\ UNCHANGED << key, byte_lines >>
  BY <1>6 DEF Reader!LinePasses, e
<1>8. HashAfter(byte_lines, idx + 1) = e.current_hash
  BY <1>1 DEF HashAfter, e, Reader!event, Reader!raw
<1> QED
  BY <1>1, <1>4, <1>7, <1>8

\* Torn text at the end is a parse error.
LEMMA TornFails ==
    ASSUME ReadingInv, TypeOK, stage = "loop", ~spoiled, Reader!VerifyNext, idx < Len(Parts),
           idx = Len(lines), tail # << >>, Parts[idx + 1].kind = "not_json", UNCHANGED vars
    PROVE  /\ stage' = "returned" /\ UNCHANGED << idx, expected_seq, prev_hash, key, byte_lines >>
           /\ TailVerdict'
<1>1. idx \in Nat /\ expected_seq = idx /\ byte_lines = Parts
  BY DEF ReadingInv
<1>2. Reader!raw.kind = "not_json"
  BY <1>1 DEF Reader!raw
<1>3. Reader!ParseError
  BY <1>1, <1>2 DEF Reader!VerifyNext, Reader!LoadsRaises, Reader!UnexpectedField, Reader!MissingField,
                    Reader!SequenceGap, Reader!ChainBreak, Reader!ContentTampered, Reader!LinePasses,
                    Reader!AllPassed, Reader!AtLink, Reader!AtSequence, Reader!AtEvent, Reader!AtObject
<1>4. /\ stage' = "returned" /\ UNCHANGED << idx, expected_seq, prev_hash, key, byte_lines >>
      /\ result' = [ok |-> FALSE, entries_checked |-> idx,
                    failure |-> [line |-> idx + 1, sequence_number |-> None, kind |-> "parse_error"]]
  BY <1>1, <1>3 DEF Reader!ParseError, Reader!Fail
<1>5. lines' = lines /\ tail' = tail
  BY DEF vars, file
<1> QED
  BY <1>1, <1>4, <1>5 DEF TailVerdict

LEMMA PartsStay ==
    ASSUME UNCHANGED vars
    PROVE  Parts' = Parts /\ spoiled' = spoiled
<1>1. lines' = lines /\ tail' = tail /\ spoiled' = spoiled
  BY DEF vars, file, history
<1> QED
  BY <1>1 DEF Parts, FileAsRead, Reader!_split_byte_lines, AsRead

LEMMA ReadingInit == LiveInit => ReadingInv
BY DEF LiveInit, Reader!VerifyInit, ReadingInv, Reader!Genesis, Genesis

LEMMA ReadingStep == WriterInv /\ ReadingInv /\ [LiveNext]_<< vars, reader >> => ReadingInv'
<1> SUFFICES ASSUME WriterInv, ReadingInv, [LiveNext]_<< vars, reader >> PROVE ReadingInv'
  OBVIOUS
<1>1. TypeOK /\ Chained
  BY DEF WriterInv, KeepInv, ChainInv, TypeInv
<1>2. CASE stage = "before" /\ UNCHANGED reader
  BY <1>2 DEF ReadingInv, reader
<1>3. CASE UNCHANGED vars /\ Reader!VerifyStart(Key, "unset")
  <2>1. Key # None /\ Key \in Keys
    BY LiveLogAssumption, AuditLogAssumption
  <2>2. /\ stage = "before" /\ stage' = "loop" /\ key' = Key /\ byte_lines' = Parts
        /\ UNCHANGED << idx, prev_hash, expected_seq >>
    BY <1>3, <2>1 DEF Reader!VerifyStart, Reader!resolve_key, Parts
  <2>3. Parts' = Parts /\ Len(Parts) \in Nat
    BY <1>1, <1>3, PartsStay, PartsAre
  <2> QED
    BY <2>2, <2>3 DEF ReadingInv, HashAfter
<1>4. CASE UNCHANGED vars /\ Reader!VerifyNext
  <2>1. /\ stage = "loop" /\ Parts' = Parts /\ spoiled' = spoiled
        /\ UNCHANGED << key, byte_lines >> /\ stage' # "before"
    BY <1>4, PartsStay DEF Reader!VerifyNext, Reader!ParseError, Reader!LoadsRaises,
         Reader!UnexpectedField, Reader!MissingField, Reader!SequenceGap, Reader!ChainBreak,
         Reader!ContentTampered, Reader!LinePasses, Reader!AllPassed, Reader!AtLink, Reader!AtSequence,
         Reader!AtEvent, Reader!AtObject, Reader!AtLine, Reader!Fail, Reader!Raise
  <2>2. CASE spoiled
    BY <2>1, <2>2 DEF ReadingInv
  <2>3. CASE ~spoiled /\ idx < Len(Parts)
    <3>1. idx \in Nat /\ idx + 1 \in 1..Len(Parts) /\ Len(lines) \in Nat
      BY <1>1, <2>1, <2>3, PartsAre DEF ReadingInv
    <3>2. CASE Fits(Parts, idx + 1)
      <4>1. /\ stage' = "loop" /\ idx' = idx + 1 /\ expected_seq' = expected_seq + 1
            /\ prev_hash' = HashAfter(byte_lines, idx + 1)
        BY <1>4, <2>1, <2>3, <3>2, FitPasses
      <4> QED
        BY <2>1, <2>3, <3>1, <4>1 DEF ReadingInv, HashAfter
    <3>3. CASE idx + 1 = Len(lines) + 1 /\ tail # << >> /\ Parts[idx + 1].kind = "not_json"
      <4>1. idx = Len(lines)
        BY <3>1, <3>3
      <4>2. /\ stage' = "returned" /\ UNCHANGED << idx, expected_seq, prev_hash >> /\ TailVerdict'
        BY <1>1, <1>4, <2>1, <2>3, <3>3, <4>1, TornFails
      <4> QED
        BY <2>1, <2>3, <4>2 DEF ReadingInv, HashAfter
    <3> QED
      BY <1>1, <2>3, <3>1, <3>2, <3>3, PartsFit DEF Chained
  <2>4. CASE ~spoiled /\ idx >= Len(Parts)
    <3>1. idx = Len(Parts) /\ byte_lines = Parts /\ expected_seq = idx
      BY <1>1, <2>1, <2>4, PartsAre DEF ReadingInv
    <3>2. Reader!AllPassed
      BY <1>4, <3>1 DEF Reader!VerifyNext, Reader!ParseError, Reader!LoadsRaises,
         Reader!UnexpectedField, Reader!MissingField, Reader!SequenceGap, Reader!ChainBreak,
         Reader!ContentTampered, Reader!LinePasses, Reader!AtLink, Reader!AtSequence, Reader!AtEvent,
         Reader!AtObject, Reader!AtLine
    <3>3. /\ stage' = "returned" /\ UNCHANGED << idx, expected_seq, prev_hash >>
          /\ result' = [ok |-> TRUE, entries_checked |-> idx, failure |-> None]
      BY <3>1, <3>2 DEF Reader!AllPassed
    <3>4. TailVerdict'
      BY <2>1, <3>1, <3>3 DEF TailVerdict
    <3> QED
      BY <2>1, <2>4, <3>3, <3>4 DEF ReadingInv, HashAfter
  <2> QED
    BY <1>1, <2>1, <2>2, <2>3, <2>4, PartsAre DEF ReadingInv
<1>5. CASE UNCHANGED << vars, reader >>
  <2>1. Parts' = Parts /\ spoiled' = spoiled /\ UNCHANGED reader /\ lines' = lines /\ tail' = tail
    BY <1>5, PartsStay DEF vars, file
  <2> QED
    BY <2>1 DEF ReadingInv, reader, HashAfter, TailVerdict
<1> QED
  BY <1>2, <1>3, <1>4, <1>5 DEF LiveNext

LEMMA WriterInit == LiveInit => WriterInv
BY KeepInit, KeptInit DEF LiveInit, WriterInv

LEMMA WriterStep == WriterInv /\ [LiveNext]_<< vars, reader >> => WriterInv'
<1>1. [LiveNext]_<< vars, reader >> => [Next]_vars
  BY DEF LiveNext
<1> QED
  BY <1>1, KeepStep, KeptStep DEF WriterInv

LEMMA LiveInvariants == LiveSpec => [](WriterInv /\ ReadingInv)
BY WriterInit, WriterStep, ReadingInit, ReadingStep, PTL DEF LiveSpec

-----------------------------------------------------------------------------
(* Theorems *)

\* verify() passes every complete line the library wrote, and all it can report is
\* text at the very end that is still being written or was torn (record() and the
\* checks of verify.py).
THEOREM OnlyTheTailEverFails == LiveSpec => []OnlyTheTailFails
<1>1. ReadingInv => OnlyTheTailFails
  BY DEF ReadingInv, TailVerdict, OnlyTheTailFails
<1> QED
  BY <1>1, LiveInvariants, PTL

\* What record() returned before verify() read the file is among the entries its
\* verdict counts.
THEOREM AckedAreAlwaysVerified == LiveSpec => []AckedAreVerified
<1>1. WriterInv /\ ReadingInv => AckedAreVerified
  <2> SUFFICES ASSUME WriterInv, ReadingInv, stage = "returned", ~spoiled, powerLost => Fsync,
                      NEW c \in Calls, outcome[c] = "ok"
               PROVE  \E i \in 1..result.entries_checked : byte_lines[i].event.call = c
    BY DEF AckedAreVerified
  <2>1. PICK i \in LinesOf(c) : TRUE
    BY DEF WriterInv, Kept, OnFile
  <2>2. i \in 1..Len(lines) /\ Parses(lines[i]) /\ EventOf(lines[i]).call = c
    BY <2>1 DEF LinesOf
  <2>3. TypeOK /\ byte_lines = Parts /\ TailVerdict
    BY DEF WriterInv, KeepInv, ChainInv, TypeInv, ReadingInv
  <2>4. /\ Len(lines) \in Nat /\ Parts[i] = AsRead(lines[i])
        /\ Len(Parts) = Len(lines) \/ Len(Parts) = Len(lines) + 1
    BY <2>2, <2>3, PartsAre
  <2>5. byte_lines[i].event.call = c
    <3>1. lines[i] \in Seq(Cell)
      BY <2>2, <2>3, ElementOfSeq DEF TypeOK
    <3>2. Parts[i].event = EventOf(lines[i])
      BY <2>2, <2>4, <3>1, ReadText
    <3> QED
      BY <2>2, <2>3, <3>2
  <2>6. i \in 1..result.entries_checked
    BY <2>2, <2>3, <2>4 DEF TailVerdict
  <2> QED
    BY <2>5, <2>6
<1> QED
  BY <1>1, LiveInvariants, PTL

\* What the constructor makes of the last line (_load_resume_state, audit.py) is
\* what verify() has come to behind it, on every file a writer leaves.
THEOREM RestartAlwaysAgreesWithVerify == LiveSpec => []RestartAgreesWithVerify
<1>1. WriterInv /\ ReadingInv => RestartAgreesWithVerify
  <2> SUFFICES ASSUME WriterInv, ReadingInv, stage = "returned", ~spoiled
               PROVE  IF Resumable
                        THEN /\ result.ok
                             /\ _load_resume_state = ResumeState(result.entries_checked, prev_hash)
                        ELSE result.ok => result.entries_checked = Len(lines) + 1
    BY DEF RestartAgreesWithVerify
  <2> DEFINE n == Len(lines)
  <2>1. /\ TypeOK /\ ChainedUnder(Key, lines)
        /\ TailVerdict /\ byte_lines = Parts /\ prev_hash = HashAfter(Parts, idx)
    BY DEF WriterInv, KeepInv, ChainInv, TypeInv, Chained, ReadingInv
  <2>2. /\ n \in Nat
        /\ Len(Parts) = IF tail = << >> THEN n ELSE n + 1
        /\ \A i \in 1..n : Parts[i] = AsRead(lines[i])
    BY <2>1, PartsAre
  <2>3. CASE tail # << >>
    BY <2>1, <2>2, <2>3 DEF Resumable, TailVerdict
  <2>4. CASE tail = << >> /\ lines = << >>
    <3>1. n = 0 /\ Len(Parts) = 0
      BY <2>2, <2>4, EmptySeq
    <3>2. result.ok /\ result.entries_checked = 0 /\ idx = 0
      BY <2>1, <2>4, <3>1 DEF TailVerdict
    <3>3. prev_hash = Genesis
      BY <2>1, <3>1, <3>2 DEF HashAfter
    <3> QED
      BY <2>4, <3>2, <3>3 DEF Resumable, _load_resume_state
  <2>5. CASE tail = << >> /\ lines # << >>
    <3>1. n \in 1..n /\ n # 0 /\ lines[n] \in Seq(Cell) /\ Len(Parts) = n
      BY <2>1, <2>2, <2>5, EmptySeq, ElementOfSeq DEF TypeOK
    <3>2. result.ok /\ result.entries_checked = n /\ idx = n
      BY <2>1, <2>5, <3>1 DEF TailVerdict
    <3>3. /\ Parses(lines[n])
          /\ \E h : EventOf(lines[n]) = MakeEvent(Key, n - 1, EventOf(lines[n]).call, h)
      BY <2>1, <3>1 DEF ChainedUnder
    <3>4. EventOf(lines[n]).sequence_number + 1 = n
      BY <2>2, <3>3 DEF MakeEvent
    <3>5. Parts[n].event = EventOf(lines[n])
      BY <2>2, <3>1, <3>3, ReadText
    <3>6. prev_hash = EventOf(lines[n]).current_hash
      BY <2>1, <3>1, <3>2, <3>5 DEF HashAfter
    <3> QED
      BY <2>5, <3>2, <3>3, <3>4, <3>6 DEF Resumable, _load_resume_state, ResumeAfter
  <2> QED
    BY <2>3, <2>4, <2>5
<1> QED
  BY <1>1, LiveInvariants, PTL
===============================================================================
