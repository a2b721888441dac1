------------------------------ MODULE LiveLog -------------------------------
(***************************************************************************)
(* verify(), and the constructor of the next process, on the bytes a       *)
(* writer leaves: while record() is in the middle of a line, after I/O     *)
(* errors, crashes, power losses and repairs.  Composes AuditLog with      *)
(* Verify.                                                                 *)
(*                                                                         *)
(* verify() reads the file once.  Appends that go on while it reads are    *)
(* the same as a read a moment earlier or later, and what it computes      *)
(* depends on nothing else, so the writer stands still from the read to    *)
(* the verdict.                                                            *)
(***************************************************************************)
EXTENDS AuditLog

CONSTANTS NotInt, NotHash, NotCanonical, NoTail

VARIABLES stage, raised, key, byte_lines, idx, prev_hash, expected_seq, result

reader == << stage, raised, key, byte_lines, idx, prev_hash, expected_seq, result >>

\* Some of an event's text, or the texts of several, are no JSON.
Raw == INSTANCE RawLog
AsRead(text) ==
    IF Parses(text) THEN Raw!Object(EventOf(text))
    ELSE Raw!Broken(IF text = << >> THEN "blank" ELSE "not_json")

\* The values that are not what an event holds, and the absence of a tail.
ASSUME LiveLogAssumption ==
    /\ None \notin Keys
    /\ NotInt \notin Nat /\ NotHash \notin Hash /\ NotCanonical \notin Calls
    /\ NoTail \notin [kind : {"object"}, event : AuditEvent, spelling : {"canonical"}]
    /\ NoTail \notin [kind : Raw!Unreadable]

\* The writer's file in its readers' terms.
FileAsRead ==
    [lines |-> [i \in 1..Len(lines) |-> AsRead(lines[i])],
     tail  |-> IF tail = << >> THEN NoTail ELSE AsRead(tail)]

Reader == INSTANCE Verify WITH file <- FileAsRead, access <- "open"

LiveInit == Init /\ Reader!VerifyInit

LiveNext ==
    \/ stage = "before" /\ Next /\ UNCHANGED reader
    \/ UNCHANGED vars /\ Reader!VerifyStart(Key, "unset")
    \/ UNCHANGED vars /\ Reader!VerifyNext

LiveSpec == LiveInit /\ [][LiveNext]_<< vars, reader >>

-----------------------------------------------------------------------------
(* Properties *)

\* The library does not accuse anybody of what it did itself: on a log nobody
\* edited verify() passes every complete line, and all it can report is a line
\* at the very end that is still being written or was torn.  A log is excepted
\* once an instance appended behind a failed append.
OnlyTheTailFails ==
    stage = "returned" /\ ~spoiled =>
        IF result.ok
          THEN result.entries_checked = Len(byte_lines)
          ELSE /\ tail # << >>
               /\ result.failure.kind = "parse_error"
               /\ result.failure.line = Len(lines) + 1
               /\ result.entries_checked = Len(lines)

\* What record() returned before verify() read the file is among the entries
\* the verdict counts, also when that verdict is a torn line behind them.
AckedAreVerified ==
    stage = "returned" /\ ~spoiled /\ (powerLost => Fsync) =>
        \A c \in Calls : outcome[c] = "ok" =>
            \E i \in 1..result.entries_checked : byte_lines[i].event.call = c

\* The constructor, which reads the last line, and verify(), which reads them
\* all, agree on every file a writer leaves behind: a file the constructor takes
\* is accepted, and the next record() goes on from the number and the hash the
\* loop ended with; one that it refuses is accepted only when nothing but the
\* newline of its last line is missing.
RestartAgreesWithVerify ==
    stage = "returned" /\ ~spoiled =>
        IF Resumable
          THEN /\ result.ok
               /\ _load_resume_state = ResumeState(result.entries_checked, prev_hash)
          ELSE result.ok => result.entries_checked = Len(lines) + 1
=============================================================================
