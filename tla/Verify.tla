------------------------------ MODULE Verify --------------------------------
(***************************************************************************)
(* verify() of krono/verify.py: the key is resolved, the file is read at   *)
(* once, then one pass over its lines, six checks per line in a fixed      *)
(* order, the first violated check ends it.  One action per way a line can *)
(* end; the actions' guards follow the order of the checks.                *)
(***************************************************************************)
EXTENDS RawLog, ResolveKey

VARIABLES
    file,           \* [lines, tail]: the file on disk
    access,         \* what its path leads to
    stage,          \* "before", "loop", "returned" or "raised"
    raised,         \* the exception that left verify()
    key,            \* the key verify() uses
    byte_lines,     \* the lines it read
    idx,            \* lines that passed
    prev_hash, expected_seq,
    result          \* the VerifyResult

disk     == << file, access >>
verifier == << stage, raised, key, byte_lines, idx, prev_hash, expected_seq, result >>

\* No file; a file that may be read and written, only read, only written,
\* neither; or one behind a directory that may not be searched.
Access   == {"absent", "open", "read_only", "write_only", "denied", "unreachable"}
CanRead  == {"open", "read_only"}
CanWrite == {"open", "write_only", "absent"}

\* The types of results.py and exceptions.py.
FailureKind == {"parse_error", "missing_field", "unexpected_field",
                "sequence_gap", "chain_break", "content_tampered"}
VerifyFailure == [line : Nat \ {0}, sequence_number : Int \cup {None}, kind : FailureKind]
VerifyResult  == [ok : BOOLEAN, entries_checked : Nat, failure : VerifyFailure \cup {None}]
KronoError    == {"MissingKeyError", "ConfigError", "WriteError", "VerifyError"}
Exceptions    == KronoError \cup {"ValueError", "PermissionError"}

ASSUME VerifyAssumption == None \notin Exceptions \cup VerifyResult

VerifyInit ==
    /\ stage = "before"
    /\ raised = None
    /\ key = None
    /\ byte_lines = << >>
    /\ idx = 0
    /\ prev_hash = Genesis
    /\ expected_seq = 0
    /\ result = None

Raise(exception) ==
    /\ raised' = exception
    /\ stage' = "raised"
    /\ UNCHANGED << disk, key, byte_lines, idx, prev_hash, expected_seq, result >>

MissingKey(explicit, env) ==
    /\ stage = "before"
    /\ resolve_key(explicit, env) = None
    /\ Raise("MissingKeyError")

\* A bug: a file that is not there counts as an empty one.
LogUnavailableUnlessAbsent(explicit, env) ==
    /\ stage = "before"
    /\ resolve_key(explicit, env) # None
    /\ access \notin CanRead
    /\ IF access = "absent"
         THEN /\ result' = [ok |-> TRUE, entries_checked |-> 0, failure |-> None]
              /\ stage' = "returned"
              /\ UNCHANGED << disk, raised, key, byte_lines, idx, prev_hash, expected_seq >>
         ELSE Raise("ConfigError")

\* There is no file, or open() or read() fails.  Behind a directory that may
\* not be searched, exists() itself raises, outside the try statement.
LogUnavailable(explicit, env) ==
    /\ stage = "before"
    /\ resolve_key(explicit, env) # None
    /\ access \notin CanRead
    /\ Raise(IF access = "unreachable" THEN "PermissionError" ELSE "ConfigError")

\* verify(path, key=explicit): the file is read in one go.
VerifyStart(explicit, env) ==
    /\ stage = "before"
    /\ resolve_key(explicit, env) # None
    /\ access \in CanRead
    /\ stage' = "loop"
    /\ key' = resolve_key(explicit, env)
    /\ byte_lines' = _split_byte_lines(file)
    /\ UNCHANGED << disk, raised, idx, prev_hash, expected_seq, result >>

raw   == byte_lines[idx + 1]
event == raw.event

AtLine     == stage = "loop" /\ idx < Len(byte_lines)
AtObject   == AtLine /\ raw.kind = "object"
AtEvent    == AtObject /\ DOMAIN event = RequiredKeys

\* A bug: the hashes are looked at before the sequence number.
AtAnySequence == AtEvent

AtSequence == AtEvent /\ event.sequence_number = expected_seq
AtLink     == AtSequence /\ event.previous_hash = prev_hash

payload == [f \in RequiredKeys \ {"current_hash"} |-> event[f]]

\* A bug: the failing line is counted.
FailCounted(kind, sequence_number) ==
    /\ result' = [ok              |-> FALSE,
                  entries_checked |-> expected_seq + 1,
                  failure         |-> [line            |-> idx + 1,
                                       sequence_number |-> sequence_number,
                                       kind            |-> kind]]
    /\ stage' = "returned"
    /\ UNCHANGED << disk, raised, key, byte_lines, idx, prev_hash, expected_seq >>

\* The line fails: entries_checked counts the lines before it.
Fail(kind, sequence_number) ==
    /\ result' = [ok              |-> FALSE,
                  entries_checked |-> expected_seq,
                  failure         |-> [line            |-> idx + 1,
                                       sequence_number |-> sequence_number,
                                       kind            |-> kind]]
    /\ stage' = "returned"
    /\ UNCHANGED << disk, raised, key, byte_lines, idx, prev_hash, expected_seq >>

\* The sequence number a schema failure reports, when the line has one.
ParsedSequence ==
    IF "sequence_number" \notin DOMAIN event \/ event.sequence_number = NotInt
    THEN None
    ELSE event.sequence_number

ParseError ==
    /\ AtLine
    /\ raw.kind \in Unreadable \ {"huge_int"}
    /\ Fail("parse_error", None)

\* json.loads raises a ValueError that is no JSONDecodeError.
LoadsRaises ==
    /\ AtLine
    /\ raw.kind = "huge_int"
    /\ Raise("ValueError")

UnexpectedField ==
    /\ AtObject
    /\ ~(DOMAIN event \subseteq RequiredKeys)
    /\ Fail("unexpected_field", ParsedSequence)

MissingField ==
    /\ AtObject
    /\ DOMAIN event \subseteq RequiredKeys
    /\ DOMAIN event # RequiredKeys
    /\ Fail("missing_field", ParsedSequence)

SequenceGap ==
    /\ AtEvent
    /\ event.sequence_number # expected_seq
    /\ Fail("sequence_gap", ParsedSequence)

ChainBreak ==
    /\ AtSequence
    /\ event.previous_hash # prev_hash
    /\ Fail("chain_break", expected_seq)

\* The hash cannot be recomputed, or is another.
ContentTampered ==
    /\ AtLink
    /\ IsCanonical(payload) => compute_current_hash(key, payload) # event.current_hash
    /\ Fail("content_tampered", expected_seq)

\* A bug: the hash is not compared.
LinePassesUnhashed ==
    /\ AtLink
    /\ prev_hash' = event.current_hash
    /\ expected_seq' = event.sequence_number + 1
    /\ idx' = idx + 1
    /\ UNCHANGED << disk, stage, raised, key, byte_lines, result >>

LinePasses ==
    /\ AtLink
    /\ IsCanonical(payload)
    /\ compute_current_hash(key, payload) = event.current_hash
    /\ prev_hash' = event.current_hash
    /\ expected_seq' = event.sequence_number + 1
    /\ idx' = idx + 1
    /\ UNCHANGED << disk, stage, raised, key, byte_lines, result >>

\* A bug: nothing is returned at the end of the file.
AllPassedUnreturned ==
    /\ stage = "loop"
    /\ idx = Len(byte_lines)
    /\ stage' = "returned"
    /\ UNCHANGED << disk, raised, key, byte_lines, idx, prev_hash, expected_seq, result >>

AllPassed ==
    /\ stage = "loop"
    /\ idx = Len(byte_lines)
    /\ result' = [ok |-> TRUE, entries_checked |-> expected_seq, failure |-> None]
    /\ stage' = "returned"
    /\ UNCHANGED << disk, raised, key, byte_lines, idx, prev_hash, expected_seq >>

VerifyNext ==
    \/ ParseError \/ LoadsRaises \/ UnexpectedField \/ MissingField
    \/ SequenceGap \/ ChainBreak \/ ContentTampered \/ LinePasses \/ AllPassed

\* The first n lines are what a writer with key k writes there for some calls:
\* the definition verify() is checked against.  It reads from the front, so the
\* previous_hash of a line is only looked at behind a line that is right.
WrittenBy(k, parts, n) ==
    \A i \in 1..n :
        /\ parts[i].kind = "object"
        /\ \E c \in Calls :
             parts[i].event =
               MakeEvent(k, i - 1, c, IF i = 1 THEN Genesis ELSE parts[i - 1].event.current_hash)
=============================================================================
