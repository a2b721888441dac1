----------------------------- MODULE EditedLog ------------------------------
(***************************************************************************)
(* A log is written, its file is changed behind the library's back, a      *)
(* writer is restarted on it and goes on, and verify() reads it.  The      *)
(* writer here is one nothing fails under: AuditLog models the failures.   *)
(* The changes are those of tests/test_verify.py and HONEST-CLAIMS.md, any *)
(* of them anywhere and at any time; and what the documentation rules out: *)
(* a second instance on the file, another key, the file removed under its  *)
(* writer.  Whoever edits lines does not have the key: a hash under Key is *)
(* one a writer made.                                                      *)
(***************************************************************************)
EXTENDS Verify, Resume

CONSTANTS
    Key, OtherKey,
    Explicit,       \* values of the key= argument
    Env,            \* values of the environment variable
    MaxEvents,      \* bound: events written
    MaxEdits        \* bound: changes to the file

ASSUME EditedLogAssumption ==
    /\ Key \in Keys /\ OtherKey \in Keys /\ Key # OtherKey
    /\ MaxEvents \in Nat /\ MaxEdits \in Nat

VARIABLES
    writer,         \* the AuditLog instance
    other,          \* an older instance, not closed
    genuine,        \* history: the events written, in that order
    edits,          \* history: how many changes were made
    ops,            \* history: which
    edit,           \* history: the only one, with its place
    opened_on       \* history: what verify() would have said of the file when the
                    \* writer was constructed; "changed" once it was edited since

changes == << edits, ops, edit >>
vars    == << disk, verifier, writer, other, genuine, changes, opened_on >>

\* verify(path, key=Key) accepts the file as it is.
Accepted ==
    LET parts == _split_byte_lines(file) IN WrittenBy(Key, parts, Len(parts))

EmptyFile == [lines |-> << >>, tail |-> NoTail]

Init ==
    /\ VerifyInit
    /\ file = EmptyFile
    /\ access = "absent"
    /\ writer = None
    /\ other = None
    /\ genuine = << >>
    /\ edits = 0
    /\ ops = {}
    /\ edit = None
    /\ opened_on = "changed"

Done(op, i, what) ==
    /\ edits < MaxEdits
    /\ edits' = edits + 1
    /\ ops' = ops \cup {op}
    /\ edit' = IF edits = 0
               THEN [op |-> op, line |-> i, what |-> what, written |-> Len(genuine)]
               ELSE None

\* What the constructor learns or raises: the key first, then open() for
\* appending, then the last line, read through a handle of its own.
Opened(k) ==
    IF k = None                      THEN Raised("MissingKeyError")
    ELSE IF access \notin CanWrite   THEN Raised("ConfigError")
    ELSE IF access = "write_only"    THEN Raised("PermissionError")
    ELSE _load_resume_state(file)

Instance(k) ==
    [_key               |-> k,
     _next_sequence     |-> Opened(k).next_seq,
     _last_current_hash |-> Opened(k).last_hash,
     on_path            |-> TRUE]

\* AuditLog(path): the first process, or the next one.  Another key than the
\* first counts as a change.  open() creates a file that is not there.
Construct(explicit, env) ==
    /\ stage = "before"
    /\ LET k == resolve_key(explicit, env)
       IN  /\ access' = IF k # None /\ access = "absent" THEN "open" ELSE access
           /\ IF k \in Keys \ {Key}
                THEN Done("rotate", Len(file.lines), None)
                ELSE UNCHANGED changes
           /\ IF Opened(k).raised = "none"
                THEN /\ writer' = Instance(k)
                     /\ opened_on' = IF k # Key THEN "changed"
                                     ELSE IF Accepted THEN "verified" ELSE "bad"
                ELSE writer' = None /\ opened_on' = "changed"
    /\ UNCHANGED << file, verifier, other, genuine >>

\* Bytes appended behind a text without newline become part of its line.
Glued(tail) ==
    IF tail.kind \in {"not_utf8", "huge_int"} THEN tail ELSE Broken("not_json")

NextEvent(w, c) == MakeEvent(w._key, w._next_sequence, c, w._last_current_hash)

After(w, c) == [w EXCEPT !._next_sequence     = @ + 1,
                         !._last_current_hash = NextEvent(w, c).current_hash]

\* record() of call c, as a whole: one line, appended to whatever the file now
\* ends in, or to a file that is on no path any more.
AppendEvent(w, c) ==
    /\ stage = "before"
    /\ w # None
    /\ Len(genuine) < MaxEvents
    /\ \A i \in 1..Len(genuine) : genuine[i].call # c
    /\ genuine' = Append(genuine, NextEvent(w, c))
    /\ file' = IF ~w.on_path THEN file
               ELSE [lines |-> Append(file.lines, IF file.tail = NoTail THEN Object(NextEvent(w, c))
                                                  ELSE Glued(file.tail)),
                     tail  |-> NoTail]
    /\ UNCHANGED << access, verifier, changes >>

Record(c) ==
    /\ AppendEvent(writer, c)
    /\ writer' = After(writer, c)
    /\ UNCHANGED << other, opened_on >>

RecordOther(c) ==
    /\ AppendEvent(other, c)
    /\ other' = After(other, c)
    /\ opened_on' = "changed"
    /\ UNCHANGED writer

-----------------------------------------------------------------------------
(* Changes to the file *)

Lines == 1..Len(file.lines)

GenuineHashes == {genuine[i].current_hash : i \in 1..Len(genuine)}

\* What a field of a line may be overwritten with.
Values(field) ==
    CASE field = "sequence_number" -> -1..MaxEvents \cup {NotInt}
      [] field = "call"            -> Calls \cup {NotCanonical}
      [] field = "previous_hash"   -> GenuineHashes \cup {Genesis, NotHash}
      [] field = "current_hash"    -> GenuineHashes \cup {Genesis, NotHash}

\* Once the file is gone, or its rights are changed, its lines are left alone.
Edit(op, i, what, new) ==
    /\ stage = "before"
    /\ access = "open"
    /\ Done(op, i, what)
    /\ file' = new
    /\ opened_on' = "changed"
    /\ UNCHANGED << access, verifier, writer, other, genuine >>

Rewrite(op, i, what, line) == Edit(op, i, what, [file EXCEPT !.lines[i] = line])

ChangeField(i, field, value) ==
    /\ file.lines[i].kind = "object"
    /\ field \in DOMAIN file.lines[i].event
    /\ file.lines[i].event[field] # value
    /\ Rewrite("change", i, field, Object([file.lines[i].event EXCEPT ![field] = value]))

DropField(i, field) ==
    /\ file.lines[i].kind = "object"
    /\ field \in DOMAIN file.lines[i].event
    /\ LET e == file.lines[i].event
       IN  Rewrite("drop", i, field, Object([f \in DOMAIN e \ {field} |-> e[f]]))

AddField(i) ==
    /\ file.lines[i].kind = "object"
    /\ LET e == file.lines[i].event
       IN  Rewrite("add", i, "extra",
                   Object([f \in DOMAIN e \cup {"extra"} |-> IF f = "extra" THEN None ELSE e[f]]))

\* The line is written anew with a key that is not Key.
Rekey(i) ==
    /\ file.lines[i].kind = "object"
    /\ DOMAIN file.lines[i].event = RequiredKeys
    /\ file.lines[i].event.previous_hash # NotHash
    /\ file.lines[i].event.sequence_number \in Nat
    /\ IsCanonical(file.lines[i].event)
    /\ LET e == file.lines[i].event
       IN  Rewrite("rekey", i, "current_hash",
                   Object([e EXCEPT !.current_hash = compute_current_hash(OtherKey, e)]))

\* The same JSON in other bytes.
Respell(i) ==
    /\ file.lines[i].kind = "object"
    /\ file.lines[i].spelling = "canonical"
    /\ Rewrite("respell", i, None, Respelled(file.lines[i]))

\* A bug: the hash an event is loaded with is its predecessor's.
from_dict_misread(d) ==
    IF DOMAIN d = RequiredKeys THEN [d EXCEPT !.current_hash = d.previous_hash] ELSE None

\* AuditEvent.from_dict(): exactly the fields of an event.  It does not look at
\* their values, the decision excepted, which is part of "call".
from_dict(d) == IF DOMAIN d = RequiredKeys THEN [f \in RequiredKeys |-> d[f]] ELSE None

to_dict(e) == [f \in RequiredKeys |-> e[f]]

\* The line is loaded as an AuditEvent and written back as its canonical JSON.
Reload(i) ==
    /\ file.lines[i].kind = "object"
    /\ from_dict(file.lines[i].event) # None
    /\ IsCanonical(file.lines[i].event)
    /\ Rewrite("reload", i, None, Object(to_dict(from_dict(file.lines[i].event))))

Garble(i, kind) == Rewrite("garble", i, kind, Broken(kind))

Delete(i) ==
    Edit("delete", i, None,
         [file EXCEPT !.lines = [j \in 1..Len(@) - 1 |-> IF j < i THEN @[j] ELSE @[j + 1]]])

Swap(i, j) ==
    /\ i < j
    /\ Edit("swap", i, j, [file EXCEPT !.lines[i] = file.lines[j], !.lines[j] = file.lines[i]])

\* A line some writer wrote is put in (again) as line i.
Insert(i, n) ==
    Edit("insert", i, n,
         [file EXCEPT !.lines = [k \in 1..Len(@) + 1 |->
             IF k < i THEN @[k] ELSE IF k = i THEN Object(genuine[n]) ELSE @[k - 1]]])

\* Line i gets the contents of line j, but keeps its sequence number.
Permute(i, j) ==
    /\ i # j
    /\ file.lines[i].kind = "object" /\ "sequence_number" \in DOMAIN file.lines[i].event
    /\ file.lines[j].kind = "object" /\ "sequence_number" \in DOMAIN file.lines[j].event
    /\ Rewrite("permute", i, j,
               Object([file.lines[j].event EXCEPT
                         !.sequence_number = file.lines[i].event.sequence_number]))

\* The final newline is cut off.
CutNewline ==
    /\ file.tail = NoTail
    /\ file.lines # << >>
    /\ file.lines[Len(file.lines)].kind # "blank"
    /\ Edit("cut", Len(file.lines), None,
            [lines |-> SubSeq(file.lines, 1, Len(file.lines) - 1),
             tail  |-> file.lines[Len(file.lines)]])

\* A second instance, while the first one is not closed.
Second ==
    /\ stage = "before"
    /\ writer # None /\ other = None
    /\ Opened(Key).raised = "none"
    /\ Done("second", Len(file.lines), None)
    /\ other' = writer
    /\ writer' = Instance(Key)
    /\ access' = "open"
    /\ opened_on' = IF Accepted THEN "verified" ELSE "bad"
    /\ UNCHANGED << file, verifier, genuine >>

OffPath(w) == IF w = None THEN None ELSE [w EXCEPT !.on_path = FALSE]

\* The file is removed, or renamed: its writers keep the file they opened.
Remove ==
    /\ stage = "before"
    /\ access = "open"
    /\ Done("remove", 0, None)
    /\ access' = "absent"
    /\ file' = EmptyFile
    /\ writer' = OffPath(writer)
    /\ other' = OffPath(other)
    /\ opened_on' = "changed"
    /\ UNCHANGED << verifier, genuine >>

\* Rights are taken away.  A handle that is open keeps its own.
ChangeAccess(to) ==
    /\ stage = "before"
    /\ access = "open"
    /\ Done("access", 0, to)
    /\ access' = to
    /\ UNCHANGED << file, verifier, writer, other, genuine, opened_on >>

EditNext ==
    \/ \E i \in Lines :
         \/ \E field \in RequiredKeys : \E value \in Values(field) : ChangeField(i, field, value)
         \/ \E field \in RequiredKeys : DropField(i, field)
         \/ AddField(i)
         \/ Rekey(i)
         \/ Respell(i)
         \/ Reload(i)
         \/ \E kind \in Unreadable : Garble(i, kind)
         \/ Delete(i)
         \/ \E j \in Lines : Swap(i, j) \/ Permute(i, j)
    \/ \E i \in 1..Len(file.lines) + 1, n \in 1..Len(genuine) : Insert(i, n)
    \/ CutNewline
    \/ Second
    \/ Remove
    \/ \E to \in Access \ {"open", "absent"} : ChangeAccess(to)

-----------------------------------------------------------------------------

WriterNext ==
    \/ \E explicit \in Explicit, env \in Env : Construct(explicit, env)
    \/ \E c \in Calls : Record(c) \/ RecordOther(c)
    \/ EditNext

ReaderNext(explicit, env) ==
    /\ \/ MissingKey(explicit, env) \/ LogUnavailable(explicit, env) \/ VerifyStart(explicit, env)
       \/ VerifyNext
    /\ UNCHANGED << writer, other, genuine, changes, opened_on >>

-----------------------------------------------------------------------------
(* Properties *)

TypeOK ==
    /\ access \in Access
    /\ stage \in {"before", "loop", "returned", "raised"}
    /\ raised \in Exceptions \cup {None}
    /\ (stage = "raised") <=> (raised # None)
    /\ result \in VerifyResult \cup {None}
    /\ key \in Keys \cup {None}
    /\ idx \in 0..Len(byte_lines)
    /\ prev_hash \in Hash
    /\ expected_seq \in Nat
    /\ genuine \in Seq(AuditEvent)
    /\ (stage = "returned") <=> (result # None)

\* verify() accepts exactly the files in which every line is the one a writer
\* with that key would have written there, and otherwise names the first line
\* that is not, counting the lines before it.
VerdictIsFirstBadLine ==
    stage = "returned" =>
        LET n == result.entries_checked
        IN  /\ WrittenBy(key, byte_lines, n)
            /\ IF result.ok
                 THEN n = Len(byte_lines)
                 ELSE /\ result.failure.line = n + 1
                      /\ ~WrittenBy(key, byte_lines, n + 1)

\* What verify() accepts with the writer's key is what a writer wrote, whatever
\* was done to the file: every event in it is genuine and they stand in the
\* order they were written in.  All that can be missing is an end ("Tail
\* truncation" of HONEST-CLAIMS.md), of the file or of what it once was.
AcceptedIsGenuine ==
    stage = "returned" /\ result.ok /\ key = Key =>
        \A i \in 1..Len(byte_lines) :
            \E n \in i..Len(genuine) :
                /\ byte_lines[i].event = genuine[n]
                /\ \A j \in 1..i - 1, m \in 1..Len(genuine) :
                     byte_lines[j].event = genuine[m] => m < n

\* What a log becomes without anybody editing it, in the hands of instances
\* with one key or several, one after the other or two at once, its lines
\* spelled anew or loaded and written back: verify() accepts it with the key
\* all of it was written with, as long as no sequence number was given out
\* twice, and otherwise names the first line of which either is not true.
UntouchedVerifies ==
    stage = "returned" /\ ops \subseteq {"second", "rotate", "respell", "reload", "access"} =>
        LET Forked(i)  == genuine[i].sequence_number # i - 1
            Foreign(i) == genuine[i].current_hash[Len(genuine[i].current_hash)].key # key
            bad        == {i \in 1..Len(genuine) : Forked(i) \/ Foreign(i)}
        IN  IF bad = {}
              THEN result.ok
              ELSE /\ ~result.ok
                   /\ result.failure.line \in bad /\ \A i \in bad : result.failure.line <= i
                   /\ result.failure.kind = IF Forked(result.failure.line) THEN "sequence_gap"
                                            ELSE "content_tampered"

\* The changes of the tables of HONEST-CLAIMS.md this project finds reported as
\* the tables say.  A cut newline, a line spelled anew and a number too long for
\* json.loads are not: see TamperingIsReported in EditedLogClaims.
Claimed(e) ==
    /\ e.op \in {"change", "drop", "add", "garble", "rekey", "swap", "permute", "insert", "delete"}
    /\ ~(e.op = "garble" /\ e.what = "huge_int")

\* verify() returns, and names the line and the kind the table names; or finds
\* nothing, when it was the last line that was deleted ("Tail truncation").
ClaimedVerdict ==
    LET At(kind, line) == ~result.ok /\ result.failure.kind = kind /\ result.failure.line = line
    IN  CASE edit.op = "add"     -> At("unexpected_field", edit.line)
          [] edit.op = "drop"    -> At("missing_field", edit.line)
          [] edit.op = "garble"  -> At("parse_error", edit.line)
          [] edit.op = "rekey"   -> At("content_tampered", edit.line)
          [] edit.op = "swap"    -> At("sequence_gap", edit.line)
          [] edit.op = "delete"  -> IF edit.line = Len(genuine)
                                      THEN result.ok
                                      ELSE At("sequence_gap", edit.line)
          [] edit.op = "insert"  -> At("sequence_gap",
                                       IF edit.line = edit.what THEN edit.line + 1 ELSE edit.line)
          [] edit.op = "permute" -> At("chain_break", edit.line)
          [] edit.op = "change"  ->
               At(CASE edit.what = "sequence_number" -> "sequence_gap"
                    [] edit.what = "previous_hash"   -> "chain_break"
                    [] OTHER                         -> "content_tampered", edit.line)

\* A single change to a log, of a kind the tables of HONEST-CLAIMS.md name, to
\* which nothing was appended since: verify() with its key does not raise, and
\* reports the line that was changed as the kind the table names, although of
\* the six checks of a line several would fail and the next lines fail too.
OneEditAsClaimed ==
    /\ stage \in {"returned", "raised"} /\ key = Key
    /\ edits = 1 /\ Claimed(edit) /\ edit.written = Len(genuine)
    => stage = "returned" /\ ClaimedVerdict

\* The constructor goes on exactly where verify() stopped: a file verify()
\* accepts, ending in a newline, is resumed with the next sequence number and
\* the last hash of that verification, although only its last line is read.
ResumeAgreesWithVerify ==
    stage = "returned" /\ result.ok /\ file.tail = NoTail =>
        _load_resume_state(file) = ResumeState(result.entries_checked, prev_hash)

\* What a writer appends never changes the verdict on the file it was
\* constructed on: a log that verified then verifies with all that was added,
\* and one that did not is still rejected, although the writer goes on without
\* an error ("it will happily append", USAGE.md, verify-on-startup).
AppendsKeepTheVerdict ==
    stage = "returned" /\ key = Key =>
        /\ opened_on = "verified" => result.ok
        /\ opened_on = "bad" => ~result.ok
=============================================================================
