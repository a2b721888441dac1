------------------------------ MODULE Resume --------------------------------
(***************************************************************************)
(* What the AuditLog constructor learns from an existing file, from its    *)
(* last line alone: the next sequence number and the last hash, or that it *)
(* raises.                                                                 *)
(***************************************************************************)
EXTENDS RawLog

ResumeState(next_seq, last_hash) ==
    [raised |-> "none", next_seq |-> next_seq, last_hash |-> last_hash]

Raised(exception) == [raised |-> exception]

\* The checks on the parsed last line: it may have more fields than an event.
CanResumeFrom(event) ==
    /\ RequiredKeys \subseteq DOMAIN event
    /\ event.sequence_number # NotInt
    /\ event.sequence_number >= 0
    /\ event.current_hash # NotHash

\* A bug: the sequence number of the last line is used again.
ResumeOffByOne(event) ==
    IF CanResumeFrom(event)
    THEN ResumeState(event.sequence_number, event.current_hash)
    ELSE Raised("WriteError")

\* A bug: the wrong one of the two hashes is taken.
ResumePrevious(event) ==
    IF CanResumeFrom(event) /\ event.previous_hash # NotHash
    THEN ResumeState(event.sequence_number + 1, event.previous_hash)
    ELSE Raised("WriteError")

ResumeFrom(event) ==
    IF CanResumeFrom(event)
    THEN ResumeState(event.sequence_number + 1, event.current_hash)
    ELSE Raised("WriteError")

\* _read_last_line decodes the line before anything else looks at it.
_load_resume_state(file) ==
    LET parts == _split_byte_lines(file)
        last  == parts[Len(parts)]
    IN  CASE parts = << >>          -> ResumeState(0, Genesis)
          [] parts # << >> /\ last.kind = "not_utf8"
                                    -> Raised("UnicodeDecodeError")
          [] parts # << >> /\ last.kind # "not_utf8" /\ file.tail # NoTail
                                    -> Raised("WriteError")
          [] parts # << >> /\ last.kind \in Unreadable \ {"not_utf8"}
                           /\ file.tail = NoTail
                                    -> Raised("WriteError")
          [] parts # << >> /\ last.kind = "object" /\ file.tail = NoTail
                                    -> ResumeFrom(last.event)
=============================================================================
