------------------------------ MODULE RawLog --------------------------------
(***************************************************************************)
(* A log file as its readers get it: lines that may hold anything, because *)
(* they were written by somebody else, cut off or edited.  Read by verify()*)
(* (module Verify) and by the constructor's resume (module Resume).        *)
(*                                                                         *)
(* Of the eleven fields of an event three are told apart by the checks;    *)
(* "call" stands for the other eight.                                      *)
(***************************************************************************)
EXTENDS KronoLog, Integers

CONSTANTS
    NotInt,         \* a JSON value that is no integer, true and false included
    NotHash,        \* a JSON value that is no string, or the empty string: no hash
    NotCanonical,   \* contents json.loads accepts and canonical_json refuses: NaN
    NoTail          \* nothing follows the last newline

ASSUME RawLogAssumption ==
    /\ NotInt \notin Int
    /\ NotHash \notin Hash
    /\ NotCanonical \notin Calls

\* _REQUIRED_KEYS
RequiredKeys == {"sequence_number", "call", "previous_hash", "current_hash"}

\* What one line turns out to be: bytes that are not UTF-8, whitespace, text
\* that is not JSON, a number literal json.loads refuses to convert, JSON that
\* is not an object, or an object with some fields, spelled the way
\* canonical_json spells it or another (spaces, order of keys, escapes).
Unreadable == {"not_utf8", "blank", "not_json", "huge_int", "not_object"}
Broken(kind) == [kind |-> kind]
Object(event) == [kind |-> "object", event |-> event, spelling |-> "canonical"]
Respelled(line) == [line EXCEPT !.spelling = "other"]

\* data.split(b"\n") without the empty part after a final newline.
_split_byte_lines(file) ==
    IF file.tail = NoTail THEN file.lines ELSE Append(file.lines, file.tail)

\* canonical_json raises ValueError.
IsCanonical(payload) == payload.call # NotCanonical
=============================================================================
