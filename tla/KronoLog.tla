------------------------------ MODULE KronoLog ------------------------------
(***************************************************************************)
(* The on-disk format of a krono audit log: what one event is, how events  *)
(* are chained by their hashes, and how one event becomes the bytes of a   *)
(* line.  Shared by the writer (AuditLog) and by the verifier (Verify).    *)
(*                                                                         *)
(* Abstractions.                                                           *)
(*  - A record() call is an element of Calls.  It stands for the eight     *)
(*    fields no property tells apart (event_id, timestamp, tool name, the  *)
(*    two identities, decision, reason, arguments hash).  The uuid4 drawn  *)
(*    for every call makes two calls differ.                               *)
(*  - HMAC-SHA256 over canonical JSON is a free constructor: a hash is the *)
(*    list of everything hashed under it, so two hashes are equal exactly  *)
(*    when key, sequence number, content and previous hash are.            *)
(*  - A line is LineCells pieces of bytes.  The last piece is the newline, *)
(*    the others are the text.  Two pieces of text are enough to have a    *)
(*    line whose text is torn and one that only lacks its newline.         *)
(***************************************************************************)
EXTENDS Naturals, Sequences

CONSTANTS
    Keys,       \* HMAC keys
    Calls,      \* record() calls, each with contents of its own
    LineCells   \* pieces of bytes in one written line, the newline included

ASSUME LineCellsAssumption == LineCells \in Nat /\ LineCells >= 2

-----------------------------------------------------------------------------
(* Hashes and events *)

Link == [key : Keys, sequence_number : Nat, call : Calls]

Hash == Seq(Link)

\* The previous_hash of the first event.  No HMAC equals it.
Genesis == << >>

compute_current_hash(key, payload) ==
    Append(payload.previous_hash,
           [key             |-> key,
            sequence_number |-> payload.sequence_number,
            call            |-> payload.call])

AuditEvent ==
    [sequence_number : Nat, call : Calls, previous_hash : Hash, current_hash : Hash]

\* The event record() builds for call c on chain head <<seq, prev>>.
MakeEvent(key, seq, c, prev) ==
    [sequence_number |-> seq,
     call            |-> c,
     previous_hash   |-> prev,
     current_hash    |-> compute_current_hash(key,
                           [sequence_number |-> seq, call |-> c, previous_hash |-> prev])]

-----------------------------------------------------------------------------
(* Bytes *)

Cell == [event : AuditEvent, part : 1..LineCells]

\* canonical_json(event) + "\n", cut into cells.
LineOf(e) == [i \in 1..LineCells |-> [event |-> e, part |-> i]]

\* The text between two newlines is one event in full, and nothing else.
Parses(text) ==
    /\ Len(text) = LineCells - 1
    /\ \A i \in 1..LineCells - 1 : text[i] = [event |-> text[1].event, part |-> i]

EventOf(text) == text[1].event

\* The hash the next event must carry as its previous_hash.
ChainHead(lines) ==
    IF lines = << >> THEN Genesis ELSE EventOf(lines[Len(lines)]).current_hash

\* Lines of a file, each parsed, form one chain under key: gapless sequence
\* numbers from 0, each event holding its predecessor's hash and its own.
ChainedUnder(key, lines) ==
    \A i \in 1..Len(lines) :
        /\ Parses(lines[i])
        /\ EventOf(lines[i]) =
             MakeEvent(key, i - 1, EventOf(lines[i]).call,
                       IF i = 1 THEN Genesis ELSE EventOf(lines[i-1]).current_hash)
=============================================================================
