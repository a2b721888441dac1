---------------------------- MODULE VerifyProofs ----------------------------
(***************************************************************************)
(* What the loop of verify() does, for every file whose lines json.loads   *)
(* can have made, of any length, and every key.  Used by the proofs about  *)
(* the modules verify() is composed with.                                  *)
(***************************************************************************)
EXTENDS Verify, SequenceTheorems, WellFoundedInduction, TLAPS

-----------------------------------------------------------------------------
\* A set of numbers that is not empty has a least one: what an induction over
\* the lines of a file rests on.
LEMMA Least ==
    ASSUME NEW T, T \subseteq Nat, T # {}
    PROVE  \E x \in T : \A y \in T : x <= y
<1> DEFINE R == {pair \in Nat \X Nat : pair[1] < pair[2]}
<1>1. IsWellFoundedOn(R, Nat)
  BY NatLessThanWellFounded, Zenon DEF OpToRel
<1>2. \A x, y \in Nat : <<x, y>> \in R <=> x < y
  OBVIOUS
<1> HIDE DEF R
<1>3. PICK x \in T : \A y \in T : ~(<<y, x>> \in R)
  BY <1>1, WFMin
<1>4. x \in Nat /\ \A y \in T : y \in Nat /\ ~(y < x)
  BY <1>2, <1>3
<1> QED
  BY <1>4

-----------------------------------------------------------------------------
(* Typing *)

FieldValues(field) ==
    CASE field = "sequence_number" -> Int \cup {NotInt}
      [] field = "call"            -> Calls \cup {NotCanonical}
      [] field = "previous_hash"   -> Hash \cup {NotHash}
      [] field = "current_hash"    -> Hash \cup {NotHash}
      [] OTHER                     -> {None}

RawValue ==
    Int \cup Calls \cup Hash \cup {NotInt, NotCanonical, NotHash, None}

\* A JSON object: some fields, each with a value of its kind or of none.  The
\* field no event has stands for all such fields.
FieldNames == RequiredKeys \cup {"extra"}

RawEvent ==
    {e \in UNION {[fields -> RawValue] : fields \in SUBSET FieldNames} :
        \A field \in DOMAIN e : e[field] \in FieldValues(field)}

RawLine ==
    [kind : Unreadable] \cup [kind : {"object"}, event : RawEvent, spelling : {"canonical", "other"}]

RawFile == [lines : Seq(RawLine), tail : RawLine \cup {NoTail}]

\* An object is a function of its fields.
LEMMA RawEventFields ==
    ASSUME NEW e \in RawEvent
    PROVE  /\ e = [field \in DOMAIN e |-> e[field]]
           /\ \A field \in DOMAIN e : e[field] \in FieldValues(field)
           /\ DOMAIN e \subseteq FieldNames
BY DEF RawEvent

LEMMA RawEventMade ==
    ASSUME NEW fields \in SUBSET FieldNames, NEW e, e = [field \in fields |-> e[field]],
           \A field \in fields : e[field] \in FieldValues(field)
    PROVE  e \in RawEvent
<1>1. DOMAIN e = fields
  OBVIOUS
<1>2. \A field \in fields : e[field] \in RawValue
  BY DEF FieldValues, RawValue
<1>3. e \in [fields -> RawValue]
  BY <1>2
<1> QED
  BY <1>1, <1>3 DEF RawEvent

\* An object with the fields of an event and nothing odd in them is an event.
LEMMA EventFromFields ==
    ASSUME NEW e \in RawEvent, DOMAIN e = RequiredKeys
    PROVE  /\ e = [sequence_number |-> e.sequence_number, call |-> e.call,
                   previous_hash |-> e.previous_hash, current_hash |-> e.current_hash]
           /\ e.sequence_number \in Int \cup {NotInt}
           /\ e.call \in Calls \cup {NotCanonical}
           /\ e.previous_hash \in Hash \cup {NotHash}
           /\ e.current_hash \in Hash \cup {NotHash}
<1>1. /\ e = [field \in DOMAIN e |-> e[field]]
      /\ \A field \in DOMAIN e : e[field] \in FieldValues(field)
  BY RawEventFields
<1>2. e = [sequence_number |-> e.sequence_number, call |-> e.call,
           previous_hash |-> e.previous_hash, current_hash |-> e.current_hash]
  BY <1>1 DEF RequiredKeys
<1> QED
  BY <1>1, <1>2 DEF RequiredKeys, FieldValues

LEMMA MadeEvent ==
    ASSUME NEW k \in Keys, NEW seq \in Nat, NEW c \in Calls, NEW prev \in Hash
    PROVE  /\ MakeEvent(k, seq, c, prev) \in AuditEvent
           /\ MakeEvent(k, seq, c, prev) \in RawEvent
           /\ DOMAIN MakeEvent(k, seq, c, prev) = RequiredKeys
           /\ MakeEvent(k, seq, c, prev).sequence_number = seq
           /\ MakeEvent(k, seq, c, prev).call = c
           /\ MakeEvent(k, seq, c, prev).previous_hash = prev
           /\ MakeEvent(k, seq, c, prev).current_hash =
                Append(prev, [key |-> k, sequence_number |-> seq, call |-> c])
           /\ MakeEvent(k, seq, c, prev).current_hash \in Hash
<1> DEFINE e == MakeEvent(k, seq, c, prev)
           link == [key |-> k, sequence_number |-> seq, call |-> c]
<1>1. link \in Link
  BY DEF Link
<1>2. Append(prev, link) \in Hash
  BY <1>1, AppendProperties DEF Hash
<1>3. e = [sequence_number |-> seq, call |-> c, previous_hash |-> prev,
           current_hash |-> Append(prev, link)]
  BY DEF MakeEvent, compute_current_hash
<1> HIDE DEF link, e
<1>4. /\ e.sequence_number = seq /\ e.call = c /\ e.previous_hash = prev
      /\ e.current_hash = Append(prev, link) /\ DOMAIN e = RequiredKeys
  BY <1>3 DEF RequiredKeys
<1>5. e \in AuditEvent
  BY <1>2, <1>3 DEF AuditEvent
<1>6. e \in RawEvent
  <2>1. RequiredKeys \in SUBSET FieldNames
    BY DEF FieldNames
  <2>2. e = [field \in RequiredKeys |-> e[field]]
    BY <1>3 DEF RequiredKeys
  <2>3. /\ e["sequence_number"] \in FieldValues("sequence_number")
        /\ e["call"] \in FieldValues("call")
        /\ e["previous_hash"] \in FieldValues("previous_hash")
        /\ e["current_hash"] \in FieldValues("current_hash")
    <3>1. e["sequence_number"] \in FieldValues("sequence_number")
      BY <1>4 DEF FieldValues
    <3>2. e["call"] \in FieldValues("call")
      BY <1>4 DEF FieldValues
    <3>3. e["previous_hash"] \in FieldValues("previous_hash")
      BY <1>4 DEF FieldValues
    <3>4. e["current_hash"] \in FieldValues("current_hash")
      BY <1>2, <1>4 DEF FieldValues
    <3> QED
      BY <3>1, <3>2, <3>3, <3>4
  <2>4. \A field \in RequiredKeys : e[field] \in FieldValues(field)
    BY <2>3 DEF RequiredKeys
  <2> QED
    BY <2>1, <2>2, <2>4, RawEventMade
<1> QED
  BY <1>2, <1>4, <1>5, <1>6 DEF link, e

LEMMA MadeEventTyped ==
    ASSUME NEW k \in Keys, NEW seq \in Nat, NEW c \in Calls, NEW prev \in Hash
    PROVE  /\ MakeEvent(k, seq, c, prev) \in AuditEvent
           /\ MakeEvent(k, seq, c, prev) \in RawEvent
           /\ MakeEvent(k, seq, c, prev).current_hash \in Hash
<1> HIDE DEF MakeEvent
<1> QED
  BY MadeEvent

-----------------------------------------------------------------------------
(* Lines written *)

\* The previous_hash of the line behind the first n.
HashBehind(parts, n) == IF n = 0 THEN Genesis ELSE parts[n].event.current_hash

\* Line n + 1 is the one a writer with key k writes behind n lines.
WrittenNext(k, parts, n) ==
    /\ parts[n + 1].kind = "object"
    /\ \E c \in Calls : parts[n + 1].event = MakeEvent(k, n, c, HashBehind(parts, n))

LEMMA NoneWritten == ASSUME NEW k, NEW parts PROVE WrittenBy(k, parts, 0)
BY DEF WrittenBy

LEMMA OneMoreWritten ==
    ASSUME NEW k, NEW parts, NEW n \in Nat
    PROVE  WrittenBy(k, parts, n + 1) <=> WrittenBy(k, parts, n) /\ WrittenNext(k, parts, n)
<1>1. 1..n + 1 = 1..n \cup {n + 1} /\ n + 1 - 1 = n /\ (n + 1 = 1 <=> n = 0)
  OBVIOUS
<1>2. \A i \in 1..n + 1 : (IF i = 1 THEN Genesis ELSE parts[i - 1].event.current_hash)
                               = HashBehind(parts, i - 1)
  BY DEF HashBehind
<1> QED
  BY <1>1, <1>2 DEF WrittenBy, WrittenNext

LEMMA FewerWritten ==
    ASSUME NEW k, NEW parts, NEW n \in Nat, WrittenBy(k, parts, n), NEW m \in 0..n
    PROVE  WrittenBy(k, parts, m)
BY DEF WrittenBy

\* Lines that differ in their spelling only are one as good as the other.
SameLines(parts, others, n) ==
    \A i \in 1..n : parts[i].kind = others[i].kind /\ parts[i].event = others[i].event

LEMMA SameWritten ==
    ASSUME NEW k, NEW parts, NEW others, NEW n \in Nat, SameLines(parts, others, n)
    PROVE  /\ WrittenBy(k, parts, n) <=> WrittenBy(k, others, n)
           /\ \A m \in 0..n : HashBehind(parts, m) = HashBehind(others, m)
<1>1. \A i \in 1..n : (IF i = 1 THEN Genesis ELSE parts[i - 1].event.current_hash)
                        = (IF i = 1 THEN Genesis ELSE others[i - 1].event.current_hash)
  BY DEF SameLines
<1>2. WrittenBy(k, parts, n) <=> WrittenBy(k, others, n)
  BY <1>1 DEF SameLines, WrittenBy
<1>3. \A m \in 0..n : HashBehind(parts, m) = HashBehind(others, m)
  BY DEF SameLines, HashBehind
<1> QED
  BY <1>2, <1>3

LEMMA WrittenAt ==
    ASSUME NEW k, NEW parts, NEW n \in Nat, WrittenBy(k, parts, n), NEW i \in 1..n
    PROVE  /\ parts[i].kind = "object"
           /\ \E c \in Calls : parts[i].event = MakeEvent(k, i - 1, c, HashBehind(parts, i - 1))
BY DEF WrittenBy, HashBehind

\* Written lines hold hashes.
LEMMA WrittenHash ==
    ASSUME NEW k \in Keys, NEW parts, NEW n \in Nat, WrittenBy(k, parts, n)
    PROVE  HashBehind(parts, n) \in Hash
<1> DEFINE Wrong == {i \in 0..n : HashBehind(parts, i) \notin Hash}
<1> SUFFICES ASSUME Wrong # {} PROVE FALSE
  OBVIOUS
<1>1. PICK i \in Wrong : \A j \in Wrong : i <= j
  <2>1. Wrong \subseteq Nat
    OBVIOUS
  <2> HIDE DEF Wrong
  <2> QED
    BY <2>1, Least
<1>2. i # 0
  BY EmptySeq DEF HashBehind, Genesis, Hash
<1>3. i - 1 \in Nat /\ i \in 1..n /\ HashBehind(parts, i - 1) \in Hash
  BY <1>1, <1>2
<1>4. PICK c \in Calls : parts[i].event = MakeEvent(k, i - 1, c, HashBehind(parts, i - 1))
  BY <1>3, WrittenAt
<1>5. MakeEvent(k, i - 1, c, HashBehind(parts, i - 1)).current_hash \in Hash
  BY <1>3, MadeEvent
<1>6. HashBehind(parts, i) \in Hash
  BY <1>2, <1>4, <1>5 DEF HashBehind
<1> QED
  BY <1>1, <1>6

\* The six checks together: a line passes them exactly when it was written.
Passes(k, line, n, prev) ==
    /\ line.kind = "object"
    /\ DOMAIN line.event = RequiredKeys
    /\ line.event.sequence_number = n
    /\ line.event.previous_hash = prev
    /\ IsCanonical(line.event)
    /\ compute_current_hash(k, line.event) = line.event.current_hash

LEMMA PassesIfWritten ==
    ASSUME NEW k \in Keys, NEW line, NEW n \in Nat, NEW prev \in Hash,
           line.kind = "object", NEW c \in Calls, line.event = MakeEvent(k, n, c, prev)
    PROVE  Passes(k, line, n, prev)
<1>1. /\ DOMAIN line.event = RequiredKeys
      /\ line.event.sequence_number = n
      /\ line.event.call = c
      /\ line.event.previous_hash = prev
      /\ line.event.current_hash = Append(prev, [key |-> k, sequence_number |-> n, call |-> c])
  BY MadeEvent
<1>2. c # NotCanonical
  BY RawLogAssumption
<1> QED
  BY <1>1, <1>2 DEF Passes, IsCanonical, compute_current_hash

LEMMA WrittenIfPasses ==
    ASSUME NEW k \in Keys, NEW line \in RawLine, NEW n \in Nat, NEW prev \in Hash,
           Passes(k, line, n, prev)
    PROVE  /\ line.event.call \in Calls
           /\ line.event = MakeEvent(k, n, line.event.call, prev)
           /\ line.event.current_hash \in Hash
<1>1. line.event \in RawEvent
  BY DEF Passes, RawLine, Unreadable
<1> DEFINE e == line.event
<1>2. /\ e = [sequence_number |-> e.sequence_number, call |-> e.call,
               previous_hash |-> e.previous_hash, current_hash |-> e.current_hash]
      /\ e.call \in Calls \cup {NotCanonical}
  BY <1>1, EventFromFields DEF Passes
<1>3. e.call \in Calls
  BY <1>2 DEF Passes, IsCanonical
<1>4. e = MakeEvent(k, n, e.call, prev)
  BY <1>2 DEF Passes, MakeEvent, compute_current_hash
<1>5. MakeEvent(k, n, e.call, prev).current_hash \in Hash
  BY <1>3, MadeEvent
<1> QED
  BY <1>3, <1>4, <1>5

-----------------------------------------------------------------------------
(* The loop *)

\* What verify() knows: the lines before idx were written with its key, and the
\* hash and the number it expects next follow from them; its result is about
\* exactly these.
LoopInv ==
    /\ stage \in {"before", "loop", "returned", "raised"}
    /\ byte_lines \in Seq(RawLine)
    /\ idx \in 0..Len(byte_lines)
    /\ expected_seq = idx
    /\ prev_hash = HashBehind(byte_lines, idx)
    /\ prev_hash \in Hash
    /\ key \in Keys \cup {None}
    /\ WrittenBy(key, byte_lines, idx)
    /\ stage \in {"loop", "returned"} => key \in Keys
    /\ stage = "before" => key = None /\ byte_lines = << >>
    /\ IF stage = "raised" THEN raised \in Exceptions ELSE raised = None
    /\ IF stage = "returned" THEN result \in VerifyResult ELSE result = None

\* The kind of failure a line that does not pass is.
Complaint(line, n, prev) ==
    IF line.kind # "object"                                 THEN "parse_error"
    ELSE IF ~(DOMAIN line.event \subseteq RequiredKeys)     THEN "unexpected_field"
    ELSE IF DOMAIN line.event # RequiredKeys                THEN "missing_field"
    ELSE IF line.event.sequence_number # n                  THEN "sequence_gap"
    ELSE IF line.event.previous_hash # prev                 THEN "chain_break"
    ELSE "content_tampered"

\* The result.
VerdictFits(k, parts, n, res) ==
    /\ res.entries_checked = n
    /\ IF res.ok
         THEN n = Len(parts)
         ELSE /\ n < Len(parts)
              /\ res.failure.line = n + 1
              /\ res.failure.kind = Complaint(parts[n + 1], n, HashBehind(parts, n))
              /\ ~WrittenBy(k, parts, n + 1)

VerifyInv ==
    /\ LoopInv
    /\ raised = "ValueError" =>
         key \in Keys /\ idx < Len(byte_lines) /\ ~WrittenBy(key, byte_lines, idx + 1)
    /\ stage = "returned" => VerdictFits(key, byte_lines, idx, result)

LEMMA VerifyInvInit == VerifyInit => VerifyInv
<1> SUFFICES ASSUME VerifyInit PROVE VerifyInv
  OBVIOUS
<1>1. byte_lines \in Seq(RawLine) /\ Len(byte_lines) = 0 /\ Genesis \in Hash
  BY EmptySeq DEF VerifyInit, Genesis, Hash
<1>2. WrittenBy(key, byte_lines, 0)
  BY NoneWritten
<1> QED
  BY <1>1, <1>2, VerifyAssumption DEF VerifyInit, VerifyInv, LoopInv, HashBehind, Exceptions

LEMMA PartsTyped ==
    ASSUME NEW f \in RawFile
    PROVE  _split_byte_lines(f) \in Seq(RawLine)
BY AppendProperties DEF _split_byte_lines, RawFile

LEMMA VerifyInvStart ==
    ASSUME VerifyInv, NEW explicit, NEW env, file \in RawFile, VerifyStart(explicit, env)
    PROVE  VerifyInv'
<1>1. /\ stage' = "loop" /\ stage = "before" /\ key' \in Keys
      /\ byte_lines' = _split_byte_lines(file)
      /\ UNCHANGED << raised, idx, prev_hash, expected_seq, result >>
  BY ResolveKeyAssumption DEF VerifyStart, resolve_key
<1>2. byte_lines' \in Seq(RawLine)
  BY <1>1, PartsTyped
<1>3. idx = 0 /\ prev_hash = Genesis
  BY <1>1, EmptySeq DEF VerifyInv, LoopInv, HashBehind
<1>4. WrittenBy(key', byte_lines', 0)
  BY NoneWritten
<1>5. 0 \in 0..Len(byte_lines') /\ HashBehind(byte_lines', 0) = Genesis
  BY <1>2, LenProperties DEF HashBehind
<1> QED
  BY <1>1, <1>2, <1>3, <1>4, <1>5 DEF VerifyInv, LoopInv

LEMMA FirstUnwritten ==
    ASSUME VerifyInv, AtLine, ~Passes(key, raw, idx, prev_hash)
    PROVE  key \in Keys /\ idx < Len(byte_lines) /\ ~WrittenBy(key, byte_lines, idx + 1)
<1>1. /\ idx \in Nat /\ idx < Len(byte_lines) /\ stage = "loop" /\ key \in Keys
      /\ prev_hash = HashBehind(byte_lines, idx) /\ prev_hash \in Hash
  BY DEF VerifyInv, LoopInv, AtLine
<1>2. ~WrittenNext(key, byte_lines, idx)
  BY <1>1, PassesIfWritten DEF WrittenNext, raw
<1> QED
  BY <1>1, <1>2, OneMoreWritten

LEMMA VerifyInvRaise ==
    ASSUME VerifyInv, NEW exception \in Exceptions, stage \in {"before", "loop"}, Raise(exception),
           exception = "ValueError" => AtLine /\ ~Passes(key, raw, idx, prev_hash)
    PROVE  VerifyInv'
<1>1. ASSUME exception = "ValueError"
      PROVE  key \in Keys /\ idx < Len(byte_lines) /\ ~WrittenBy(key, byte_lines, idx + 1)
  BY <1>1, FirstUnwritten
<1> QED
  BY <1>1 DEF VerifyInv, LoopInv, Raise

LEMMA VerifyInvFail ==
    ASSUME VerifyInv, NEW kind \in FailureKind, NEW seq \in Int \cup {None}, AtLine, Fail(kind, seq),
           kind = Complaint(raw, idx, prev_hash), ~Passes(key, raw, idx, prev_hash)
    PROVE  VerifyInv'
<1>1. /\ idx \in Nat /\ idx < Len(byte_lines) /\ stage = "loop" /\ key \in Keys
      /\ prev_hash = HashBehind(byte_lines, idx) /\ prev_hash \in Hash /\ expected_seq = idx
  BY DEF VerifyInv, LoopInv, AtLine
<1>2. ~WrittenBy(key, byte_lines, idx + 1)
  BY FirstUnwritten
<1>3. kind = Complaint(byte_lines[idx + 1], idx, HashBehind(byte_lines, idx))
  BY <1>1 DEF raw
<1>4. /\ stage' = "returned"
      /\ UNCHANGED << raised, key, byte_lines, idx, prev_hash, expected_seq >>
      /\ result' = [ok |-> FALSE, entries_checked |-> idx,
                    failure |-> [line |-> idx + 1, sequence_number |-> seq, kind |-> kind]]
  BY <1>1 DEF Fail
<1>5. result' \in VerifyResult
  BY <1>1, <1>4 DEF VerifyResult, VerifyFailure
<1>6. VerdictFits(key, byte_lines, idx, result')
  BY <1>1, <1>2, <1>3, <1>4 DEF VerdictFits
<1> QED
  BY <1>1, <1>4, <1>5, <1>6 DEF VerifyInv, LoopInv

LEMMA VerifyInvPasses ==
    ASSUME VerifyInv, LinePasses
    PROVE  VerifyInv'
<1>1. /\ idx \in Nat /\ idx < Len(byte_lines) /\ stage = "loop" /\ key \in Keys
      /\ byte_lines \in Seq(RawLine)
      /\ prev_hash = HashBehind(byte_lines, idx) /\ prev_hash \in Hash /\ expected_seq = idx
  BY DEF VerifyInv, LoopInv, LinePasses, AtLink, AtSequence, AtEvent, AtObject, AtLine
<1>2. Passes(key, raw, idx, prev_hash)
  BY <1>1 DEF LinePasses, AtLink, AtSequence, AtEvent, AtObject, Passes, payload, event, IsCanonical,
              compute_current_hash, RequiredKeys
<1>3. raw \in RawLine
  BY <1>1, ElementOfSeq DEF raw
<1>4. /\ raw.event.call \in Calls
      /\ raw.event = MakeEvent(key, idx, raw.event.call, prev_hash)
      /\ raw.event.current_hash \in Hash
  BY <1>1, <1>2, <1>3, WrittenIfPasses
<1>5. WrittenBy(key, byte_lines, idx + 1)
  BY <1>1, <1>2, <1>4, OneMoreWritten DEF VerifyInv, LoopInv, WrittenNext, raw, Passes
<1>6. /\ prev_hash' = raw.event.current_hash /\ expected_seq' = idx + 1 /\ idx' = idx + 1
      /\ UNCHANGED << stage, raised, key, byte_lines, result >>
  BY <1>1 DEF LinePasses, AtLink, AtSequence, event
<1>7. prev_hash' = HashBehind(byte_lines, idx + 1)
  BY <1>1, <1>6 DEF HashBehind, raw
<1> QED
  BY <1>1, <1>4, <1>5, <1>6, <1>7 DEF VerifyInv, LoopInv

\* One step of verify(): every way a line can end is one of these.
LEMMA VerifyInvNext ==
    ASSUME VerifyInv, VerifyNext
    PROVE  VerifyInv'
<1>1. CASE ParseError
  BY <1>1, VerifyInvFail DEF ParseError, FailureKind, Complaint, Passes, Unreadable
<1>2. CASE LoadsRaises
  BY <1>2, VerifyInvRaise DEF LoadsRaises, Exceptions, AtLine, Passes
<1>3. ASSUME AtObject PROVE ParsedSequence \in Int \cup {None}
  <2>1. raw \in RawLine
    BY <1>3, ElementOfSeq DEF raw, AtObject, AtLine, VerifyInv, LoopInv
  <2>2. event \in RawEvent
    BY <1>3, <2>1 DEF AtObject, event, RawLine, Unreadable
  <2>3. "sequence_number" \in DOMAIN event => event.sequence_number \in Int \cup {NotInt}
    BY <2>2, RawEventFields DEF FieldValues
  <2> QED
    BY <2>3 DEF ParsedSequence
<1>4. CASE UnexpectedField
  BY <1>3, <1>4, VerifyInvFail DEF UnexpectedField, AtObject, FailureKind, Complaint, Passes, event
<1>5. CASE MissingField
  BY <1>3, <1>5, VerifyInvFail DEF MissingField, AtObject, FailureKind, Complaint, Passes, event
<1>6. CASE SequenceGap
  <2>1. event.sequence_number # idx
    BY <1>6 DEF SequenceGap, VerifyInv, LoopInv
  <2> QED
    BY <1>3, <1>6, <2>1, VerifyInvFail DEF SequenceGap, AtEvent, AtObject, FailureKind, Complaint, Passes, event
<1>7. CASE ChainBreak
  BY <1>7, VerifyInvFail DEF ChainBreak, AtSequence, AtEvent, AtObject, FailureKind, Complaint, Passes, event,
                             VerifyInv, LoopInv
<1>8. CASE ContentTampered
  BY <1>8, VerifyInvFail DEF ContentTampered, AtLink, AtSequence, AtEvent, AtObject, FailureKind, Complaint,
                             Passes, event, VerifyInv, LoopInv, payload, IsCanonical,
                             compute_current_hash, RequiredKeys
<1>9. CASE LinePasses
  BY <1>9, VerifyInvPasses
<1>10. CASE AllPassed
  <2>1. /\ result' = [ok |-> TRUE, entries_checked |-> idx, failure |-> None]
        /\ stage = "loop" /\ idx = Len(byte_lines) /\ stage' = "returned" /\ idx \in Nat
        /\ UNCHANGED << raised, key, byte_lines, idx, prev_hash, expected_seq >>
    <3>1. expected_seq = idx /\ idx \in Nat
      BY DEF VerifyInv, LoopInv
    <3> QED
      BY <1>10, <3>1 DEF AllPassed
  <2>2. result' \in VerifyResult /\ VerdictFits(key, byte_lines, idx, result')
    BY <2>1 DEF VerifyResult, VerdictFits
  <2> QED
    BY <2>1, <2>2 DEF VerifyInv, LoopInv
<1> QED
  BY <1>1, <1>2, <1>4, <1>5, <1>6, <1>7, <1>8, <1>9, <1>10 DEF VerifyNext

LEMMA VerifyInvStutter ==
    ASSUME VerifyInv, UNCHANGED verifier
    PROVE  VerifyInv'
BY DEF VerifyInv, LoopInv, verifier
=============================================================================
