-------------------------- MODULE EditedLogProofs ---------------------------
(***************************************************************************)
(* Proofs about EditedLog and Cli: what verify() says of a log after any   *)
(* number of appends and of changes to its file, for any number of events, *)
(* calls and keys.                                                         *)
(***************************************************************************)
EXTENDS Cli, VerifyProofs

-----------------------------------------------------------------------------
(* Typing *)

\* The last thing hashed under h was hashed with Key.
Ended(h) == h # << >> /\ h[Len(h)].key = Key

\* Whoever edits lines does not have the key: g are the genuine events.
KnownTo(g, h) == h \in Hash /\ Ended(h) => \E m \in 1..Len(g) : g[m].current_hash = h

GoodLine(g) ==
    {line \in RawLine :
        line.kind = "object" /\ "current_hash" \in DOMAIN line.event =>
            KnownTo(g, line.event.current_hash)}

GoodFile(g) == [lines : Seq(GoodLine(g)), tail : GoodLine(g) \cup {NoTail}]

Writers(g) ==
    {w \in [_key : Keys, _next_sequence : Nat, _last_current_hash : Hash, on_path : BOOLEAN] :
        KnownTo(g, w._last_current_hash)}

\* The events that were written: each made with some key behind a hash that was
\* given out before it, and no two for the same call.
GenuineInv(g) ==
    /\ g \in Seq(AuditEvent)
    /\ \A m \in 1..Len(g) : \E k \in Keys :
         g[m] = MakeEvent(k, g[m].sequence_number, g[m].call, g[m].previous_hash)
    /\ \A m \in 1..Len(g) : Ended(g[m].previous_hash) =>
         \E l \in 1..m - 1 : g[l].current_hash = g[m].previous_hash
    /\ \A l, m \in 1..Len(g) : g[l].call = g[m].call => l = m

FileInv ==
    /\ file \in GoodFile(genuine)
    /\ access \in Access
    /\ writer \in Writers(genuine) \cup {None}
    /\ other \in Writers(genuine) \cup {None}
    /\ GenuineInv(genuine)

LEMMA GoodFileIsRaw == ASSUME NEW g PROVE GoodFile(g) \subseteq RawFile
<1>1. GoodLine(g) \subseteq RawLine
  BY DEF GoodLine
<1>2. Seq(GoodLine(g)) \subseteq Seq(RawLine)
  BY <1>1, SeqMonotonic
<1> QED
  BY <1>1, <1>2 DEF GoodFile, RawFile

LEMMA EndedHash ==
    ASSUME NEW h \in Hash, NEW link
    PROVE  Ended(Append(h, link)) <=> link.key = Key
<1>1. /\ Append(h, link) # << >>
      /\ Len(Append(h, link)) = Len(h) + 1
      /\ Append(h, link)[Len(h) + 1] = link
  BY DEF Hash
<1> QED
  BY <1>1 DEF Ended

LEMMA GenesisKnown == ASSUME NEW g PROVE Genesis \in Hash /\ KnownTo(g, Genesis)
BY EmptySeq DEF KnownTo, Ended, Genesis, Hash

LEMMA Grown ==
    ASSUME NEW g \in Seq(AuditEvent), NEW e \in AuditEvent
    PROVE  /\ Append(g, e) \in Seq(AuditEvent)
           /\ Len(Append(g, e)) = Len(g) + 1
           /\ \A i \in 1..Len(g) : Append(g, e)[i] = g[i]
           /\ Append(g, e)[Len(g) + 1] = e
           /\ Len(g) \in Nat
BY AppendProperties, LenProperties

LEMMA KnownGrows ==
    ASSUME NEW g \in Seq(AuditEvent), NEW e \in AuditEvent
    PROVE  /\ \A h : KnownTo(g, h) => KnownTo(Append(g, e), h)
           /\ GoodLine(g) \subseteq GoodLine(Append(g, e))
           /\ GoodFile(g) \subseteq GoodFile(Append(g, e))
           /\ Writers(g) \subseteq Writers(Append(g, e))
<1>1. ASSUME NEW h, KnownTo(g, h) PROVE KnownTo(Append(g, e), h)
  <2> SUFFICES ASSUME h \in Hash, Ended(h)
               PROVE  \E m \in 1..Len(Append(g, e)) : Append(g, e)[m].current_hash = h
    BY DEF KnownTo
  <2>1. PICK m \in 1..Len(g) : g[m].current_hash = h
    BY <1>1 DEF KnownTo
  <2> QED
    BY <2>1, Grown
<1>2. GoodLine(g) \subseteq GoodLine(Append(g, e))
  BY <1>1 DEF GoodLine
<1>3. GoodFile(g) \subseteq GoodFile(Append(g, e))
  BY <1>2, SeqMonotonic DEF GoodFile
<1>4. Writers(g) \subseteq Writers(Append(g, e))
  BY <1>1 DEF Writers
<1> QED
  BY <1>1, <1>2, <1>3, <1>4

LEMMA ObjectGood ==
    ASSUME NEW g, NEW e \in RawEvent, "current_hash" \in DOMAIN e => KnownTo(g, e.current_hash)
    PROVE  Object(e) \in GoodLine(g)
BY DEF Object, GoodLine, RawLine

LEMMA BrokenGood == ASSUME NEW g, NEW kind \in Unreadable PROVE Broken(kind) \in GoodLine(g)
BY DEF Broken, GoodLine, RawLine, Unreadable

LEMMA GluedGood ==
    ASSUME NEW g, NEW line \in GoodLine(g)
    PROVE  Glued(line) \in GoodLine(g)
BY BrokenGood DEF Glued, Unreadable

LEMMA NextEventMade ==
    ASSUME NEW w, w._key \in Keys, w._next_sequence \in Nat, w._last_current_hash \in Hash,
           NEW c \in Calls
    PROVE  /\ NextEvent(w, c) \in AuditEvent /\ NextEvent(w, c) \in RawEvent
           /\ NextEvent(w, c) = MakeEvent(w._key, w._next_sequence, c, w._last_current_hash)
           /\ NextEvent(w, c).sequence_number = w._next_sequence /\ NextEvent(w, c).call = c
           /\ NextEvent(w, c).previous_hash = w._last_current_hash
           /\ NextEvent(w, c).current_hash \in Hash
<1>1. NextEvent(w, c) = MakeEvent(w._key, w._next_sequence, c, w._last_current_hash)
  BY DEF NextEvent
<1>2. /\ MakeEvent(w._key, w._next_sequence, c, w._last_current_hash) \in AuditEvent
      /\ MakeEvent(w._key, w._next_sequence, c, w._last_current_hash) \in RawEvent
      /\ MakeEvent(w._key, w._next_sequence, c, w._last_current_hash).current_hash \in Hash
  BY MadeEventTyped
<1>3. /\ MakeEvent(w._key, w._next_sequence, c, w._last_current_hash).sequence_number
           = w._next_sequence
      /\ MakeEvent(w._key, w._next_sequence, c, w._last_current_hash).call = c
      /\ MakeEvent(w._key, w._next_sequence, c, w._last_current_hash).previous_hash
           = w._last_current_hash
  BY DEF MakeEvent
<1> QED
  BY <1>1, <1>2, <1>3

\* An event appended by a writer.
LEMMA NextEventGenuine ==
    ASSUME NEW g, GenuineInv(g), NEW w \in Writers(g), NEW c \in Calls,
           \A i \in 1..Len(g) : g[i].call # c
    PROVE  /\ NextEvent(w, c) \in AuditEvent
           /\ GenuineInv(Append(g, NextEvent(w, c)))
           /\ After(w, c) \in Writers(Append(g, NextEvent(w, c)))
           /\ Object(NextEvent(w, c)) \in GoodLine(Append(g, NextEvent(w, c)))
<1> DEFINE e == NextEvent(w, c)
           g2 == Append(g, e)
           k == w._key
<1>1. /\ k \in Keys /\ w._next_sequence \in Nat /\ w._last_current_hash \in Hash
      /\ KnownTo(g, w._last_current_hash)
  BY DEF Writers
<1>2. /\ e \in AuditEvent /\ e \in RawEvent
      /\ e = MakeEvent(k, w._next_sequence, c, w._last_current_hash)
      /\ e.sequence_number = w._next_sequence /\ e.call = c
      /\ e.previous_hash = w._last_current_hash
      /\ e.current_hash \in Hash
  BY <1>1, NextEventMade
<1> HIDE DEF e
<1>3. /\ g \in Seq(AuditEvent) /\ g2 \in Seq(AuditEvent) /\ Len(g2) = Len(g) + 1 /\ Len(g) \in Nat
      /\ \A i \in 1..Len(g) : g2[i] = g[i]
      /\ g2[Len(g) + 1] = e
  BY <1>2, Grown DEF GenuineInv
<1> HIDE DEF g2
<1>4. KnownTo(g2, e.current_hash)
  BY <1>3 DEF KnownTo
<1>5. GenuineInv(g2)
  <2>1. ASSUME NEW m \in 1..Len(g2)
        PROVE  \E key_ \in Keys :
                 g2[m] = MakeEvent(key_, g2[m].sequence_number, g2[m].call, g2[m].previous_hash)
    <3>1. CASE m = Len(g) + 1
      BY <1>1, <1>2, <1>3, <3>1
    <3>2. CASE m \in 1..Len(g)
      BY <1>3, <3>2 DEF GenuineInv
    <3> QED
      BY <1>3, <3>1, <3>2
  <2>2. ASSUME NEW m \in 1..Len(g2), Ended(g2[m].previous_hash)
        PROVE  \E l \in 1..m - 1 : g2[l].current_hash = g2[m].previous_hash
    <3>1. CASE m = Len(g) + 1
      <4>1. Ended(w._last_current_hash) /\ g2[m].previous_hash = w._last_current_hash
        BY <1>2, <1>3, <2>2, <3>1
      <4>2. PICK l \in 1..Len(g) : g[l].current_hash = w._last_current_hash
        BY <1>1, <4>1 DEF KnownTo
      <4> QED
        BY <1>3, <3>1, <4>1, <4>2
    <3>2. CASE m \in 1..Len(g)
      <4>1. PICK l \in 1..m - 1 : g[l].current_hash = g[m].previous_hash
        BY <1>3, <2>2, <3>2 DEF GenuineInv
      <4> QED
        BY <1>3, <3>2, <4>1
    <3> QED
      BY <1>3, <3>1, <3>2
  <2>3. ASSUME NEW l \in 1..Len(g2), NEW m \in 1..Len(g2), g2[l].call = g2[m].call PROVE l = m
    <3>1. CASE l = Len(g) + 1 /\ m \in 1..Len(g)
      BY <1>2, <1>3, <2>3, <3>1
    <3>2. CASE m = Len(g) + 1 /\ l \in 1..Len(g)
      BY <1>2, <1>3, <2>3, <3>2
    <3>3. CASE l \in 1..Len(g) /\ m \in 1..Len(g)
      BY <1>3, <2>3, <3>3 DEF GenuineInv
    <3> QED
      BY <1>3, <3>1, <3>2, <3>3
  <2> QED
    BY <1>3, <2>1, <2>2, <2>3 DEF GenuineInv
<1>6. After(w, c) \in Writers(g2)
  <2>1. After(w, c) = [_key |-> k, _next_sequence |-> w._next_sequence + 1,
                       _last_current_hash |-> e.current_hash, on_path |-> w.on_path]
    <3>1. w = [_key |-> w._key, _next_sequence |-> w._next_sequence,
               _last_current_hash |-> w._last_current_hash, on_path |-> w.on_path]
      BY DEF Writers
    <3>2. After(w, c) = [w EXCEPT !._next_sequence = w._next_sequence + 1,
                                  !._last_current_hash = e.current_hash]
      BY DEF After, e
    <3> QED
      BY <3>1, <3>2
  <2>2. w.on_path \in BOOLEAN
    BY DEF Writers
  <2> QED
    BY <1>1, <1>2, <1>4, <2>1, <2>2 DEF Writers
<1>7. Object(e) \in GoodLine(g2)
  BY <1>2, <1>4, ObjectGood
<1> QED
  BY <1>2, <1>5, <1>6, <1>7 DEF e, g2

\* What the constructor takes from a file.
LEMMA Resumed ==
    ASSUME NEW g, NEW f \in GoodFile(g), _load_resume_state(f).raised = "none"
    PROVE  /\ f.tail = NoTail
           /\ _load_resume_state(f).next_seq \in Nat
           /\ _load_resume_state(f).last_hash \in Hash
           /\ KnownTo(g, _load_resume_state(f).last_hash)
<1> DEFINE parts == _split_byte_lines(f)
           last == parts[Len(parts)]
<1>1. /\ f.lines \in Seq(GoodLine(g)) /\ f.tail \in GoodLine(g) \cup {NoTail}
      /\ parts \in Seq(GoodLine(g))
      /\ f.tail # NoTail => parts # << >>
  BY AppendProperties DEF GoodFile, _split_byte_lines
<1> HIDE DEF parts
<1>2. CASE parts = << >>
  BY <1>1, <1>2, GenesisKnown DEF _load_resume_state, parts, ResumeState
<1>3. CASE parts # << >>
  <2>1. last \in GoodLine(g)
    BY <1>1, <1>3, ElementOfSeq, LenProperties, EmptySeq
  <2>2. last.kind \in Unreadable \cup {"object"}
    BY <2>1 DEF GoodLine, RawLine
  <2> HIDE DEF last
  <2>3. last.kind = "object" /\ f.tail = NoTail /\ _load_resume_state(f) = ResumeFrom(last.event)
    BY <1>3, <2>2 DEF _load_resume_state, parts, last, Raised, Unreadable
  <2>4. CanResumeFrom(last.event) /\ last.event \in RawEvent
    BY <2>1, <2>3 DEF ResumeFrom, Raised, GoodLine, RawLine, Unreadable
  <2>5. /\ last.event.sequence_number \in Int \cup {NotInt}
        /\ last.event.current_hash \in Hash \cup {NotHash}
        /\ "current_hash" \in DOMAIN last.event
    BY <2>4, RawEventFields DEF CanResumeFrom, RequiredKeys, FieldValues
  <2>6. KnownTo(g, last.event.current_hash)
    BY <2>1, <2>3, <2>5 DEF GoodLine
  <2> QED
    BY <2>3, <2>4, <2>5, <2>6 DEF ResumeFrom, ResumeState, CanResumeFrom
<1> QED
  BY <1>2, <1>3

-----------------------------------------------------------------------------
(* The steps keep the typing *)

LEMMA FileInvInit == Init => FileInv
<1> SUFFICES ASSUME Init PROVE FileInv
  OBVIOUS
<1>1. << >> \in Seq(AuditEvent) /\ << >> \in Seq(GoodLine(genuine)) /\ Len(<< >>) = 0
  BY EmptySeq
<1>2. GenuineInv(genuine)
  BY <1>1 DEF Init, GenuineInv
<1>3. file \in GoodFile(genuine)
  BY <1>1 DEF Init, GoodFile, EmptyFile
<1> QED
  BY <1>2, <1>3 DEF Init, FileInv, Access

LEMMA InstanceGood ==
    ASSUME FileInv, NEW k \in Keys \cup {None}, Opened(k).raised = "none"
    PROVE  /\ k \in Keys
           /\ file.tail = NoTail
           /\ Instance(k) \in Writers(genuine)
           /\ Opened(k) = _load_resume_state(file)
<1>1. k # None /\ Opened(k) = _load_resume_state(file)
  BY DEF Opened, Raised
<1>2. file \in GoodFile(genuine)
  BY DEF FileInv
<1>3. /\ file.tail = NoTail
      /\ Opened(k).next_seq \in Nat
      /\ Opened(k).last_hash \in Hash
      /\ KnownTo(genuine, Opened(k).last_hash)
  BY <1>1, <1>2, Resumed
<1> QED
  BY <1>1, <1>3 DEF Instance, Writers

LEMMA FileInvConstruct ==
    ASSUME FileInv, NEW explicit, NEW env, Construct(explicit, env)
    PROVE  FileInv'
<1> DEFINE k == resolve_key(explicit, env)
<1>1. k \in Keys \cup {None}
  BY DEF resolve_key
<1>2. writer' \in Writers(genuine) \cup {None}
  BY <1>1, InstanceGood DEF Construct
<1>3. access' \in Access
  BY DEF Construct, FileInv, Access
<1> QED
  BY <1>2, <1>3 DEF Construct, FileInv

\* A file with one more line.
LEMMA FileInvAppend ==
    ASSUME FileInv, NEW w \in Writers(genuine) \cup {None}, NEW c \in Calls, AppendEvent(w, c)
    PROVE  /\ w \in Writers(genuine)
           /\ genuine' = Append(genuine, NextEvent(w, c))
           /\ file' \in GoodFile(genuine')
           /\ GenuineInv(genuine')
           /\ After(w, c) \in Writers(genuine')
           /\ Writers(genuine) \subseteq Writers(genuine')
           /\ access' \in Access
<1> DEFINE e == NextEvent(w, c)
<1>1. /\ w \in Writers(genuine) /\ genuine' = Append(genuine, e)
      /\ \A i \in 1..Len(genuine) : genuine[i].call # c
      /\ GenuineInv(genuine) /\ genuine \in Seq(AuditEvent)
  BY DEF AppendEvent, FileInv, GenuineInv
<1>2. /\ e \in AuditEvent
      /\ GenuineInv(genuine')
      /\ After(w, c) \in Writers(genuine')
      /\ Object(e) \in GoodLine(genuine')
  BY <1>1, NextEventGenuine
<1> HIDE DEF e
<1>3. /\ GoodLine(genuine) \subseteq GoodLine(genuine')
      /\ GoodFile(genuine) \subseteq GoodFile(genuine')
      /\ Writers(genuine) \subseteq Writers(genuine')
  BY <1>1, <1>2, KnownGrows
<1>4. /\ file \in GoodFile(genuine') /\ file.lines \in Seq(GoodLine(genuine'))
      /\ file.tail \in GoodLine(genuine') \cup {NoTail}
  BY <1>3 DEF FileInv, GoodFile
<1>5. file' \in GoodFile(genuine')
  <2> DEFINE line == IF file.tail = NoTail THEN Object(e) ELSE Glued(file.tail)
  <2>1. line \in GoodLine(genuine')
    BY <1>2, <1>4, GluedGood
  <2>2. file' = file \/ file' = [lines |-> Append(file.lines, line), tail |-> NoTail]
    BY DEF AppendEvent, e
  <2> HIDE DEF line
  <2>3. Append(file.lines, line) \in Seq(GoodLine(genuine'))
    BY <1>4, <2>1, AppendProperties
  <2> QED
    BY <1>4, <2>2, <2>3 DEF GoodFile
<1>6. access' \in Access
  BY DEF AppendEvent, FileInv
<1> QED
  BY <1>1, <1>2, <1>3, <1>5, <1>6 DEF e

LEMMA FileInvRecord ==
    ASSUME FileInv, NEW c \in Calls, Record(c)
    PROVE  FileInv'
<1>1. writer \in Writers(genuine) \cup {None} /\ AppendEvent(writer, c)
  BY DEF FileInv, Record
<1>2. other' = other /\ writer' = After(writer, c)
  BY DEF Record
<1> QED
  BY <1>1, <1>2, FileInvAppend DEF FileInv

LEMMA FileInvRecordOther ==
    ASSUME FileInv, NEW c \in Calls, RecordOther(c)
    PROVE  FileInv'
<1>1. other \in Writers(genuine) \cup {None} /\ AppendEvent(other, c)
  BY DEF FileInv, RecordOther
<1>2. writer' = writer /\ other' = After(other, c)
  BY DEF RecordOther
<1> QED
  BY <1>1, <1>2, FileInvAppend DEF FileInv

LEMMA FileInvSecond ==
    ASSUME FileInv, Second
    PROVE  FileInv'
<1>1. Instance(Key) \in Writers(genuine)
  BY InstanceGood, EditedLogAssumption DEF Second
<1> QED
  BY <1>1 DEF Second, FileInv, Access

LEMMA OffPathGood ==
    ASSUME NEW g, NEW w \in Writers(g) \cup {None}
    PROVE  OffPath(w) \in Writers(g) \cup {None}
BY DEF OffPath, Writers

LEMMA FileInvRemove ==
    ASSUME FileInv, Remove
    PROVE  FileInv'
<1>1. /\ OffPath(writer) \in Writers(genuine) \cup {None}
      /\ OffPath(other) \in Writers(genuine) \cup {None}
  BY OffPathGood DEF FileInv
<1>2. file' \in GoodFile(genuine)
  BY EmptySeq DEF Remove, EmptyFile, GoodFile
<1> QED
  BY <1>1, <1>2 DEF Remove, FileInv, Access

LEMMA FileInvChangeAccess ==
    ASSUME FileInv, NEW to \in Access, ChangeAccess(to)
    PROVE  FileInv'
BY DEF ChangeAccess, FileInv

LEMMA FileInvEdit ==
    ASSUME FileInv, NEW op, NEW i, NEW what, NEW new \in GoodFile(genuine), Edit(op, i, what, new)
    PROVE  FileInv'
BY DEF Edit, FileInv

LEMMA FileInvRewrite ==
    ASSUME FileInv, NEW op, NEW i \in Lines, NEW what, NEW line \in GoodLine(genuine),
           Rewrite(op, i, what, line)
    PROVE  FileInv'
<1> DEFINE new == [file EXCEPT !.lines[i] = line]
<1>1. file.lines \in Seq(GoodLine(genuine)) /\ file.tail \in GoodLine(genuine) \cup {NoTail}
  BY DEF FileInv, GoodFile
<1>2. new = [lines |-> [file.lines EXCEPT ![i] = line], tail |-> file.tail]
  BY DEF FileInv, GoodFile
<1>3. [file.lines EXCEPT ![i] = line] \in Seq(GoodLine(genuine))
  BY <1>1, ExceptSeq DEF Lines
<1>4. new \in GoodFile(genuine)
  BY <1>1, <1>2, <1>3 DEF GoodFile
<1> HIDE DEF new
<1> QED
  BY <1>4, FileInvEdit DEF Rewrite, new

LEMMA LineAt ==
    ASSUME FileInv, NEW i \in Lines
    PROVE  /\ file.lines[i] \in GoodLine(genuine)
           /\ file.lines[i].kind = "object" =>
                /\ file.lines[i].event \in RawEvent
                /\ "current_hash" \in DOMAIN file.lines[i].event =>
                     KnownTo(genuine, file.lines[i].event.current_hash)
<1>1. file.lines[i] \in GoodLine(genuine)
  BY ElementOfSeq DEF FileInv, GoodFile, Lines
<1> QED
  BY <1>1 DEF GoodLine, RawLine, Unreadable

LEMMA EventExcept ==
    ASSUME NEW e \in RawEvent, NEW field \in DOMAIN e, NEW value \in FieldValues(field)
    PROVE  [e EXCEPT ![field] = value] \in RawEvent
<1> DEFINE d == [e EXCEPT ![field] = value]
<1>1. /\ e = [f \in DOMAIN e |-> e[f]] /\ \A f \in DOMAIN e : e[f] \in FieldValues(f)
      /\ DOMAIN e \in SUBSET FieldNames
  BY RawEventFields
<1>2. DOMAIN d = DOMAIN e /\ d = [f \in DOMAIN e |-> d[f]]
  BY <1>1
<1>3. \A f \in DOMAIN e : d[f] = IF f = field THEN value ELSE e[f]
  BY <1>1
<1>4. \A f \in DOMAIN e : d[f] \in FieldValues(f)
  BY <1>1, <1>3
<1> HIDE DEF d
<1>5. d \in RawEvent
  BY <1>1, <1>2, <1>4, RawEventMade
<1> QED
  BY <1>5 DEF d

LEMMA ValuesTyped ==
    ASSUME GenuineInv(genuine), NEW field \in RequiredKeys, NEW value \in Values(field)
    PROVE  /\ value \in FieldValues(field)
           /\ field = "current_hash" => KnownTo(genuine, value)
<1>1. GenuineHashes \subseteq Hash
  <2> SUFFICES ASSUME NEW i \in 1..Len(genuine) PROVE genuine[i].current_hash \in Hash
    BY DEF GenuineHashes
  <2>1. genuine[i] \in AuditEvent
    BY ElementOfSeq DEF GenuineInv
  <2> QED
    BY <2>1 DEF AuditEvent
<1>2. \A h \in GenuineHashes : KnownTo(genuine, h)
  BY DEF GenuineHashes, KnownTo
<1>3. Genesis \in Hash /\ KnownTo(genuine, Genesis) /\ KnownTo(genuine, NotHash)
  BY GenesisKnown, RawLogAssumption DEF KnownTo
<1>4. CASE field = "sequence_number"
  BY <1>4, EditedLogAssumption DEF Values, FieldValues
<1>5. CASE field = "call"
  BY <1>5 DEF Values, FieldValues
<1>6. CASE field = "previous_hash"
  BY <1>1, <1>3, <1>6 DEF Values, FieldValues
<1>7. CASE field = "current_hash"
  BY <1>1, <1>2, <1>3, <1>7 DEF Values, FieldValues
<1> QED
  BY <1>4, <1>5, <1>6, <1>7 DEF RequiredKeys

LEMMA FileInvChangeField ==
    ASSUME FileInv, NEW i \in Lines, NEW field \in RequiredKeys, NEW value \in Values(field),
           ChangeField(i, field, value)
    PROVE  FileInv'
<1> DEFINE e == file.lines[i].event
           d == [e EXCEPT ![field] = value]
<1>1. e \in RawEvent /\ field \in DOMAIN e
  BY LineAt DEF ChangeField
<1>2. value \in FieldValues(field) /\ (field = "current_hash" => KnownTo(genuine, value))
  BY ValuesTyped DEF FileInv
<1>3. d \in RawEvent
  BY <1>1, <1>2, EventExcept
<1>4. "current_hash" \in DOMAIN d => KnownTo(genuine, d.current_hash)
  <2>1. "current_hash" \in DOMAIN e => KnownTo(genuine, e.current_hash)
    BY LineAt DEF ChangeField
  <2>2. DOMAIN d = DOMAIN e
    BY <1>1, RawEventFields
  <2>3. "current_hash" \in DOMAIN e =>
          d.current_hash = IF field = "current_hash" THEN value ELSE e.current_hash
    BY <1>1, RawEventFields
  <2> QED
    BY <1>2, <2>1, <2>2, <2>3
<1> HIDE DEF d
<1>5. Object(d) \in GoodLine(genuine)
  BY <1>3, <1>4, ObjectGood
<1> QED
  BY <1>5, FileInvRewrite DEF ChangeField, d

\* The line is an object with fewer or more fields, and those it had are the same.
LEMMA FileInvFields ==
    ASSUME FileInv, NEW op, NEW i \in Lines, NEW what, NEW d, NEW fields \in SUBSET FieldNames,
           file.lines[i].kind = "object",
           d = [f \in fields |-> IF f \in DOMAIN file.lines[i].event
                                 THEN file.lines[i].event[f] ELSE None],
           fields \subseteq DOMAIN file.lines[i].event \cup {"extra"},
           Rewrite(op, i, what, Object(d))
    PROVE  FileInv'
<1> DEFINE e == file.lines[i].event
<1>1. e \in RawEvent /\ ("current_hash" \in DOMAIN e => KnownTo(genuine, e.current_hash))
  BY LineAt
<1>2. \A f \in DOMAIN e : e[f] \in FieldValues(f)
  BY <1>1, RawEventFields
<1>3. None \in FieldValues("extra")
  BY DEF FieldValues
<1> HIDE DEF e
<1>4. d = [f \in fields |-> IF f \in DOMAIN e THEN e[f] ELSE None]
      /\ fields \subseteq DOMAIN e \cup {"extra"}
  BY DEF e
<1>5. \A f \in fields : d[f] \in FieldValues(f)
  BY <1>2, <1>3, <1>4
<1>6. d \in RawEvent
  BY <1>4, <1>5, RawEventMade
<1>7. "current_hash" \in DOMAIN d => KnownTo(genuine, d.current_hash)
  BY <1>1, <1>4
<1>8. Object(d) \in GoodLine(genuine)
  BY <1>6, <1>7, ObjectGood
<1> QED
  BY <1>8, FileInvRewrite

LEMMA FileInvDropField ==
    ASSUME FileInv, NEW i \in Lines, NEW field, DropField(i, field)
    PROVE  FileInv'
<1> DEFINE e == file.lines[i].event
           d == [f \in DOMAIN e \ {field} |-> e[f]]
           fields == DOMAIN e \ {field}
<1>1. /\ file.lines[i].kind = "object" /\ Rewrite("drop", i, field, Object(d))
      /\ e \in RawEvent
  BY LineAt DEF DropField
<1>2. fields \in SUBSET FieldNames /\ fields \subseteq DOMAIN e \cup {"extra"}
  BY <1>1, RawEventFields
<1>3. d = [f \in fields |-> IF f \in DOMAIN e THEN e[f] ELSE None]
  OBVIOUS
<1> HIDE DEF d, fields
<1> QED
  BY <1>1, <1>2, <1>3, FileInvFields

LEMMA FileInvAddField ==
    ASSUME FileInv, NEW i \in Lines, AddField(i)
    PROVE  FileInv'
<1> DEFINE e == file.lines[i].event
           fields == DOMAIN e \cup {"extra"}
           d == [f \in fields |-> IF f = "extra" THEN None ELSE e[f]]
<1>1. /\ file.lines[i].kind = "object" /\ Rewrite("add", i, "extra", Object(d))
      /\ e \in RawEvent
  BY LineAt DEF AddField
<1>2. fields \in SUBSET FieldNames /\ fields \subseteq DOMAIN e \cup {"extra"}
  BY <1>1, RawEventFields DEF FieldNames
<1>3. "extra" \in DOMAIN e => e["extra"] = None
  BY <1>1, RawEventFields DEF FieldValues
<1>4. d = [f \in fields |-> IF f \in DOMAIN e THEN e[f] ELSE None]
  BY <1>3
<1> HIDE DEF d, fields
<1> QED
  BY <1>1, <1>2, <1>4, FileInvFields

LEMMA FileInvRekey ==
    ASSUME FileInv, NEW i \in Lines, Rekey(i)
    PROVE  FileInv'
<1> DEFINE e == file.lines[i].event
           h == compute_current_hash(OtherKey, e)
           d == [e EXCEPT !.current_hash = h]
<1>1. /\ Rewrite("rekey", i, "current_hash", Object(d)) /\ e \in RawEvent /\ DOMAIN e = RequiredKeys
      /\ e.previous_hash # NotHash /\ e.sequence_number \in Nat /\ IsCanonical(e)
  BY LineAt DEF Rekey
<1>2. e.previous_hash \in Hash /\ e.call \in Calls
  <2>1. /\ e.previous_hash \in Hash \cup {NotHash}
        /\ e.call \in Calls \cup {NotCanonical}
    BY <1>1, EventFromFields
  <2> QED
    BY <1>1, <2>1 DEF IsCanonical
<1> DEFINE link == [key |-> OtherKey, sequence_number |-> e.sequence_number, call |-> e.call]
<1>3. h = Append(e.previous_hash, link)
  BY DEF compute_current_hash
<1>4. link \in Link /\ link.key # Key
  BY <1>1, <1>2, EditedLogAssumption DEF Link
<1> HIDE DEF link
<1>5. h \in Hash
  BY <1>2, <1>3, <1>4, AppendProperties DEF Hash
<1>6. ~Ended(h)
  BY <1>2, <1>3, <1>4, EndedHash
<1> HIDE DEF h
<1>7. h \in FieldValues("current_hash") /\ "current_hash" \in DOMAIN e
  BY <1>1, <1>5 DEF FieldValues, RequiredKeys
<1> HIDE DEF e
<1>8. d \in RawEvent
  BY <1>1, <1>7, EventExcept
<1>9. d.current_hash = h
  BY <1>1, <1>7, RawEventFields
<1> HIDE DEF d
<1>10. Object(d) \in GoodLine(genuine)
  BY <1>6, <1>8, <1>9, ObjectGood DEF KnownTo
<1> QED
  BY <1>1, <1>10, FileInvRewrite

LEMMA RespelledGood ==
    ASSUME NEW g, NEW line \in GoodLine(g), line.kind = "object"
    PROVE  /\ Respelled(line) \in GoodLine(g)
           /\ Respelled(line).kind = "object"
           /\ Respelled(line).event = line.event
<1>1. line = [kind |-> "object", event |-> line.event, spelling |-> line.spelling]
      /\ line.event \in RawEvent
  BY DEF GoodLine, RawLine, Unreadable
<1>2. Respelled(line) = [kind |-> "object", event |-> line.event, spelling |-> "other"]
  BY <1>1 DEF Respelled
<1> QED
  BY <1>1, <1>2 DEF GoodLine, RawLine

LEMMA FileInvRespell ==
    ASSUME FileInv, NEW i \in Lines, Respell(i)
    PROVE  FileInv'
<1>1. Respelled(file.lines[i]) \in GoodLine(genuine)
  BY LineAt, RespelledGood DEF Respell
<1> QED
  BY <1>1, FileInvRewrite DEF Respell

\* Loading an event and writing it changes nothing.
LEMMA Reloaded ==
    ASSUME NEW e \in RawEvent, from_dict(e) # None
    PROVE  to_dict(from_dict(e)) = e
<1>1. e = [f \in DOMAIN e |-> e[f]]
  BY RawEventFields
<1>2. DOMAIN e = RequiredKeys
  BY DEF from_dict
<1> QED
  BY <1>1, <1>2 DEF from_dict, to_dict

LEMMA FileInvReload ==
    ASSUME FileInv, NEW i \in Lines, Reload(i)
    PROVE  FileInv'
<1> DEFINE e == file.lines[i].event
<1>1. e \in RawEvent /\ ("current_hash" \in DOMAIN e => KnownTo(genuine, e.current_hash))
  BY LineAt DEF Reload
<1>2. to_dict(from_dict(e)) = e
  BY <1>1, Reloaded DEF Reload
<1>3. Object(e) \in GoodLine(genuine)
  BY <1>1, ObjectGood
<1> QED
  BY <1>2, <1>3, FileInvRewrite DEF Reload

LEMMA FileInvGarble ==
    ASSUME FileInv, NEW i \in Lines, NEW kind \in Unreadable, Garble(i, kind)
    PROVE  FileInv'
BY BrokenGood, FileInvRewrite DEF Garble

\* The file gets other lines.
LEMMA FileInvLines ==
    ASSUME FileInv, NEW op, NEW i, NEW what, NEW new,
           new \in Seq(GoodLine(genuine)), Edit(op, i, what, [lines |-> new, tail |-> file.tail])
    PROVE  FileInv'
<1>1. [lines |-> new, tail |-> file.tail] \in GoodFile(genuine)
  BY DEF FileInv, GoodFile
<1> QED
  BY <1>1, FileInvEdit

LEMMA FileExcept ==
    ASSUME FileInv, NEW new
    PROVE  [file EXCEPT !.lines = new] = [lines |-> new, tail |-> file.tail]
BY DEF FileInv, GoodFile

LEMMA LinesTyped ==
    FileInv => /\ file.lines \in Seq(GoodLine(genuine))
               /\ Len(file.lines) \in Nat
               /\ \A i \in 1..Len(file.lines) : file.lines[i] \in GoodLine(genuine)
BY ElementOfSeq, LenProperties DEF FileInv, GoodFile

LEMMA FileInvDelete ==
    ASSUME FileInv, NEW i \in Lines, Delete(i)
    PROVE  FileInv'
<1> DEFINE n == Len(file.lines)
           new == [j \in 1..n - 1 |-> IF j < i THEN file.lines[j] ELSE file.lines[j + 1]]
<1>1. n \in Nat /\ n >= 1 /\ \A j \in 1..n : file.lines[j] \in GoodLine(genuine)
  BY LinesTyped DEF Lines
<1>2. Edit("delete", i, None, [lines |-> new, tail |-> file.tail])
  BY FileExcept DEF Delete
<1>3. \A j \in 1..n - 1 : new[j] \in GoodLine(genuine)
  BY <1>1
<1>4. n - 1 \in Nat
  BY <1>1
<1> HIDE DEF n
<1>5. new \in Seq(GoodLine(genuine))
  BY <1>3, <1>4, IsASeq
<1> HIDE DEF new
<1> QED
  BY <1>2, <1>5, FileInvLines

LEMMA FileInvSwap ==
    ASSUME FileInv, NEW i \in Lines, NEW j \in Lines, Swap(i, j)
    PROVE  FileInv'
<1> DEFINE new == [file.lines EXCEPT ![i] = file.lines[j], ![j] = file.lines[i]]
<1>1. file.lines \in Seq(GoodLine(genuine)) /\ file.lines[i] \in GoodLine(genuine)
      /\ file.lines[j] \in GoodLine(genuine)
  BY LinesTyped DEF Lines
<1>2. Edit("swap", i, j, [lines |-> new, tail |-> file.tail])
  <2>1. [file EXCEPT !.lines[i] = file.lines[j], !.lines[j] = file.lines[i]]
          = [lines |-> new, tail |-> file.tail]
    <3>1. file = [lines |-> file.lines, tail |-> file.tail]
      BY DEF FileInv, GoodFile
    <3> DEFINE once == [file EXCEPT !.lines[i] = file.lines[j]]
    <3>2. [file EXCEPT !.lines[i] = file.lines[j], !.lines[j] = file.lines[i]]
            = [once EXCEPT !.lines[j] = file.lines[i]]
      BY <3>1
    <3>3. once = [lines |-> [file.lines EXCEPT ![i] = file.lines[j]], tail |-> file.tail]
      BY <3>1
    <3> HIDE DEF once
    <3> QED
      BY <3>2, <3>3
  <2> QED
    BY <2>1 DEF Swap
<1>3. new \in Seq(GoodLine(genuine))
  <2>1. [file.lines EXCEPT ![i] = file.lines[j]] \in Seq(GoodLine(genuine))
        /\ Len([file.lines EXCEPT ![i] = file.lines[j]]) = Len(file.lines)
    BY <1>1, ExceptSeq DEF Lines
  <2>2. [[file.lines EXCEPT ![i] = file.lines[j]] EXCEPT ![j] = file.lines[i]]
          \in Seq(GoodLine(genuine))
    BY <1>1, <2>1, ExceptSeq DEF Lines
  <2> QED
    BY <2>2
<1> HIDE DEF new
<1> QED
  BY <1>2, <1>3, FileInvLines

LEMMA FileInvInsert ==
    ASSUME FileInv, NEW i \in 1..Len(file.lines) + 1, NEW n \in 1..Len(genuine), Insert(i, n)
    PROVE  FileInv'
<1> DEFINE len == Len(file.lines)
           e == genuine[n]
           new == [k \in 1..len + 1 |->
                     IF k < i THEN file.lines[k] ELSE IF k = i THEN Object(e) ELSE file.lines[k - 1]]
<1>1. len \in Nat /\ i \in 1..len + 1 /\ \A j \in 1..len : file.lines[j] \in GoodLine(genuine)
  BY LinesTyped
<1>2. Edit("insert", i, n, [lines |-> new, tail |-> file.tail])
  BY FileExcept DEF Insert
<1>3. Object(e) \in GoodLine(genuine)
  <2>1. /\ e \in AuditEvent
        /\ \E k \in Keys : e = MakeEvent(k, e.sequence_number, e.call, e.previous_hash)
    BY ElementOfSeq DEF FileInv, GenuineInv
  <2>2. e \in RawEvent
    BY <2>1, MadeEventTyped DEF AuditEvent
  <2>3. KnownTo(genuine, e.current_hash)
    BY DEF KnownTo
  <2> HIDE DEF e
  <2> QED
    BY <2>2, <2>3, ObjectGood
<1> HIDE DEF len, e
<1>4. \A k \in 1..len + 1 : new[k] \in GoodLine(genuine)
  BY <1>1, <1>3
<1>5. len + 1 \in Nat
  BY <1>1
<1>6. new \in Seq(GoodLine(genuine))
  BY <1>4, <1>5, IsASeq
<1> HIDE DEF new
<1> QED
  BY <1>2, <1>6, FileInvLines

LEMMA FileInvPermute ==
    ASSUME FileInv, NEW i \in Lines, NEW j \in Lines, Permute(i, j)
    PROVE  FileInv'
<1> DEFINE e == file.lines[j].event
           seq == file.lines[i].event.sequence_number
           d == [e EXCEPT !.sequence_number = seq]
<1>1. /\ Rewrite("permute", i, j, Object(d))
      /\ e \in RawEvent /\ ("current_hash" \in DOMAIN e => KnownTo(genuine, e.current_hash))
      /\ "sequence_number" \in DOMAIN e
      /\ file.lines[i].event \in RawEvent /\ "sequence_number" \in DOMAIN file.lines[i].event
  BY LineAt DEF Permute
<1>2. seq \in FieldValues("sequence_number")
  BY <1>1, RawEventFields
<1> HIDE DEF seq
<1>3. d \in RawEvent
  BY <1>1, <1>2, EventExcept
<1>4. DOMAIN d = DOMAIN e /\ ("current_hash" \in DOMAIN e => d.current_hash = e.current_hash)
  BY <1>1, RawEventFields
<1> HIDE DEF d
<1>5. Object(d) \in GoodLine(genuine)
  BY <1>1, <1>3, <1>4, ObjectGood
<1> QED
  BY <1>1, <1>5, FileInvRewrite

LEMMA FileInvCutNewline ==
    ASSUME FileInv, CutNewline
    PROVE  FileInv'
<1> DEFINE n == Len(file.lines)
<1>1. file.lines \in Seq(GoodLine(genuine)) /\ n \in Nat /\ n # 0
      /\ file.lines[n] \in GoodLine(genuine)
  BY LinesTyped, EmptySeq DEF CutNewline
<1>2. SubSeq(file.lines, 1, n - 1) \in Seq(GoodLine(genuine))
  BY <1>1, SubSeqProperties
<1>3. [lines |-> SubSeq(file.lines, 1, n - 1), tail |-> file.lines[n]] \in GoodFile(genuine)
  BY <1>1, <1>2 DEF GoodFile
<1> QED
  BY <1>3, FileInvEdit DEF CutNewline

LEMMA FileInvWriterNext ==
    ASSUME FileInv, WriterNext
    PROVE  FileInv'
<1>1. CASE EditNext
  <2>1. ASSUME NEW i \in Lines,
               \/ \E field \in RequiredKeys : \E value \in Values(field) : ChangeField(i, field, value)
               \/ \E field \in RequiredKeys : DropField(i, field)
               \/ AddField(i) \/ Rekey(i) \/ Respell(i) \/ Reload(i)
        PROVE  FileInv'
    BY <2>1, FileInvChangeField, FileInvDropField, FileInvAddField, FileInvRekey, FileInvRespell,
       FileInvReload
  <2>2. ASSUME NEW i \in Lines,
               \/ \E kind \in Unreadable : Garble(i, kind)
               \/ Delete(i)
               \/ \E j \in Lines : Swap(i, j) \/ Permute(i, j)
        PROVE  FileInv'
    BY <2>2, FileInvGarble, FileInvDelete, FileInvSwap, FileInvPermute
  <2>3. CASE \E i \in 1..Len(file.lines) + 1, n \in 1..Len(genuine) : Insert(i, n)
    BY <2>3, FileInvInsert
  <2>4. CASE CutNewline \/ Second \/ Remove
    BY <2>4, FileInvCutNewline, FileInvSecond, FileInvRemove
  <2>5. CASE \E to \in Access \ {"open", "absent"} : ChangeAccess(to)
    BY <2>5, FileInvChangeAccess
  <2> QED
    BY <1>1, <2>1, <2>2, <2>3, <2>4, <2>5 DEF EditNext
<1>2. CASE \E explicit \in Explicit, env \in Env : Construct(explicit, env)
  BY <1>2, FileInvConstruct
<1>3. CASE \E c \in Calls : Record(c) \/ RecordOther(c)
  BY <1>3, FileInvRecord, FileInvRecordOther
<1> QED
  BY <1>1, <1>2, <1>3 DEF WriterNext

-----------------------------------------------------------------------------
(* The reader *)

\* Once the file is read nothing changes it any more, and how verify() ended is
\* about the key and the file that are there.
ReadInv ==
    /\ stage \in {"loop", "returned"} \/ raised = "ValueError" =>
         /\ key = key_env /\ key_env \in Keys
         /\ access \in CanRead
         /\ byte_lines = _split_byte_lines(file)
    /\ stage = "raised" =>
         /\ raised \in {"MissingKeyError", "ConfigError", "PermissionError", "ValueError"}
         /\ raised = "MissingKeyError" => key_env \notin Keys
         /\ raised = "ConfigError" =>
              key_env \in Keys /\ access \notin CanRead /\ access # "unreachable"
         /\ raised = "PermissionError" => key_env \in Keys /\ access = "unreachable"

CliInv == FileInv /\ VerifyInv /\ ReadInv

\* What is done to the bytes of the file is an Edit; the rest is not.
LEMMA EditKinds ==
    EditNext => \/ Second
                \/ Remove
                \/ \E to \in Access : ChangeAccess(to)
                \/ stage = "before" /\ opened_on' = "changed" /\ UNCHANGED verifier
<1>1. ASSUME NEW op, NEW i, NEW what, NEW new, Edit(op, i, what, new)
      PROVE  stage = "before" /\ opened_on' = "changed" /\ UNCHANGED verifier
  BY <1>1 DEF Edit
<1>2. ASSUME NEW i \in Lines,
             \/ \E field \in RequiredKeys : \E value \in Values(field) : ChangeField(i, field, value)
             \/ \E field \in RequiredKeys : DropField(i, field)
             \/ AddField(i)
      PROVE  stage = "before" /\ opened_on' = "changed" /\ UNCHANGED verifier
  BY <1>1, <1>2 DEF ChangeField, DropField, AddField, Rewrite
<1>3. ASSUME NEW i \in Lines, Rekey(i) \/ Respell(i) \/ Reload(i) \/ Delete(i)
      PROVE  stage = "before" /\ opened_on' = "changed" /\ UNCHANGED verifier
  BY <1>1, <1>3 DEF Rekey, Respell, Reload, Delete, Rewrite
<1>4. ASSUME NEW i \in Lines,
             \/ \E kind \in Unreadable : Garble(i, kind)
             \/ \E j \in Lines : Swap(i, j) \/ Permute(i, j)
      PROVE  stage = "before" /\ opened_on' = "changed" /\ UNCHANGED verifier
  BY <1>1, <1>4 DEF Garble, Swap, Permute, Rewrite
<1>5. ASSUME NEW i, NEW n, Insert(i, n)
      PROVE  stage = "before" /\ opened_on' = "changed" /\ UNCHANGED verifier
  BY <1>1, <1>5 DEF Insert
<1>6. CASE CutNewline
  BY <1>1, <1>6 DEF CutNewline
<1> QED
  BY <1>2, <1>3, <1>4, <1>5, <1>6 DEF EditNext

LEMMA WriterLeavesReader == WriterNext => stage = "before" /\ UNCHANGED verifier
<1>1. CASE EditNext
  BY <1>1, EditKinds DEF Second, Remove, ChangeAccess
<1>2. CASE ~EditNext
  BY <1>2 DEF WriterNext, Construct, Record, RecordOther, AppendEvent
<1> QED
  BY <1>1, <1>2

LEMMA BeforeReading ==
    ASSUME VerifyInv, stage = "before"
    PROVE  raised = None /\ raised # "ValueError"
BY VerifyAssumption DEF VerifyInv, LoopInv, Exceptions

LEMMA CliInvWriter ==
    ASSUME CliInv, WriterNext, UNCHANGED cli
    PROVE  CliInv'
<1>1. stage = "before" /\ UNCHANGED verifier
  BY WriterLeavesReader
<1>2. FileInv'
  BY FileInvWriterNext DEF CliInv
<1>3. VerifyInv'
  BY <1>1, VerifyInvStutter DEF CliInv
<1>4. stage' = "before" /\ raised' # "ValueError"
  BY <1>1, BeforeReading DEF CliInv, verifier
<1>5. ReadInv'
  BY <1>4 DEF ReadInv
<1> QED
  BY <1>2, <1>3, <1>5 DEF CliInv

LEMMA FileInvUnchanged ==
    ASSUME FileInv, UNCHANGED << disk, writer, other, genuine >>
    PROVE  FileInv'
BY DEF FileInv, disk

LEMMA CliInvMissingKey ==
    ASSUME CliInv, NEW env, MissingKey(None, env), key_env' = env
    PROVE  VerifyInv' /\ ReadInv'
<1>1. stage = "before" /\ env \notin Keys /\ Raise("MissingKeyError")
  BY ResolveKeyAssumption DEF MissingKey, resolve_key
<1>2. VerifyInv'
  BY <1>1, VerifyInvRaise DEF CliInv, Exceptions, KronoError
<1>3. stage' = "raised" /\ raised' = "MissingKeyError"
  BY <1>1 DEF Raise
<1> QED
  BY <1>1, <1>2, <1>3 DEF ReadInv

LEMMA CliInvLogUnavailable ==
    ASSUME CliInv, NEW env, LogUnavailable(None, env), key_env' = env
    PROVE  VerifyInv' /\ ReadInv'
<1>1. stage = "before" /\ env \in Keys /\ access \notin CanRead
  BY DEF LogUnavailable, resolve_key
<1>2. PICK exception \in {"ConfigError", "PermissionError"} :
        /\ Raise(exception)
        /\ exception = "PermissionError" <=> access = "unreachable"
  BY DEF LogUnavailable
<1>3. VerifyInv'
  BY <1>1, <1>2, VerifyInvRaise DEF CliInv, Exceptions, KronoError
<1>4. stage' = "raised" /\ raised' = exception /\ access' = access
  BY <1>2 DEF Raise, disk
<1> QED
  BY <1>1, <1>2, <1>3, <1>4 DEF ReadInv

LEMMA CliInvStart ==
    ASSUME CliInv, NEW env, VerifyStart(None, env), key_env' = env
    PROVE  VerifyInv' /\ ReadInv'
<1>1. file \in RawFile
  BY GoodFileIsRaw DEF CliInv, FileInv
<1>2. VerifyInv'
  BY <1>1, VerifyInvStart DEF CliInv
<1>3. /\ stage' = "loop" /\ key' = env /\ env \in Keys /\ access' = access /\ access \in CanRead
      /\ byte_lines' = _split_byte_lines(file) /\ file' = file
  BY ResolveKeyAssumption DEF VerifyStart, resolve_key, disk
<1> QED
  BY <1>2, <1>3 DEF ReadInv

\* A step of the loop changes neither what was read nor the file.
LEMMA LoopStep ==
    ASSUME VerifyNext
    PROVE  /\ stage = "loop" /\ UNCHANGED << disk, key, byte_lines >>
           /\ stage' \in {"loop", "returned"} \/ (stage' = "raised" /\ raised' = "ValueError")
<1>1. CASE LinePasses \/ AllPassed
  BY <1>1 DEF disk, LinePasses, AllPassed, AtLink, AtSequence, AtEvent, AtObject, AtLine
<1>2. CASE LoadsRaises
  BY <1>2 DEF disk, LoadsRaises, Raise, AtLine
<1>3. CASE ParseError \/ UnexpectedField \/ MissingField
  BY <1>3 DEF disk, ParseError, UnexpectedField, MissingField, Fail, AtObject, AtLine
<1>4. CASE SequenceGap \/ ChainBreak \/ ContentTampered
  BY <1>4 DEF disk, SequenceGap, ChainBreak, ContentTampered, Fail, AtLink, AtSequence, AtEvent,
              AtObject, AtLine
<1> QED
  BY <1>1, <1>2, <1>3, <1>4 DEF VerifyNext

LEMMA CliInvLoop ==
    ASSUME CliInv, VerifyNext, key_env' = key_env
    PROVE  VerifyInv' /\ ReadInv'
<1>1. VerifyInv'
  BY VerifyInvNext DEF CliInv
<1>2. /\ stage = "loop" /\ UNCHANGED << disk, key, byte_lines >>
      /\ stage' \in {"loop", "returned"} \/ (stage' = "raised" /\ raised' = "ValueError")
  BY LoopStep
<1>3. /\ key' = key_env' /\ key_env' \in Keys /\ access' \in CanRead
      /\ byte_lines' = _split_byte_lines(file')
  BY <1>2 DEF CliInv, ReadInv, disk
<1> QED
  BY <1>1, <1>2, <1>3 DEF ReadInv

LEMMA CliInvReader ==
    ASSUME CliInv,
           \/ stage = "before" /\ ReaderNext(None, key_env')
           \/ stage = "loop" /\ ReaderNext(None, key_env) /\ key_env' = key_env
    PROVE  CliInv'
<1>1. UNCHANGED << disk, writer, other, genuine >>
  <2>1. UNCHANGED << writer, other, genuine >>
    BY DEF ReaderNext
  <2>2. UNCHANGED disk
    BY LoopStep DEF ReaderNext, MissingKey, LogUnavailable, VerifyStart, Raise
  <2> QED
    BY <2>1, <2>2
<1>2. FileInv'
  BY <1>1, FileInvUnchanged DEF CliInv
<1>3. VerifyInv' /\ ReadInv'
  <2>1. CASE VerifyNext
    BY <2>1, LoopStep, CliInvLoop
  <2>2. CASE MissingKey(None, key_env') \/ LogUnavailable(None, key_env') \/ VerifyStart(None, key_env')
    BY <2>2, CliInvMissingKey, CliInvLogUnavailable, CliInvStart
  <2> QED
    BY <2>1, <2>2 DEF ReaderNext
<1> QED
  BY <1>2, <1>3 DEF CliInv

LEMMA CliInvInit == CliInit => CliInv
<1> SUFFICES ASSUME CliInit PROVE CliInv
  OBVIOUS
<1>1. FileInv /\ VerifyInv
  BY FileInvInit, VerifyInvInit DEF CliInit, Init
<1>2. stage = "before" /\ raised # "ValueError"
  BY <1>1, BeforeReading DEF CliInit, Init, VerifyInit
<1> QED
  BY <1>1, <1>2 DEF CliInv, ReadInv

LEMMA CliInvNext == CliInv /\ [CliNext]_<< vars, cli >> => CliInv'
<1> SUFFICES ASSUME CliInv, [CliNext]_<< vars, cli >> PROVE CliInv'
  OBVIOUS
<1>1. CASE UNCHANGED << vars, key_env >>
  <2>1. VerifyInv'
    BY <1>1, VerifyInvStutter DEF CliInv, vars
  <2>2. FileInv'
    BY <1>1, FileInvUnchanged DEF CliInv, vars
  <2>3. ReadInv'
    BY <1>1 DEF CliInv, ReadInv, vars, verifier, disk
  <2> QED
    BY <2>1, <2>2, <2>3 DEF CliInv
<1>2. CASE WriterNext /\ UNCHANGED cli
  BY <1>2, CliInvWriter
<1>3. CASE \E env \in Env : Run(env)
  BY <1>3, CliInvReader DEF Run
<1>4. CASE Verifying
  BY <1>4, CliInvReader DEF Verifying, cli
<1>5. CASE UsageError \/ Verdict \/ Failed
  BY <1>1, <1>5 DEF UsageError, Verdict, Failed, Exit
<1> QED
  BY <1>1, <1>2, <1>3, <1>4, <1>5 DEF CliNext, cli

LEMMA CliInvAlways == CliSpec => []CliInv
BY CliInvInit, CliInvNext, PTL DEF CliSpec

-----------------------------------------------------------------------------
(* What follows *)

\* The types of the state of the log, of verify() and of what it returns.
THEOREM Typed == CliSpec => []TypeOK
<1>1. CliInv => TypeOK
  BY VerifyAssumption DEF CliInv, FileInv, GenuineInv, VerifyInv, LoopInv, TypeOK
<1> QED
  BY <1>1, CliInvAlways, PTL

\* verify() names the first line that is not the one a writer with its key would
\* have written there, and accepts a file when there is none (the loop of
\* verify(), verify.py): for files of any length.
THEOREM VerdictIsAlwaysFirstBadLine == CliSpec => []VerdictIsFirstBadLine
<1>1. CliInv => VerdictIsFirstBadLine
  BY DEF CliInv, VerifyInv, LoopInv, VerdictFits, VerdictIsFirstBadLine
<1> QED
  BY <1>1, CliInvAlways, PTL

\* A file whose last line was written is resumed behind that line.
LEMMA ResumeOfWritten ==
    ASSUME NEW k \in Keys, NEW f \in RawFile, f.tail = NoTail, WrittenBy(k, f.lines, Len(f.lines))
    PROVE  _load_resume_state(f) = ResumeState(Len(f.lines), HashBehind(f.lines, Len(f.lines)))
<1> DEFINE n == Len(f.lines)
           last == f.lines[n]
<1>1. f.lines \in Seq(RawLine) /\ n \in Nat /\ (f.lines = << >> <=> n = 0)
      /\ _split_byte_lines(f) = f.lines
  BY EmptySeq, LenProperties DEF RawFile, _split_byte_lines
<1>2. CASE n = 0
  BY <1>1, <1>2 DEF _load_resume_state, HashBehind
<1>3. CASE n # 0
  <2>1. n \in 1..n /\ n - 1 \in Nat
    BY <1>1, <1>3
  <2>2. last.kind = "object"
    BY <1>1, <2>1, WrittenAt
  <2>3. PICK c \in Calls : last.event = MakeEvent(k, n - 1, c, HashBehind(f.lines, n - 1))
    BY <1>1, <2>1, WrittenAt
  <2>4. HashBehind(f.lines, n - 1) \in Hash
    <3>1. WrittenBy(k, f.lines, n - 1)
      BY <1>1, <2>1, FewerWritten
    <3> QED
      BY <2>1, <3>1, WrittenHash
  <2>5. /\ DOMAIN last.event = RequiredKeys
        /\ last.event.sequence_number = n - 1
        /\ last.event.current_hash \in Hash
    <3>1. last.event.current_hash \in Hash
      BY <2>1, <2>3, <2>4, MadeEventTyped
    <3>2. DOMAIN last.event = RequiredKeys /\ last.event.sequence_number = n - 1
      BY <2>3 DEF MakeEvent, RequiredKeys
    <3> QED
      BY <3>1, <3>2
  <2> HIDE DEF last
  <2>6. CanResumeFrom(last.event)
    BY <2>1, <2>5, RawLogAssumption DEF CanResumeFrom
  <2>7. ResumeFrom(last.event) = ResumeState(n, HashBehind(f.lines, n))
    <3>1. HashBehind(f.lines, n) = last.event.current_hash
      BY <1>3 DEF HashBehind, last
    <3>2. n - 1 + 1 = n
      BY <1>1
    <3> QED
      BY <2>5, <2>6, <3>1, <3>2 DEF ResumeFrom
  <2>8. _load_resume_state(f) = ResumeFrom(last.event)
    BY <1>1, <1>3, <2>2 DEF _load_resume_state, last, Unreadable
  <2> QED
    BY <2>7, <2>8
<1> QED
  BY <1>2, <1>3

\* AuditLog(), reading one line (_load_resume_state, audit.py), goes on exactly
\* where verify(), reading all of them, stopped.
THEOREM ResumeAlwaysAgrees == CliSpec => []ResumeAgreesWithVerify
<1>1. CliInv => ResumeAgreesWithVerify
  <2> SUFFICES ASSUME CliInv, stage = "returned", result.ok, file.tail = NoTail
               PROVE  _load_resume_state(file) = ResumeState(result.entries_checked, prev_hash)
    BY DEF ResumeAgreesWithVerify
  <2>1. file \in RawFile
    BY GoodFileIsRaw DEF CliInv, FileInv
  <2>2. byte_lines = file.lines /\ key \in Keys
    BY DEF CliInv, ReadInv, _split_byte_lines
  <2>3. /\ idx = Len(byte_lines) /\ result.entries_checked = idx /\ WrittenBy(key, byte_lines, idx)
        /\ prev_hash = HashBehind(byte_lines, idx)
    BY DEF CliInv, VerifyInv, LoopInv, VerdictFits
  <2> QED
    BY <2>1, <2>2, <2>3, ResumeOfWritten
<1> QED
  BY <1>1, CliInvAlways, PTL

\* The exit code of `krono verify` (_run_verify, cli.py): 0 only for a log that
\* is all written with the key, 3 exactly without a key or a file to read.
THEOREM ExitIsAlwaysTheVerdict == CliSpec => []ExitIsTheVerdict
<1>1. CliInit => ExitIsTheVerdict
  BY DEF CliInit, ExitIsTheVerdict
<1>2. CliInv /\ ExitIsTheVerdict /\ [CliNext]_<< vars, cli >> => ExitIsTheVerdict'
  <2> SUFFICES ASSUME CliInv, ExitIsTheVerdict, [CliNext]_<< vars, cli >> PROVE ExitIsTheVerdict'
    OBVIOUS
  <2> DEFINE parts     == _split_byte_lines(file)
             available == key_env \in Keys /\ access \in CanRead
             written   == WrittenBy(key_env, parts, Len(parts))
  <2>1. CASE UNCHANGED << vars, cli >>
    BY <2>1 DEF ExitIsTheVerdict, vars, cli, disk
  <2>2. CASE exit = None /\ exit' = exit
    BY <2>2 DEF ExitIsTheVerdict
  <2>3. CASE UsageError
    BY <2>3 DEF UsageError, Exit, ExitIsTheVerdict
  <2>4. CASE Verdict
    <3>1. stage = "returned" /\ UNCHANGED << file, access, key_env >>
          /\ \/ exit' = [code |-> IF result.ok THEN 0 ELSE 1, printed |-> TRUE]
             \/ exit' = [code |-> 1, printed |-> FALSE]
      BY <2>4 DEF Verdict, Exit, vars, disk
    <3>2. available
      BY <3>1 DEF CliInv, ReadInv
    <3>3. result.ok <=> written
      <4>1. /\ key = key_env /\ byte_lines = parts /\ Len(byte_lines) \in Nat /\ idx \in Nat
            /\ WrittenBy(key, byte_lines, idx) /\ VerdictFits(key, byte_lines, idx, result)
        BY <3>1, LenProperties DEF CliInv, ReadInv, VerifyInv, LoopInv
      <4>2. CASE result.ok
        BY <4>1, <4>2 DEF VerdictFits
      <4>3. CASE ~result.ok
        BY <4>1, <4>3, FewerWritten DEF VerdictFits
      <4> QED
        BY <4>2, <4>3
    <3> HIDE DEF written
    <3>4. exit'.code # 3
      BY <3>1
    <3>5. (exit'.code = 0 => written) /\ (written /\ exit'.printed => exit'.code = 0)
      BY <3>1, <3>3
    <3> QED
      BY <3>1, <3>2, <3>4, <3>5 DEF ExitIsTheVerdict, written
  <2>5. CASE Failed
    <3>1. stage = "raised" /\ UNCHANGED << file, access, key_env >>
          /\ exit' = [code |-> IF raised \in {"MissingKeyError", "ConfigError"} THEN 3 ELSE 1,
                     printed |-> FALSE]
      BY <2>5 DEF Failed, Exit, vars, disk
    <3>2. CASE raised = "ValueError"
      <4>1. /\ key = key_env /\ byte_lines = parts /\ Len(byte_lines) \in Nat /\ idx \in Nat
            /\ idx < Len(byte_lines) /\ ~WrittenBy(key, byte_lines, idx + 1)
        BY <3>2, LenProperties DEF CliInv, ReadInv, VerifyInv, LoopInv
      <4>2. available /\ ~written
        <5>1. idx + 1 \in 0..Len(byte_lines)
          BY <4>1
        <5> QED
          BY <3>2, <4>1, <5>1, FewerWritten DEF CliInv, ReadInv
      <4> HIDE DEF written
      <4> QED
        BY <3>1, <3>2, <4>2 DEF ExitIsTheVerdict, written
    <3>3. CASE raised # "ValueError"
      <4>1. /\ raised = "MissingKeyError" => key_env \notin Keys
            /\ raised = "ConfigError" => key_env \in Keys /\ access \notin CanRead /\ access # "unreachable"
            /\ raised = "PermissionError" => key_env \in Keys /\ access = "unreachable"
            /\ raised \in {"MissingKeyError", "ConfigError", "PermissionError"}
        BY <3>1, <3>3 DEF CliInv, ReadInv
      <4>2. ~available
        BY <4>1 DEF CanRead
      <4> QED
        BY <3>1, <4>1, <4>2 DEF ExitIsTheVerdict, CanRead
    <3> QED
      BY <3>2, <3>3
  <2> QED
    BY <2>1, <2>2, <2>3, <2>4, <2>5 DEF CliNext, Run, Verifying, cli
<1> QED
  BY <1>1, <1>2, CliInvAlways, PTL DEF CliSpec

-----------------------------------------------------------------------------
(* Appending *)

LEMMA OneLineMore ==
    ASSUME NEW lines \in Seq(RawLine), NEW line \in RawLine, NEW k
    PROVE  /\ Append(lines, line) \in Seq(RawLine)
           /\ Len(lines) \in Nat /\ Len(Append(lines, line)) = Len(lines) + 1
           /\ \A i \in 1..Len(lines) : Append(lines, line)[i] = lines[i]
           /\ Append(lines, line)[Len(lines) + 1] = line
           /\ WrittenBy(k, Append(lines, line), Len(lines)) <=> WrittenBy(k, lines, Len(lines))
           /\ HashBehind(Append(lines, line), Len(lines)) = HashBehind(lines, Len(lines))
<1>1. /\ Append(lines, line) \in Seq(RawLine)
      /\ Len(lines) \in Nat /\ Len(Append(lines, line)) = Len(lines) + 1
      /\ \A i \in 1..Len(lines) : Append(lines, line)[i] = lines[i]
      /\ Append(lines, line)[Len(lines) + 1] = line
  BY AppendProperties, LenProperties
<1>2. SameLines(Append(lines, line), lines, Len(lines))
  BY <1>1 DEF SameLines
<1>3. \A new : SameLines(new, lines, Len(lines)) =>
        /\ WrittenBy(k, new, Len(lines)) <=> WrittenBy(k, lines, Len(lines))
        /\ HashBehind(new, Len(lines)) = HashBehind(lines, Len(lines))
  <2> SUFFICES ASSUME NEW new, SameLines(new, lines, Len(lines))
               PROVE  /\ WrittenBy(k, new, Len(lines)) <=> WrittenBy(k, lines, Len(lines))
                      /\ HashBehind(new, Len(lines)) = HashBehind(lines, Len(lines))
    OBVIOUS
  <2>1. PICK n \in Nat : n = Len(lines)
    BY <1>1
  <2>2. /\ WrittenBy(k, new, n) <=> WrittenBy(k, lines, n)
        /\ \A m \in 0..n : HashBehind(new, m) = HashBehind(lines, m)
    BY <2>1, SameWritten
  <2> QED
    BY <2>1, <2>2
<1> QED
  BY <1>1, <1>2, <1>3

\* What is known of the file since its writer was constructed.
OpenedInv ==
    /\ opened_on = "verified" =>
         /\ writer \in Writers(genuine) /\ writer.on_path /\ writer._key = Key
         /\ file.tail = NoTail
         /\ WrittenBy(Key, file.lines, Len(file.lines))
         /\ writer._next_sequence = Len(file.lines)
         /\ writer._last_current_hash = HashBehind(file.lines, Len(file.lines))
    /\ opened_on = "bad" =>
         file.tail = NoTail /\ ~WrittenBy(Key, file.lines, Len(file.lines))

\* Constructing a writer establishes it.
LEMMA OpenedInvInstance ==
    ASSUME FileInv, Opened(Key).raised = "none", writer' = Instance(Key),
           UNCHANGED << file, genuine >>, opened_on' = IF Accepted THEN "verified" ELSE "bad"
    PROVE  OpenedInv'
<1>1. /\ file.tail = NoTail /\ Instance(Key) \in Writers(genuine)
      /\ Opened(Key) = _load_resume_state(file)
  BY InstanceGood, EditedLogAssumption
<1>2. Accepted <=> WrittenBy(Key, file.lines, Len(file.lines))
  BY <1>1 DEF Accepted, _split_byte_lines
<1>3. CASE Accepted
  <2>1. file \in RawFile
    BY GoodFileIsRaw DEF FileInv
  <2>2. Opened(Key) = ResumeState(Len(file.lines), HashBehind(file.lines, Len(file.lines)))
    BY <1>1, <1>2, <1>3, <2>1, ResumeOfWritten, EditedLogAssumption
  <2>3. /\ Instance(Key)._key = Key /\ Instance(Key).on_path
        /\ Instance(Key)._next_sequence = Len(file.lines)
        /\ Instance(Key)._last_current_hash = HashBehind(file.lines, Len(file.lines))
    BY <2>2 DEF Instance, ResumeState
  <2> QED
    BY <1>1, <1>2, <1>3, <2>3 DEF OpenedInv
<1>4. CASE ~Accepted
  BY <1>1, <1>2, <1>4 DEF OpenedInv
<1> QED
  BY <1>3, <1>4

LEMMA OpenedInvConstruct ==
    ASSUME FileInv, NEW explicit, NEW env, Construct(explicit, env)
    PROVE  OpenedInv'
<1> DEFINE k == resolve_key(explicit, env)
<1>1. CASE Opened(k).raised = "none" /\ k = Key
  BY <1>1, OpenedInvInstance DEF Construct
<1>2. CASE ~(Opened(k).raised = "none" /\ k = Key)
  <2>1. opened_on' = "changed"
    BY <1>2 DEF Construct
  <2> QED
    BY <2>1 DEF OpenedInv
<1> QED
  BY <1>1, <1>2

LEMMA OpenedInvRecord ==
    ASSUME FileInv, OpenedInv, NEW c \in Calls, Record(c)
    PROVE  OpenedInv'
<1> DEFINE e == NextEvent(writer, c)
           n == Len(file.lines)
<1>1. /\ writer \in Writers(genuine) /\ writer' = After(writer, c) /\ opened_on' = opened_on
      /\ writer' \in Writers(genuine')
      /\ file' = IF ~writer.on_path THEN file
                 ELSE [lines |-> Append(file.lines, IF file.tail = NoTail THEN Object(e)
                                                    ELSE Glued(file.tail)),
                       tail  |-> NoTail]
  BY FileInvAppend DEF FileInv, Record, AppendEvent
<1>2. file \in RawFile /\ file' \in RawFile /\ file.lines \in Seq(RawLine) /\ n \in Nat
  <2>1. FileInv'
    BY FileInvRecord
  <2>2. file \in RawFile /\ file' \in RawFile
    BY <2>1, GoodFileIsRaw DEF FileInv
  <2> QED
    BY <2>2, LenProperties DEF RawFile
<1>3. ASSUME opened_on = "verified"
      PROVE  OpenedInv'
  <2>1. /\ writer.on_path /\ writer._key = Key /\ file.tail = NoTail
        /\ WrittenBy(Key, file.lines, n)
        /\ writer._next_sequence = n /\ writer._last_current_hash = HashBehind(file.lines, n)
    BY <1>3 DEF OpenedInv
  <2>2. /\ e \in RawEvent /\ e = MakeEvent(Key, n, c, HashBehind(file.lines, n))
    BY <1>1, <2>1, NextEventMade DEF Writers
  <2> HIDE DEF e
  <2>3. Object(e) \in RawLine /\ Object(e).kind = "object" /\ Object(e).event = e
    BY <2>2 DEF Object, RawLine
  <2>4. file' = [lines |-> Append(file.lines, Object(e)), tail |-> NoTail]
    BY <1>1, <2>1
  <2> DEFINE new == Append(file.lines, Object(e))
  <2>5. /\ Len(new) = n + 1 /\ new[n + 1] = Object(e)
        /\ WrittenBy(Key, new, n) /\ HashBehind(new, n) = HashBehind(file.lines, n)
    BY <1>2, <2>1, <2>3, OneLineMore
  <2> HIDE DEF new
  <2>6. WrittenBy(Key, new, n + 1)
    BY <1>2, <2>2, <2>3, <2>5, OneMoreWritten DEF WrittenNext
  <2>7. HashBehind(new, n + 1) = e.current_hash
    BY <1>2, <2>3, <2>5 DEF HashBehind
  <2>8. /\ writer'._next_sequence = n + 1 /\ writer'._last_current_hash = e.current_hash
        /\ writer'.on_path /\ writer'._key = Key
    BY <1>1, <2>1 DEF After, Writers, e
  <2>9. file'.lines = new /\ file'.tail = NoTail
    BY <2>4 DEF new
  <2> QED
    BY <1>1, <1>3, <2>5, <2>6, <2>7, <2>8, <2>9 DEF OpenedInv
<1>4. ASSUME opened_on = "bad"
      PROVE  OpenedInv'
  <2>1. file.tail = NoTail /\ ~WrittenBy(Key, file.lines, n)
    BY <1>4 DEF OpenedInv
  <2>2. CASE ~writer.on_path
    BY <1>1, <1>4, <2>1, <2>2 DEF OpenedInv
  <2>3. CASE writer.on_path
    <3> DEFINE new == Append(file.lines, Object(e))
    <3>1. file'.lines = new /\ file'.tail = NoTail
      BY <1>1, <2>1, <2>3
    <3>2. Object(e) \in RawLine
      <4>1. e \in RawEvent
        BY <1>1, NextEventMade DEF Writers
      <4> QED
        BY <4>1 DEF Object, RawLine
    <3>3. Len(new) = n + 1 /\ ~WrittenBy(Key, new, n)
      BY <1>2, <2>1, <3>2, OneLineMore
    <3> HIDE DEF new
    <3>4. ~WrittenBy(Key, new, n + 1)
      BY <1>2, <3>3, OneMoreWritten
    <3> QED
      BY <1>1, <1>4, <3>1, <3>3, <3>4 DEF OpenedInv
  <2> QED
    BY <2>2, <2>3
<1> QED
  BY <1>1, <1>3, <1>4 DEF OpenedInv

LEMMA OpenedInvNext == CliInv /\ OpenedInv /\ [CliNext]_<< vars, cli >> => OpenedInv'
<1> SUFFICES ASSUME CliInv, OpenedInv, [CliNext]_<< vars, cli >> PROVE OpenedInv'
  OBVIOUS
<1>1. FileInv
  BY DEF CliInv
<1>2. CASE UNCHANGED << file, writer, genuine, opened_on >>
  BY <1>2 DEF OpenedInv
<1>3. CASE opened_on' = "changed"
  BY <1>3 DEF OpenedInv
<1>4. CASE WriterNext
  <2>1. CASE \E explicit \in Explicit, env \in Env : Construct(explicit, env)
    BY <1>1, <2>1, OpenedInvConstruct
  <2>2. CASE \E c \in Calls : Record(c)
    BY <1>1, <2>2, OpenedInvRecord
  <2>3. CASE \E c \in Calls : RecordOther(c)
    BY <1>3, <2>3 DEF RecordOther
  <2>4. CASE Second
    BY <1>1, <2>4, OpenedInvInstance DEF Second
  <2>5. CASE EditNext /\ ~Second
    BY <1>2, <1>3, <2>5, EditKinds DEF Remove, ChangeAccess
  <2> QED
    BY <1>4, <2>1, <2>2, <2>3, <2>4, <2>5 DEF WriterNext
<1>5. CASE ~WriterNext
  <2>1. ASSUME NEW explicit, NEW env, ReaderNext(explicit, env)
        PROVE  UNCHANGED << file, writer, genuine, opened_on >>
    BY <2>1, LoopStep DEF ReaderNext, MissingKey, LogUnavailable, VerifyStart, Raise, disk
  <2> QED
    BY <1>2, <1>5, <2>1 DEF CliNext, Run, Verifying, UsageError, Verdict, Failed, Exit, vars, disk
<1> QED
  BY <1>4, <1>5

\* Appending (record(), audit.py) never changes what verify() says of the log the
\* writer was constructed on ("it will happily append", USAGE.md).
THEOREM AppendsAlwaysKeepTheVerdict == CliSpec => []AppendsKeepTheVerdict
<1>1. CliInit => OpenedInv
  BY DEF CliInit, Init, OpenedInv
<1>2. CliInv /\ OpenedInv => AppendsKeepTheVerdict
  <2> SUFFICES ASSUME CliInv, OpenedInv, stage = "returned", key = Key
               PROVE  /\ opened_on = "verified" => result.ok
                      /\ opened_on = "bad" => ~result.ok
    BY DEF AppendsKeepTheVerdict
  <2>1. ASSUME file.tail = NoTail
        PROVE  result.ok <=> WrittenBy(Key, file.lines, Len(file.lines))
    <3>1. byte_lines = file.lines
      BY <2>1 DEF CliInv, ReadInv, _split_byte_lines
    <3>2. /\ Len(byte_lines) \in Nat /\ idx \in Nat /\ WrittenBy(key, byte_lines, idx)
          /\ VerdictFits(key, byte_lines, idx, result)
      BY LenProperties DEF CliInv, VerifyInv, LoopInv
    <3>3. CASE result.ok
      BY <3>1, <3>2, <3>3 DEF VerdictFits
    <3>4. CASE ~result.ok
      BY <3>1, <3>2, <3>4, FewerWritten DEF VerdictFits
    <3> QED
      BY <3>3, <3>4
  <2> QED
    BY <2>1 DEF OpenedInv
<1> QED
  BY <1>1, <1>2, CliInvAlways, OpenedInvNext, PTL DEF CliSpec

-----------------------------------------------------------------------------
(* What is accepted is genuine *)

\* No two events have the same hash.
LEMMA SameHash ==
    ASSUME NEW k \in Keys, NEW n \in Nat, NEW c \in Calls, NEW h \in Hash,
           NEW k2 \in Keys, NEW n2 \in Nat, NEW c2 \in Calls, NEW h2 \in Hash,
           MakeEvent(k, n, c, h).current_hash = MakeEvent(k2, n2, c2, h2).current_hash
    PROVE  k = k2 /\ n = n2 /\ c = c2 /\ h = h2
<1> DEFINE link == [key |-> k, sequence_number |-> n, call |-> c]
           link2 == [key |-> k2, sequence_number |-> n2, call |-> c2]
<1>1. Append(h, link) = Append(h2, link2)
  BY DEF MakeEvent, compute_current_hash
<1>2. link \in Link /\ link2 \in Link
  BY DEF Link
<1> HIDE DEF link, link2
<1>3. h = h2 /\ link = link2
  BY <1>1, <1>2, AppendInjective DEF Hash
<1> QED
  BY <1>3 DEF link, link2

\* Line i of a written file was written, and later than the lines before it.
InOrder(g, parts, i) ==
    \E n \in i..Len(g) :
        /\ parts[i].event = g[n]
        /\ \A j \in 1..i - 1, m \in 1..Len(g) : parts[j].event = g[m] => m < n

\* A line that was written with Key, in a file whose hashes are known, is genuine.
LEMMA LineIsGenuine ==
    ASSUME NEW g, GenuineInv(g), NEW parts \in Seq(GoodLine(g)), NEW i \in 1..Len(parts),
           WrittenBy(Key, parts, Len(parts))
    PROVE  /\ \E n \in 1..Len(g) : parts[i].event = g[n]
           /\ parts[i].event.previous_hash = HashBehind(parts, i - 1)
           /\ parts[i].event.current_hash \in Hash /\ Ended(parts[i].event.current_hash)
<1>1. Len(parts) \in Nat /\ i - 1 \in Nat /\ i - 1 \in 0..Len(parts) /\ Key \in Keys
  BY LenProperties, EditedLogAssumption
<1>2. PICK c \in Calls : parts[i].event = MakeEvent(Key, i - 1, c, HashBehind(parts, i - 1))
  BY <1>1, WrittenAt
<1>3. HashBehind(parts, i - 1) \in Hash
  <2>1. WrittenBy(Key, parts, i - 1)
    BY <1>1, FewerWritten
  <2> QED
    BY <1>1, <2>1, WrittenHash
<1> DEFINE h == HashBehind(parts, i - 1)
           e == MakeEvent(Key, i - 1, c, h)
<1>4. e.current_hash \in Hash
  BY <1>1, <1>3, MadeEventTyped
<1>5. e.previous_hash = h /\ DOMAIN e = RequiredKeys
      /\ e.current_hash = Append(h, [key |-> Key, sequence_number |-> i - 1, call |-> c])
  BY DEF MakeEvent, compute_current_hash, RequiredKeys
<1>6. Ended(e.current_hash)
  BY <1>3, <1>5, EndedHash
<1> HIDE DEF h
<1>7. KnownTo(g, e.current_hash)
  <2>1. parts[i] \in GoodLine(g)
    BY ElementOfSeq
  <2>2. parts[i].kind = "object"
    BY <1>1, WrittenAt
  <2>3. "current_hash" \in DOMAIN parts[i].event
    BY <1>2, <1>5 DEF RequiredKeys, h
  <2> QED
    BY <1>2, <2>1, <2>2, <2>3 DEF GoodLine, h
<1>8. PICK n \in 1..Len(g) : g[n].current_hash = e.current_hash
  BY <1>4, <1>6, <1>7 DEF KnownTo
<1>9. PICK k \in Keys : g[n] = MakeEvent(k, g[n].sequence_number, g[n].call, g[n].previous_hash)
  BY DEF GenuineInv
<1>10. g[n] \in AuditEvent
  BY ElementOfSeq DEF GenuineInv
<1>11. g[n].sequence_number \in Nat /\ g[n].call \in Calls /\ g[n].previous_hash \in Hash
  BY <1>10 DEF AuditEvent
<1>12. /\ k = Key /\ g[n].sequence_number = i - 1 /\ g[n].call = c /\ g[n].previous_hash = h
  <2>1. MakeEvent(k, g[n].sequence_number, g[n].call, g[n].previous_hash).current_hash
          = MakeEvent(Key, i - 1, c, h).current_hash
    BY <1>8, <1>9
  <2> QED
    BY <1>1, <1>3, <1>11, <2>1, SameHash DEF h
<1>13. g[n] = e
  BY <1>9, <1>12
<1> QED
  BY <1>2, <1>4, <1>5, <1>6, <1>13 DEF h

LEMMA WrittenIsGenuine ==
    ASSUME NEW g, GenuineInv(g), NEW parts \in Seq(GoodLine(g)),
           WrittenBy(Key, parts, Len(parts)), NEW i \in 1..Len(parts)
    PROVE  InOrder(g, parts, i)
<1> DEFINE Wrong == {j \in 1..Len(parts) : ~InOrder(g, parts, j)}
<1> SUFFICES ASSUME Wrong # {} PROVE FALSE
  OBVIOUS
<1>1. PICK j \in Wrong : \A l \in Wrong : j <= l
  <2>1. Wrong \subseteq Nat
    OBVIOUS
  <2> HIDE DEF Wrong
  <2> QED
    BY <2>1, Least
<1>2. j \in 1..Len(parts) /\ j \in Nat /\ Len(parts) \in Nat /\ Len(g) \in Nat
  BY LenProperties DEF GenuineInv
<1>3. PICK n \in 1..Len(g) : parts[j].event = g[n]
  BY <1>2, LineIsGenuine
<1>4. CASE j = 1
  BY <1>3, <1>4, <1>1, <1>2 DEF InOrder
<1>5. CASE j # 1
  <2>1. j - 1 \in 1..Len(parts) /\ InOrder(g, parts, j - 1)
    BY <1>1, <1>2, <1>5
  <2>2. PICK m \in j - 1..Len(g) :
          /\ parts[j - 1].event = g[m]
          /\ \A l \in 1..j - 1 - 1, q \in 1..Len(g) : parts[l].event = g[q] => q < m
    BY <2>1 DEF InOrder
  <2>3. m \in 1..Len(g)
    BY <1>2, <1>5, <2>2
  <2>4. /\ g[n].previous_hash = g[m].current_hash
        /\ g[m].current_hash \in Hash /\ Ended(g[m].current_hash)
    <3>1. parts[j].event.previous_hash = HashBehind(parts, j - 1)
      BY <1>2, LineIsGenuine
    <3>2. parts[j - 1].event.current_hash \in Hash /\ Ended(parts[j - 1].event.current_hash)
      BY <2>1, LineIsGenuine
    <3>3. HashBehind(parts, j - 1) = parts[j - 1].event.current_hash
      BY <1>2, <1>5 DEF HashBehind
    <3> QED
      BY <1>3, <2>2, <3>1, <3>2, <3>3
  <2>5. PICK l \in 1..n - 1 : g[l].current_hash = g[m].current_hash
    BY <2>4 DEF GenuineInv
  <2>6. l = m
    <3>1. l \in 1..Len(g)
      BY <1>2
    <3>2. PICK k \in Keys : g[l] = MakeEvent(k, g[l].sequence_number, g[l].call, g[l].previous_hash)
      BY <3>1 DEF GenuineInv
    <3>3. PICK k2 \in Keys : g[m] = MakeEvent(k2, g[m].sequence_number, g[m].call, g[m].previous_hash)
      BY <2>3 DEF GenuineInv
    <3>4. g[l] \in AuditEvent /\ g[m] \in AuditEvent
      BY <2>3, <3>1, ElementOfSeq DEF GenuineInv
    <3>5. /\ g[l].sequence_number \in Nat /\ g[l].call \in Calls /\ g[l].previous_hash \in Hash
          /\ g[m].sequence_number \in Nat /\ g[m].call \in Calls /\ g[m].previous_hash \in Hash
      BY <3>4 DEF AuditEvent
    <3>6. MakeEvent(k, g[l].sequence_number, g[l].call, g[l].previous_hash).current_hash
            = MakeEvent(k2, g[m].sequence_number, g[m].call, g[m].previous_hash).current_hash
      BY <2>5, <3>2, <3>3
    <3>7. g[l].call = g[m].call
      <4> DEFINE nl == g[l].sequence_number cl == g[l].call hl == g[l].previous_hash
                 nm == g[m].sequence_number cm == g[m].call hm == g[m].previous_hash
      <4> HIDE DEF nl, cl, hl, nm, cm, hm
      <4>1. nl \in Nat /\ cl \in Calls /\ hl \in Hash /\ nm \in Nat /\ cm \in Calls /\ hm \in Hash
        BY <3>5 DEF nl, cl, hl, nm, cm, hm
      <4>2. MakeEvent(k, nl, cl, hl).current_hash = MakeEvent(k2, nm, cm, hm).current_hash
        BY <3>6 DEF nl, cl, hl, nm, cm, hm
      <4>3. cl = cm
        BY <4>1, <4>2, SameHash
      <4> QED
        BY <4>3 DEF cl, cm
    <3> QED
      BY <2>3, <3>1, <3>7 DEF GenuineInv
  <2>7. m < n
    BY <1>2, <2>5, <2>6
  <2>8. ASSUME NEW b \in 1..j - 1, NEW q \in 1..Len(g), parts[b].event = g[q] PROVE q < n
    <3>1. CASE b = j - 1
      <4>1. g[q].call = g[m].call
        BY <2>2, <2>8, <3>1
      <4>2. q = m
        BY <2>3, <4>1 DEF GenuineInv
      <4> QED
        BY <2>7, <4>2
    <3>2. CASE b # j - 1
      <4>1. b \in 1..j - 1 - 1
        BY <1>2, <3>2
      <4>2. q < m
        BY <2>2, <2>8, <4>1
      <4> QED
        BY <1>2, <2>3, <2>7, <4>2
    <3> QED
      BY <3>1, <3>2
  <2>9. n \in j..Len(g)
    BY <1>2, <2>2, <2>7
  <2> QED
    BY <1>1, <1>3, <2>8, <2>9 DEF InOrder
<1> QED
  BY <1>4, <1>5

\* What verify() accepts with the writer's key is what a writer wrote, in the order
\* it wrote it, whatever was done to the file (the checks of verify.py;
\* HONEST-CLAIMS.md, "Tail truncation").
THEOREM AcceptedIsAlwaysGenuine == CliSpec => []AcceptedIsGenuine
<1>1. CliInv => AcceptedIsGenuine
  <2> SUFFICES ASSUME CliInv, stage = "returned", result.ok, key = Key, NEW i \in 1..Len(byte_lines)
               PROVE  InOrder(genuine, byte_lines, i)
    BY DEF AcceptedIsGenuine, InOrder
  <2>1. WrittenBy(Key, byte_lines, Len(byte_lines))
    BY DEF CliInv, VerifyInv, LoopInv, VerdictFits
  <2>2. byte_lines \in Seq(GoodLine(genuine))
    <3>1. byte_lines = _split_byte_lines(file)
      BY DEF CliInv, ReadInv
    <3>2. file.lines \in Seq(GoodLine(genuine)) /\ file.tail \in GoodLine(genuine) \cup {NoTail}
      BY DEF CliInv, FileInv, GoodFile
    <3> QED
      BY <3>1, <3>2, AppendProperties DEF _split_byte_lines
  <2>3. GenuineInv(genuine)
    BY DEF CliInv, FileInv
  <2> QED
    BY <2>1, <2>2, <2>3, WrittenIsGenuine
<1> QED
  BY <1>1, CliInvAlways, PTL

-----------------------------------------------------------------------------
(* A log nobody edited *)

Harmless == {"second", "rotate", "respell", "reload", "access"}

\* A writer goes on behind some event.
Continues(g, w) ==
    /\ w.on_path
    /\ IF w._next_sequence = 0
         THEN w._last_current_hash = Genesis
         ELSE \E m \in 1..Len(g) : /\ g[m].sequence_number + 1 = w._next_sequence
                                   /\ g[m].current_hash = w._last_current_hash

\* As long as no sequence number was given out twice each event holds the hash of
\* the one before it.
Linked(g) ==
    \A i \in 1..Len(g) :
        (\A j \in 1..i : g[j].sequence_number = j - 1) =>
            g[i].previous_hash = IF i = 1 THEN Genesis ELSE g[i - 1].current_hash

\* The lines of the file are the events in the order they were written in.
Records(lines, g) ==
    /\ Len(lines) = Len(g)
    /\ \A i \in 1..Len(g) : lines[i].kind = "object" /\ lines[i].event = g[i]

Untouched ==
    /\ file.tail = NoTail
    /\ Records(file.lines, genuine)
    /\ Linked(genuine)
    /\ writer # None => Continues(genuine, writer)
    /\ other # None => Continues(genuine, other)

UntouchedInv == ops \subseteq Harmless => Untouched

LEMMA GenuineAt ==
    ASSUME NEW g, GenuineInv(g), NEW i \in 1..Len(g)
    PROVE  /\ g[i].sequence_number \in Nat /\ g[i].call \in Calls
           /\ g[i].previous_hash \in Hash /\ g[i].current_hash \in Hash
           /\ DOMAIN g[i] = RequiredKeys
           /\ g[i].current_hash # << >>
           /\ LET k == g[i].current_hash[Len(g[i].current_hash)].key
              IN  k \in Keys /\ g[i] = MakeEvent(k, g[i].sequence_number, g[i].call, g[i].previous_hash)
<1> DEFINE n == g[i].sequence_number
           c == g[i].call
           h == g[i].previous_hash
<1>1. g[i] \in AuditEvent
  BY ElementOfSeq DEF GenuineInv
<1>2. n \in Nat /\ c \in Calls /\ h \in Hash /\ g[i].current_hash \in Hash
      /\ DOMAIN g[i] = RequiredKeys
  BY <1>1 DEF AuditEvent, RequiredKeys
<1>3. PICK k \in Keys : g[i] = MakeEvent(k, n, c, h)
  BY DEF GenuineInv
<1>4. g[i].current_hash = Append(h, [key |-> k, sequence_number |-> n, call |-> c])
  BY <1>3 DEF MakeEvent, compute_current_hash
<1> DEFINE hash == g[i].current_hash
           link == [key |-> k, sequence_number |-> n, call |-> c]
<1>5. hash # << >> /\ hash[Len(hash)] = link
  <2>1. hash = Append(h, link) /\ h \in Seq(Link)
    BY <1>2, <1>4 DEF Hash
  <2> HIDE DEF hash, link, h
  <2>2. Append(h, link) # << >> /\ Append(h, link)[Len(Append(h, link))] = link
    BY <2>1
  <2> QED
    BY <2>1, <2>2
<1>6. hash[Len(hash)].key = k
  BY <1>5
<1> QED
  BY <1>2, <1>3, <1>5, <1>6

\* The first n lines of such a log, when none of their numbers was given out twice
\* and all were written with k.
LEMMA UntouchedWritten ==
    ASSUME NEW g, GenuineInv(g), Linked(g), NEW lines, Records(lines, g), NEW k \in Keys,
           NEW n \in 0..Len(g),
           \A i \in 1..n : /\ g[i].sequence_number = i - 1
                           /\ g[i].current_hash[Len(g[i].current_hash)].key = k
    PROVE  WrittenBy(k, lines, n)
<1> SUFFICES ASSUME NEW i \in 1..n
             PROVE  /\ lines[i].kind = "object"
                    /\ \E c \in Calls :
                         lines[i].event = MakeEvent(k, i - 1, c,
                             IF i = 1 THEN Genesis ELSE lines[i - 1].event.current_hash)
  BY DEF WrittenBy
<1>1. Len(g) \in Nat
  BY LenProperties DEF GenuineInv
<1>2. i \in 1..Len(g) /\ (i # 1 => i - 1 \in 1..Len(g))
  BY <1>1
<1>3. g[i].call \in Calls /\ g[i] = MakeEvent(k, i - 1, g[i].call, g[i].previous_hash)
  BY <1>2, GenuineAt
<1>4. g[i].previous_hash = IF i = 1 THEN Genesis ELSE g[i - 1].current_hash
  <2>1. \A j \in 1..i : g[j].sequence_number = j - 1
    BY <1>1
  <2> QED
    BY <1>2, <2>1 DEF Linked
<1>5. lines[i].kind = "object" /\ lines[i].event = g[i]
      /\ (i # 1 => lines[i - 1].event = g[i - 1])
  BY <1>2 DEF Records
<1> QED
  BY <1>3, <1>4, <1>5

\* The constructor goes on behind the last event.
LEMMA InstanceContinues ==
    ASSUME FileInv, Untouched, NEW k \in Keys, Opened(k).raised = "none"
    PROVE  Continues(genuine, Instance(k))
<1> DEFINE n == Len(file.lines)
           last == file.lines[n]
<1>1. /\ Opened(k) = _load_resume_state(file) /\ file.tail = NoTail
      /\ _split_byte_lines(file) = file.lines
  BY InstanceGood DEF _split_byte_lines
<1>2. /\ n \in Nat /\ n = Len(genuine) /\ (file.lines = << >> <=> n = 0)
      /\ \A i \in 1..n : file.lines[i].kind = "object" /\ file.lines[i].event = genuine[i]
  BY EmptySeq, LenProperties DEF Untouched, Records, FileInv, GoodFile
<1>3. CASE n = 0
  BY <1>1, <1>2, <1>3 DEF _load_resume_state, ResumeState, Instance, Continues
<1>4. CASE n # 0
  <2>1. last.kind = "object" /\ last.event = genuine[n] /\ n \in 1..Len(genuine)
    BY <1>2, <1>4
  <2>2. Opened(k) = ResumeFrom(last.event)
    BY <1>1, <1>2, <1>4, <2>1 DEF _load_resume_state, Unreadable
  <2>3. Opened(k) = ResumeState(genuine[n].sequence_number + 1, genuine[n].current_hash)
    BY <2>1, <2>2 DEF ResumeFrom, Raised
  <2>4. genuine[n].sequence_number \in Nat
    BY <2>1, GenuineAt DEF FileInv
  <2>5. /\ Instance(k)._next_sequence = genuine[n].sequence_number + 1
        /\ Instance(k)._last_current_hash = genuine[n].current_hash
        /\ Instance(k).on_path
    BY <2>3 DEF Instance, ResumeState
  <2> QED
    BY <2>1, <2>4, <2>5 DEF Continues
<1> QED
  BY <1>3, <1>4

\* An appended event.
LEMMA UntouchedAppends ==
    ASSUME NEW g, GenuineInv(g), Linked(g), NEW w \in Writers(g), Continues(g, w),
           NEW c \in Calls, NEW e, e = NextEvent(w, c)
    PROVE  /\ Linked(Append(g, e))
           /\ Continues(Append(g, e), After(w, c))
           /\ \A v \in Writers(g) : Continues(g, v) => Continues(Append(g, e), v)
<1> DEFINE g2 == Append(g, e)
<1>1. /\ w._key \in Keys /\ w._next_sequence \in Nat /\ w._last_current_hash \in Hash
      /\ w.on_path
  BY DEF Writers, Continues
<1>2. /\ e \in AuditEvent /\ e.sequence_number = w._next_sequence
      /\ e.previous_hash = w._last_current_hash
  BY <1>1, NextEventMade
<1>3. /\ g \in Seq(AuditEvent) /\ Len(g2) = Len(g) + 1 /\ Len(g) \in Nat
      /\ \A i \in 1..Len(g) : g2[i] = g[i]
      /\ g2[Len(g) + 1] = e
  BY <1>2, Grown DEF GenuineInv
<1> HIDE DEF g2
<1>4. Linked(g2)
  <2> SUFFICES ASSUME NEW i \in 1..Len(g2), \A j \in 1..i : g2[j].sequence_number = j - 1
               PROVE  g2[i].previous_hash = IF i = 1 THEN Genesis ELSE g2[i - 1].current_hash
    BY DEF Linked
  <2>1. CASE i \in 1..Len(g)
    <3>1. \A j \in 1..i : g[j].sequence_number = j - 1
      <4> TAKE j \in 1..i
      <4>1. g2[j].sequence_number = j - 1
        OBVIOUS
      <4>2. j \in 1..Len(g)
        BY <1>3, <2>1
      <4> QED
        BY <1>3, <4>1, <4>2
    <3>2. g[i].previous_hash = IF i = 1 THEN Genesis ELSE g[i - 1].current_hash
      BY <2>1, <3>1 DEF Linked
    <3> QED
      BY <1>3, <2>1, <3>2
  <2>2. CASE i = Len(g) + 1
    <3>1. w._next_sequence = Len(g) /\ g2[i] = e
      <4>1. g2[i].sequence_number = i - 1
        OBVIOUS
      <4> QED
        BY <1>2, <1>3, <2>2, <4>1
    <3>2. CASE Len(g) = 0
      BY <1>2, <2>2, <3>1, <3>2 DEF Continues
    <3>3. CASE Len(g) # 0
      <4>1. PICK m \in 1..Len(g) : /\ g[m].sequence_number + 1 = Len(g)
                                   /\ g[m].current_hash = w._last_current_hash
        BY <3>1, <3>3 DEF Continues
      <4>2. g2[m].sequence_number = m - 1
        BY <1>3, <2>2
      <4>3. g[m].sequence_number = m - 1
        BY <1>3, <4>2
      <4>4. m = Len(g)
        BY <1>3, <4>1, <4>3
      <4> QED
        BY <1>2, <1>3, <2>2, <3>1, <3>3, <4>1, <4>4
    <3> QED
      BY <3>2, <3>3
  <2> QED
    BY <1>3, <2>1, <2>2
<1>5. Continues(g2, After(w, c))
  <2>1. /\ After(w, c)._next_sequence = w._next_sequence + 1
        /\ After(w, c)._last_current_hash = e.current_hash
        /\ After(w, c).on_path
    BY <1>1 DEF After, Writers
  <2>2. w._next_sequence + 1 # 0 /\ Len(g) + 1 \in 1..Len(g2)
    BY <1>1, <1>3
  <2> QED
    BY <1>2, <1>3, <2>1, <2>2 DEF Continues
<1>6. ASSUME NEW v \in Writers(g), Continues(g, v) PROVE Continues(g2, v)
  <2>1. CASE v._next_sequence = 0
    BY <1>6, <2>1 DEF Continues
  <2>2. CASE v._next_sequence # 0
    <3>1. PICK m \in 1..Len(g) : /\ g[m].sequence_number + 1 = v._next_sequence
                                 /\ g[m].current_hash = v._last_current_hash
      BY <1>6, <2>2 DEF Continues
    <3>2. m \in 1..Len(g2) /\ g2[m] = g[m]
      BY <1>3
    <3> QED
      BY <1>6, <2>2, <3>1, <3>2 DEF Continues
  <2> QED
    BY <2>1, <2>2
<1> QED
  BY <1>4, <1>5, <1>6 DEF g2

LEMMA UntouchedConstruct ==
    ASSUME FileInv, UntouchedInv, NEW explicit, NEW env, Construct(explicit, env)
    PROVE  UntouchedInv'
<1> DEFINE k == resolve_key(explicit, env)
<1> SUFFICES ASSUME ops' \subseteq Harmless PROVE Untouched'
  BY DEF UntouchedInv
<1>1. Untouched
  BY DEF Construct, Done, changes, UntouchedInv
<1>2. writer' # None => Continues(genuine, writer')
  <2>1. CASE Opened(k).raised = "none"
    <3>1. k \in Keys
      BY <2>1, InstanceGood DEF resolve_key
    <3> QED
      BY <1>1, <2>1, <3>1, InstanceContinues DEF Construct
  <2>2. CASE Opened(k).raised # "none"
    BY <2>2 DEF Construct
  <2> QED
    BY <2>1, <2>2
<1>3. UNCHANGED << file, other, genuine >>
  BY DEF Construct
<1> QED
  BY <1>1, <1>2, <1>3 DEF Untouched

LEMMA UntouchedSecond ==
    ASSUME FileInv, UntouchedInv, Second
    PROVE  UntouchedInv'
<1> SUFFICES ASSUME ops' \subseteq Harmless PROVE Untouched'
  BY DEF UntouchedInv
<1>1. Untouched
  BY DEF Second, Done, UntouchedInv
<1>2. Continues(genuine, writer')
  BY <1>1, InstanceContinues, EditedLogAssumption DEF Second
<1>3. writer # None /\ other' = writer /\ UNCHANGED << file, genuine >>
  BY DEF Second
<1> QED
  BY <1>1, <1>2, <1>3 DEF Untouched

LEMMA UntouchedAppend ==
    ASSUME FileInv, Untouched, NEW w \in {writer, other}, NEW c \in Calls, AppendEvent(w, c)
    PROVE  /\ file'.tail = NoTail /\ Records(file'.lines, genuine') /\ Linked(genuine')
           /\ Continues(genuine', After(w, c))
           /\ \A v \in {writer, other} : v # None => Continues(genuine', v)
<1> DEFINE e == NextEvent(w, c)
           n == Len(genuine)
<1>1. /\ w \in Writers(genuine) /\ Continues(genuine, w)
      /\ genuine' = Append(genuine, e)
      /\ file.tail = NoTail /\ Records(file.lines, genuine) /\ Linked(genuine)
      /\ GenuineInv(genuine)
      /\ writer \in Writers(genuine) \cup {None} /\ other \in Writers(genuine) \cup {None}
  BY DEF AppendEvent, FileInv, Untouched
<1>2. /\ Linked(genuine')
      /\ Continues(genuine', After(w, c))
      /\ \A v \in Writers(genuine) : Continues(genuine, v) => Continues(genuine', v)
  BY <1>1, UntouchedAppends
<1>3. \A v \in {writer, other} : v # None => Continues(genuine', v)
  BY <1>1, <1>2 DEF Untouched
<1>4. e \in AuditEvent
  BY <1>1, NextEventMade DEF Writers
<1>5. file' = [lines |-> Append(file.lines, Object(e)), tail |-> NoTail]
  BY <1>1 DEF AppendEvent, Continues
<1> HIDE DEF e
<1>6. /\ n \in Nat /\ Len(genuine') = n + 1 /\ genuine'[n + 1] = e
      /\ \A i \in 1..n : genuine'[i] = genuine[i]
  BY <1>1, <1>4, Grown DEF GenuineInv
<1>7. file.lines \in Seq(GoodLine(genuine)) /\ Len(file.lines) = n
      /\ \A i \in 1..n : file.lines[i].kind = "object" /\ file.lines[i].event = genuine[i]
  BY <1>1 DEF Records, FileInv, GoodFile
<1> DEFINE new == Append(file.lines, Object(e))
<1>8. /\ Len(new) = n + 1 /\ new[n + 1] = Object(e)
      /\ \A i \in 1..n : new[i] = file.lines[i]
  <2>1. \A S : \A q \in Seq(S) : \A x :
          /\ Len(Append(q, x)) = Len(q) + 1 /\ Append(q, x)[Len(q) + 1] = x
          /\ \A i \in 1..Len(q) : Append(q, x)[i] = q[i]
    OBVIOUS
  <2> QED
    BY <1>7, <2>1
<1>9. Object(e).kind = "object" /\ Object(e).event = e
  BY DEF Object
<1>10. file'.lines = new /\ file'.tail = NoTail
  BY <1>5
<1> HIDE DEF new
<1>11. Records(new, genuine')
  <2>1. ASSUME NEW i \in 1..Len(genuine')
        PROVE  new[i].kind = "object" /\ new[i].event = genuine'[i]
    <3>1. CASE i \in 1..n
      BY <1>6, <1>7, <1>8, <3>1
    <3>2. CASE i = n + 1
      BY <1>6, <1>8, <1>9, <3>2
    <3> QED
      BY <1>6, <3>1, <3>2
  <2> QED
    BY <1>6, <1>8, <2>1 DEF Records
<1> QED
  BY <1>2, <1>3, <1>10, <1>11

LEMMA UntouchedRecord ==
    ASSUME FileInv, UntouchedInv, NEW c \in Calls, Record(c) \/ RecordOther(c)
    PROVE  UntouchedInv'
<1> SUFFICES ASSUME ops' \subseteq Harmless PROVE Untouched'
  BY DEF UntouchedInv
<1>1. Untouched
  BY DEF Record, RecordOther, AppendEvent, changes, UntouchedInv
<1>2. CASE Record(c)
  <2>1. AppendEvent(writer, c) /\ writer' = After(writer, c) /\ other' = other
    BY <1>2 DEF Record
  <2>2. /\ file'.tail = NoTail /\ Records(file'.lines, genuine') /\ Linked(genuine')
        /\ Continues(genuine', writer')
        /\ other # None => Continues(genuine', other)
    BY <1>1, <2>1, UntouchedAppend
  <2> QED
    BY <2>1, <2>2 DEF Untouched
<1>3. CASE RecordOther(c)
  <2>1. AppendEvent(other, c) /\ other' = After(other, c) /\ writer' = writer
    BY <1>3 DEF RecordOther
  <2>2. /\ file'.tail = NoTail /\ Records(file'.lines, genuine') /\ Linked(genuine')
        /\ Continues(genuine', other')
        /\ writer # None => Continues(genuine', writer)
    BY <1>1, <2>1, UntouchedAppend
  <2> QED
    BY <2>1, <2>2 DEF Untouched
<1> QED
  BY <1>2, <1>3

\* A line written anew with the same event.
LEMMA UntouchedRewrite ==
    ASSUME FileInv, UntouchedInv, NEW op, NEW i \in Lines, NEW what, NEW line,
           Rewrite(op, i, what, line), line.kind = "object", line.event = file.lines[i].event
    PROVE  UntouchedInv'
<1> SUFFICES ASSUME ops' \subseteq Harmless PROVE Untouched'
  BY DEF UntouchedInv
<1>1. Untouched
  BY DEF Rewrite, Edit, Done, UntouchedInv
<1>2. file' = [file EXCEPT !.lines[i] = line] /\ UNCHANGED << writer, other, genuine >>
  BY DEF Rewrite, Edit
<1>3. file' = [lines |-> [file.lines EXCEPT ![i] = line], tail |-> file.tail]
  BY <1>2 DEF FileInv, GoodFile
<1> DEFINE new == [file.lines EXCEPT ![i] = line]
<1>4. Len(new) = Len(file.lines) /\ \A j \in Lines : new[j] = IF j = i THEN line ELSE file.lines[j]
  BY DEF Lines, FileInv, GoodFile
<1>5. file'.lines = new /\ file'.tail = file.tail
  BY <1>3
<1> HIDE DEF new
<1>6. Records(new, genuine)
  BY <1>1, <1>4 DEF Untouched, Records, Lines
<1> QED
  BY <1>1, <1>2, <1>5, <1>6 DEF Untouched

LEMMA UntouchedEdit ==
    ASSUME FileInv, UntouchedInv, EditNext
    PROVE  UntouchedInv'
<1>1. ASSUME NEW i \in Lines, Respell(i) PROVE UntouchedInv'
  <2>1. Respelled(file.lines[i]).kind = "object"
        /\ Respelled(file.lines[i]).event = file.lines[i].event
    BY <1>1, LineAt, RespelledGood DEF Respell
  <2> QED
    BY <1>1, <2>1, UntouchedRewrite DEF Respell
<1>2. ASSUME NEW i \in Lines, Reload(i) PROVE UntouchedInv'
  <2>1. to_dict(from_dict(file.lines[i].event)) = file.lines[i].event
    BY <1>2, LineAt, Reloaded DEF Reload
  <2>2. Rewrite("reload", i, None, Object(file.lines[i].event))
    BY <1>2, <2>1 DEF Reload
  <2> QED
    BY <2>2, UntouchedRewrite DEF Object
<1>3. CASE Second
  BY <1>3, UntouchedSecond
<1>4. ASSUME NEW to, ChangeAccess(to) PROVE UntouchedInv'
  BY <1>4 DEF ChangeAccess, Done, UntouchedInv, Untouched
<1>5. ASSUME NEW op, op \notin Harmless, ops' = ops \cup {op} PROVE UntouchedInv'
  BY <1>5 DEF UntouchedInv
<1>6. ASSUME NEW op, op \notin Harmless, NEW i, NEW what, NEW new, Edit(op, i, what, new)
      PROVE  UntouchedInv'
  BY <1>5, <1>6 DEF Edit, Done
<1>7. /\ "change" \notin Harmless /\ "drop" \notin Harmless /\ "add" \notin Harmless
      /\ "rekey" \notin Harmless /\ "garble" \notin Harmless /\ "delete" \notin Harmless
      /\ "swap" \notin Harmless /\ "permute" \notin Harmless /\ "insert" \notin Harmless
  BY DEF Harmless
<1>8. ASSUME NEW i \in Lines,
             \/ \E field \in RequiredKeys : \E value \in Values(field) : ChangeField(i, field, value)
             \/ \E field \in RequiredKeys : DropField(i, field)
             \/ AddField(i)
      PROVE  UntouchedInv'
  BY <1>6, <1>7, <1>8 DEF ChangeField, DropField, AddField, Rewrite
<1>9. ASSUME NEW i \in Lines,
             Rekey(i) \/ (\E kind \in Unreadable : Garble(i, kind)) \/ Delete(i)
      PROVE  UntouchedInv'
  BY <1>6, <1>7, <1>9 DEF Rekey, Garble, Delete, Rewrite
<1>10. ASSUME NEW i \in Lines, NEW j \in Lines, Swap(i, j) \/ Permute(i, j) PROVE UntouchedInv'
  BY <1>6, <1>7, <1>10 DEF Swap, Permute, Rewrite
<1>11. ASSUME NEW i, NEW n, Insert(i, n) PROVE UntouchedInv'
  BY <1>6, <1>7, <1>11 DEF Insert
<1>12. CASE CutNewline \/ Remove
  BY <1>5, <1>12 DEF CutNewline, Remove, Edit, Done, Harmless
<1> QED
  BY <1>1, <1>2, <1>3, <1>4, <1>8, <1>9, <1>10, <1>11, <1>12 DEF EditNext

LEMMA UntouchedInvNext == CliInv /\ UntouchedInv /\ [CliNext]_<< vars, cli >> => UntouchedInv'
<1> SUFFICES ASSUME CliInv, UntouchedInv, [CliNext]_<< vars, cli >> PROVE UntouchedInv'
  OBVIOUS
<1>1. FileInv
  BY DEF CliInv
<1>2. CASE UNCHANGED << file, writer, other, genuine, ops >>
  BY <1>2 DEF UntouchedInv, Untouched
<1>3. CASE WriterNext
  BY <1>1, <1>3, UntouchedConstruct, UntouchedRecord, UntouchedEdit DEF WriterNext
<1>4. CASE ~WriterNext
  <2>1. ASSUME NEW explicit, NEW env, ReaderNext(explicit, env)
        PROVE  UNCHANGED << file, writer, other, genuine, ops >>
    BY <2>1, LoopStep DEF ReaderNext, MissingKey, LogUnavailable, VerifyStart, Raise, disk, changes
  <2> QED
    BY <1>2, <1>4, <2>1 DEF CliNext, Run, Verifying, UsageError, Verdict, Failed, Exit, vars, disk,
                            changes
<1> QED
  BY <1>3, <1>4

LEMMA UntouchedInvInit == CliInit => UntouchedInv
<1> SUFFICES ASSUME CliInit PROVE UntouchedInv
  OBVIOUS
<1>1. file.lines = << >> /\ file.tail = NoTail /\ genuine = << >> /\ writer = None /\ other = None
  BY DEF CliInit, Init, EmptyFile
<1>2. Len(genuine) = 0 /\ Len(file.lines) = 0
  BY <1>1, EmptySeq
<1> QED
  BY <1>1, <1>2 DEF UntouchedInv, Untouched, Records, Linked

\* What a log becomes without anybody editing it is accepted, unless numbers were
\* given out twice or keys were changed, and then the first such line is named
\* (record() and the constructor of audit.py against the checks of verify.py).
THEOREM UntouchedAlwaysVerifies == CliSpec => []UntouchedVerifies
<1>1. CliInv /\ UntouchedInv => UntouchedVerifies
  <2> DEFINE Forked(i)  == genuine[i].sequence_number # i - 1
             Foreign(i) == genuine[i].current_hash[Len(genuine[i].current_hash)].key # key
             bad        == {i \in 1..Len(genuine) : Forked(i) \/ Foreign(i)}
  <2> SUFFICES ASSUME CliInv, UntouchedInv, stage = "returned", ops \subseteq Harmless
               PROVE  IF bad = {}
                        THEN result.ok
                        ELSE /\ ~result.ok
                             /\ result.failure.line \in bad
                             /\ \A i \in bad : result.failure.line <= i
                             /\ result.failure.kind = IF Forked(result.failure.line)
                                                      THEN "sequence_gap" ELSE "content_tampered"
    BY DEF UntouchedVerifies, Harmless
  <2>1. Untouched
    BY DEF UntouchedInv
  <2>2. /\ byte_lines = file.lines /\ key \in Keys
        /\ GenuineInv(genuine) /\ Linked(genuine) /\ Records(byte_lines, genuine)
        /\ Len(byte_lines) = Len(genuine) /\ Len(genuine) \in Nat
    BY <2>1, LenProperties DEF CliInv, ReadInv, _split_byte_lines, FileInv, GenuineInv, Untouched, Records
  <2>3. /\ idx \in Nat /\ idx <= Len(byte_lines) /\ WrittenBy(key, byte_lines, idx)
        /\ VerdictFits(key, byte_lines, idx, result)
    BY LenProperties DEF CliInv, VerifyInv, LoopInv
  <2>4. ASSUME NEW n \in 0..Len(genuine), \A i \in 1..n : i \notin bad
        PROVE  WrittenBy(key, byte_lines, n)
    <3>1. \A i \in 1..n : ~Forked(i) /\ ~Foreign(i)
      BY <2>2, <2>4
    <3> QED
      BY <2>2, <3>1, UntouchedWritten
  <2>5. ASSUME NEW f \in bad PROVE ~WrittenBy(key, byte_lines, f)
    <3> SUFFICES ASSUME WrittenBy(key, byte_lines, f) PROVE FALSE
      OBVIOUS
    <3>1. f \in 1..Len(genuine) /\ f \in Nat /\ f - 1 \in Nat /\ f \in 1..f
      BY <2>2, <2>5
    <3>2. PICK c \in Calls : byte_lines[f].event = MakeEvent(key, f - 1, c, HashBehind(byte_lines, f - 1))
      BY <3>1, WrittenAt
    <3>3. HashBehind(byte_lines, f - 1) \in Hash
      <4>1. WrittenBy(key, byte_lines, f - 1)
        BY <3>1, FewerWritten
      <4> QED
        BY <2>2, <3>1, <4>1, WrittenHash
    <3>4. genuine[f] = MakeEvent(key, f - 1, c, HashBehind(byte_lines, f - 1))
      BY <2>2, <3>1, <3>2 DEF Records
    <3>5. genuine[f].sequence_number = f - 1
      BY <3>4 DEF MakeEvent
    <3> DEFINE h == HashBehind(byte_lines, f - 1)
               link == [key |-> key, sequence_number |-> f - 1, call |-> c]
    <3>6. genuine[f].current_hash = Append(h, link)
      BY <3>4 DEF MakeEvent, compute_current_hash
    <3> HIDE DEF h
    <3>7. Append(h, link)[Len(Append(h, link))] = link
      <4>1. h \in Seq(Link)
        BY <3>3 DEF h, Hash
      <4> HIDE DEF link
      <4> QED
        BY <4>1
    <3>8. ~Foreign(f)
      BY <3>6, <3>7
    <3> QED
      BY <2>5, <3>5, <3>8
  <2> HIDE DEF bad
  <2>6. bad \subseteq 1..Len(genuine)
    BY DEF bad
  <2>7. CASE bad = {}
    <3>1. WrittenBy(key, byte_lines, Len(genuine))
      BY <2>2, <2>4, <2>7
    <3>2. result.ok
      <4> SUFFICES ASSUME ~result.ok PROVE FALSE
        OBVIOUS
      <4>1. idx + 1 \in 0..Len(genuine) /\ ~WrittenBy(key, byte_lines, idx + 1)
        BY <2>2, <2>3 DEF VerdictFits
      <4> QED
        BY <2>2, <3>1, <4>1, FewerWritten
    <3> QED
      BY <2>7, <3>2
  <2>8. CASE bad # {}
    <3>1. PICK f \in bad : \A i \in bad : f <= i
      <4>1. bad \subseteq Nat
        BY <2>2, <2>6
      <4> QED
        BY <2>8, <4>1, Least
    <3>2. f \in 1..Len(genuine) /\ f - 1 \in 0..Len(genuine) /\ f - 1 \in Nat
      BY <2>2, <2>6
    <3>3. WrittenBy(key, byte_lines, f - 1)
      <4>1. \A i \in 1..f - 1 : i \notin bad
        BY <2>2, <3>1, <3>2
      <4> QED
        BY <2>4, <3>2, <4>1
    <3>4. ~WrittenBy(key, byte_lines, f)
      BY <2>5
    <3>5. idx <= f - 1
      <4> SUFFICES ASSUME ~(idx <= f - 1) PROVE FALSE
        OBVIOUS
      <4>1. f \in 0..idx
        BY <2>3, <3>2
      <4> QED
        BY <2>3, <3>4, <4>1, FewerWritten
    <3>6. ~result.ok
      BY <2>2, <2>3, <3>2, <3>5 DEF VerdictFits
    <3>7. idx = f - 1
      <4>1. ~WrittenBy(key, byte_lines, idx + 1)
        BY <2>3, <3>6 DEF VerdictFits
      <4> SUFFICES ASSUME idx < f - 1 PROVE FALSE
        BY <2>3, <3>2, <3>5
      <4>2. idx + 1 \in 0..f - 1
        BY <2>3, <3>2
      <4> QED
        BY <3>2, <3>3, <4>1, <4>2, FewerWritten
    <3>8. /\ result.failure.line = f
          /\ result.failure.kind = Complaint(byte_lines[f], f - 1, HashBehind(byte_lines, f - 1))
      <4>1. idx + 1 = f
        BY <3>2, <3>7
      <4> QED
        BY <2>3, <3>6, <3>7, <4>1 DEF VerdictFits
    <3>9. /\ byte_lines[f].kind = "object" /\ byte_lines[f].event = genuine[f]
          /\ DOMAIN genuine[f] = RequiredKeys
      BY <2>2, <3>2, GenuineAt DEF Records
    <3>10. CASE Forked(f)
      <4>1. result.failure.kind = "sequence_gap"
        BY <3>8, <3>9, <3>10 DEF Complaint
      <4> QED
        BY <2>8, <3>1, <3>6, <3>8, <3>10, <4>1
    <3>11. CASE ~Forked(f)
      <4>1. \A j \in 1..f : genuine[j].sequence_number = j - 1
        <5> TAKE j \in 1..f
        <5>1. CASE j = f
          BY <3>11, <5>1
        <5>2. CASE j # f
          BY <2>2, <3>1, <3>2, <5>2 DEF bad
        <5> QED
          BY <5>1, <5>2
      <4>2. genuine[f].previous_hash = IF f = 1 THEN Genesis ELSE genuine[f - 1].current_hash
        BY <2>2, <3>2, <4>1 DEF Linked
      <4>3. HashBehind(byte_lines, f - 1) = IF f = 1 THEN Genesis ELSE genuine[f - 1].current_hash
        BY <2>2, <3>2 DEF HashBehind, Records
      <4>4. result.failure.kind = "content_tampered"
        BY <3>8, <3>9, <3>11, <4>2, <4>3 DEF Complaint
      <4> QED
        BY <2>8, <3>1, <3>6, <3>8, <3>11, <4>4
    <3> QED
      BY <3>10, <3>11
  <2> QED
    BY <2>7, <2>8
<1> QED
  BY <1>1, CliInvAlways, UntouchedInvInit, UntouchedInvNext, PTL DEF CliSpec

-----------------------------------------------------------------------------
(* One change *)

\* verify() with Key reports this line as this kind of failure.
FailsAt(parts, line, kind) ==
    /\ line \in 1..Len(parts)
    /\ WrittenBy(Key, parts, line - 1)
    /\ ~WrittenBy(Key, parts, line)
    /\ Complaint(parts[line], line - 1, HashBehind(parts, line - 1)) = kind

Ops == {"add", "drop", "garble", "rekey", "swap", "delete", "insert", "cut", "respell", "reload",
        "second", "rotate", "remove", "access", "permute", "change"}

\* What is claimed of a file with parts, when e is the one change to a log of n events.
Claim(e, parts, n) ==
    LET At(kind, line) == FailsAt(parts, line, kind)
        Fine           == WrittenBy(Key, parts, Len(parts))
    IN  /\ e.op \in Ops
        /\ CASE e.op = "add"     -> At("unexpected_field", e.line)
             [] e.op = "drop"    -> At("missing_field", e.line)
             [] e.op = "garble"  -> At("parse_error", e.line) /\ parts[e.line].kind = e.what
             [] e.op = "rekey"   -> At("content_tampered", e.line)
             [] e.op = "swap"    -> At("sequence_gap", e.line)
             [] e.op = "delete"  -> IF e.line = n THEN Fine ELSE At("sequence_gap", e.line)
             [] e.op = "insert"  -> At("sequence_gap", IF e.line = e.what THEN e.line + 1 ELSE e.line)
             [] e.op \in {"cut", "respell", "reload", "second", "rotate", "remove", "access"} -> Fine
             [] e.op = "permute" -> At("chain_break", e.line)
             [] e.op = "change"  ->
                  At(CASE e.what = "sequence_number" -> "sequence_gap"
                       [] e.what = "previous_hash"   -> "chain_break"
                       [] OTHER                      -> "content_tampered", e.line)

\* Nothing was changed yet.
Pristine ==
    /\ ops = {}
    /\ other = None
    /\ writer # None => opened_on = "verified"
    /\ WrittenBy(Key, file.lines, Len(file.lines))

SingleInv ==
    /\ edits \in Nat
    /\ edits = 0 => Pristine
    /\ edits = 1 => edit.written \in Nat /\ edit.written <= Len(genuine)
    /\ edits = 1 /\ edit.written = Len(genuine) =>
         Claim(edit, _split_byte_lines(file), Len(genuine))

\* A hash is as long as the chain before it.
LEMMA HashLength ==
    ASSUME NEW k \in Keys, NEW parts, NEW n \in Nat, WrittenBy(k, parts, n)
    PROVE  Len(HashBehind(parts, n)) = n
<1> DEFINE Wrong == {i \in 0..n : Len(HashBehind(parts, i)) # i}
<1> SUFFICES ASSUME Wrong # {} PROVE FALSE
  OBVIOUS
<1>1. PICK i \in Wrong : \A j \in Wrong : i <= j
  <2>1. Wrong \subseteq Nat
    OBVIOUS
  <2> HIDE DEF Wrong
  <2> QED
    BY <2>1, Least
<1>2. i # 0
  BY EmptySeq DEF HashBehind, Genesis
<1>3. i - 1 \in Nat /\ i \in 1..n /\ Len(HashBehind(parts, i - 1)) = i - 1 /\ i - 1 \in 0..n
  BY <1>1, <1>2
<1>4. HashBehind(parts, i - 1) \in Hash
  <2>1. WrittenBy(k, parts, i - 1)
    BY <1>3, FewerWritten
  <2> QED
    BY <1>3, <2>1, WrittenHash
<1>5. PICK c \in Calls : parts[i].event = MakeEvent(k, i - 1, c, HashBehind(parts, i - 1))
  BY <1>3, WrittenAt
<1> DEFINE h == HashBehind(parts, i - 1)
           link == [key |-> k, sequence_number |-> i - 1, call |-> c]
<1>6. HashBehind(parts, i) = Append(h, link)
  <2>1. MakeEvent(k, i - 1, c, h).current_hash = Append(h, link)
    BY DEF MakeEvent, compute_current_hash
  <2>2. HashBehind(parts, i) = parts[i].event.current_hash
    BY <1>2 DEF HashBehind
  <2> QED
    BY <1>5, <2>1, <2>2
<1>7. Len(Append(h, link)) = i
  <2>1. h \in Seq(Link) /\ Len(h) = i - 1
    BY <1>3, <1>4 DEF Hash
  <2> HIDE DEF h, link
  <2>2. Len(Append(h, link)) = Len(h) + 1
    BY <2>1
  <2> QED
    BY <1>3, <2>1, <2>2
<1> QED
  BY <1>1, <1>6, <1>7

\* The i-th line of a log nobody changed.
LEMMA PristineLine ==
    ASSUME CliInv, Pristine, NEW i \in Lines
    PROVE  /\ i - 1 \in Nat
           /\ HashBehind(file.lines, i - 1) \in Hash
           /\ Len(HashBehind(file.lines, i - 1)) = i - 1
           /\ file.lines[i].kind = "object"
           /\ file.lines[i].event \in RawEvent
           /\ DOMAIN file.lines[i].event = RequiredKeys
           /\ file.lines[i].event.sequence_number = i - 1
           /\ file.lines[i].event.call \in Calls
           /\ file.lines[i].event.previous_hash = HashBehind(file.lines, i - 1)
           /\ file.lines[i].event.current_hash =
                Append(HashBehind(file.lines, i - 1),
                       [key |-> Key, sequence_number |-> i - 1, call |-> file.lines[i].event.call])
<1> DEFINE h == HashBehind(file.lines, i - 1)
           n == Len(file.lines)
<1>1. n \in Nat /\ i \in 1..n /\ i - 1 \in Nat /\ i - 1 \in 0..n /\ Key \in Keys
  BY LinesTyped, EditedLogAssumption DEF CliInv, Lines
<1>2. WrittenBy(Key, file.lines, n) /\ WrittenBy(Key, file.lines, i - 1)
  BY <1>1, FewerWritten DEF Pristine
<1>3. h \in Hash /\ Len(h) = i - 1
  BY <1>1, <1>2, WrittenHash, HashLength
<1>w. /\ file.lines[i].kind = "object"
      /\ \E c \in Calls : file.lines[i].event = MakeEvent(Key, i - 1, c, HashBehind(file.lines, i - 1))
  <2> HIDE DEF h, n
  <2> QED
    BY <1>1, <1>2, WrittenAt
<1>4. PICK c \in Calls : file.lines[i].event = MakeEvent(Key, i - 1, c, h)
  BY <1>w
<1>5. file.lines[i].kind = "object"
  BY <1>w
<1>6. file.lines[i].event \in RawEvent
  BY <1>5, LineAt DEF CliInv
<1> HIDE DEF h
<1>7. /\ DOMAIN file.lines[i].event = RequiredKeys
      /\ file.lines[i].event.sequence_number = i - 1
      /\ file.lines[i].event.call = c
      /\ file.lines[i].event.previous_hash = h
      /\ file.lines[i].event.current_hash =
           Append(h, [key |-> Key, sequence_number |-> i - 1, call |-> c])
  BY <1>4 DEF MakeEvent, compute_current_hash, RequiredKeys
<1> QED
  BY <1>1, <1>3, <1>5, <1>6, <1>7 DEF h

LEMMA PristineFile ==
    ASSUME CliInv, UntouchedInv, Pristine
    PROVE  /\ file.tail = NoTail
           /\ file.lines \in Seq(RawLine)
           /\ Len(file.lines) \in Nat
           /\ Len(file.lines) = Len(genuine)
           /\ \A i \in Lines : file.lines[i].event = genuine[i]
           /\ _split_byte_lines(file) = file.lines
<1>1. Untouched
  BY DEF UntouchedInv, Pristine
<1>2. file \in RawFile
  BY GoodFileIsRaw DEF CliInv, FileInv
<1> QED
  BY <1>1, <1>2, LenProperties DEF Untouched, Records, RawFile, _split_byte_lines, Lines

\* A line that is complained about, for another reason than its hash, was not written.
LEMMA ComplaintUnwritten ==
    ASSUME NEW k, NEW parts, NEW n \in Nat,
           Complaint(parts[n + 1], n, HashBehind(parts, n)) # "content_tampered"
    PROVE  ~WrittenNext(k, parts, n)
<1> SUFFICES ASSUME WrittenNext(k, parts, n) PROVE FALSE
  OBVIOUS
<1> DEFINE h == HashBehind(parts, n)
           e == parts[n + 1].event
<1>1. PICK c \in Calls : e = MakeEvent(k, n, c, h)
  BY DEF WrittenNext
<1>2. parts[n + 1].kind = "object"
  BY DEF WrittenNext
<1>3. DOMAIN e = RequiredKeys /\ e.sequence_number = n /\ e.previous_hash = h
  BY <1>1 DEF MakeEvent, RequiredKeys
<1> QED
  BY <1>2, <1>3 DEF Complaint

\* Lines that are as they were up to one that was not written there.
LEMMA FailsThere ==
    ASSUME CliInv, UntouchedInv, Pristine, NEW parts, Len(parts) \in Nat, NEW i \in 1..Len(parts),
           i - 1 <= Len(file.lines),
           SameLines(parts, file.lines, i - 1),
           NEW kind, kind = Complaint(parts[i], i - 1, HashBehind(file.lines, i - 1)),
           kind = "content_tampered" =>
             \A c \in Calls : parts[i].event # MakeEvent(Key, i - 1, c, HashBehind(file.lines, i - 1))
    PROVE  FailsAt(parts, i, kind)
<1> DEFINE n == i - 1
<1>1. n \in Nat /\ n + 1 = i /\ n \in 0..Len(file.lines) /\ n \in 0..n
  BY PristineFile
<1>2. SameLines(parts, file.lines, n)
  OBVIOUS
<1>3. WrittenBy(Key, file.lines, n)
  BY <1>1, PristineFile, FewerWritten DEF Pristine
<1>4. WrittenBy(Key, parts, n) /\ HashBehind(parts, n) = HashBehind(file.lines, n)
  BY <1>1, <1>2, <1>3, SameWritten
<1>5. ~WrittenNext(Key, parts, n)
  <2>1. CASE kind = "content_tampered"
    BY <1>1, <1>4, <2>1 DEF WrittenNext
  <2>2. CASE kind # "content_tampered"
    BY <1>1, <1>4, <2>2, ComplaintUnwritten
  <2> QED
    BY <2>1, <2>2
<1>6. ~WrittenBy(Key, parts, n + 1)
  BY <1>1, <1>5, OneMoreWritten
<1> QED
  BY <1>1, <1>4, <1>6 DEF FailsAt

\* One line was rewritten.
LEMMA RewriteFails ==
    ASSUME CliInv, UntouchedInv, Pristine, NEW op, NEW i \in Lines, NEW what, NEW line,
           Rewrite(op, i, what, line),
           NEW kind, kind = Complaint(line, i - 1, HashBehind(file.lines, i - 1)),
           kind = "content_tampered" =>
             \A c \in Calls : line.event # MakeEvent(Key, i - 1, c, HashBehind(file.lines, i - 1))
    PROVE  FailsAt(_split_byte_lines(file'), i, kind)
<1> DEFINE parts == [file.lines EXCEPT ![i] = line]
<1>1. file' = [lines |-> parts, tail |-> file.tail]
  BY DEF Rewrite, Edit, CliInv, FileInv, GoodFile
<1>2. /\ file.tail = NoTail /\ file.lines \in Seq(RawLine) /\ Len(file.lines) \in Nat
      /\ i \in 1..Len(file.lines)
  BY PristineFile DEF Lines
<1>3. Len(parts) = Len(file.lines) /\ \A j \in 1..Len(file.lines) : parts[j] = IF j = i THEN line ELSE file.lines[j]
  BY <1>2
<1>4. _split_byte_lines(file') = parts
  BY <1>1, <1>2 DEF _split_byte_lines
<1> HIDE DEF parts
<1>5. FailsAt(parts, i, kind)
  <2>1. /\ i \in 1..Len(parts) /\ parts[i] = line /\ i - 1 <= Len(file.lines)
        /\ SameLines(parts, file.lines, i - 1)
    BY <1>2, <1>3 DEF SameLines
  <2> QED
    BY <1>2, <1>3, <2>1, FailsThere
<1> QED
  BY <1>4, <1>5

LEMMA ChangeClaimed ==
    ASSUME CliInv, UntouchedInv, Pristine, NEW i \in Lines, NEW field \in RequiredKeys,
           NEW value \in Values(field), ChangeField(i, field, value)
    PROVE  FailsAt(_split_byte_lines(file'), i,
                   CASE field = "sequence_number" -> "sequence_gap"
                     [] field = "previous_hash"   -> "chain_break"
                     [] OTHER                     -> "content_tampered")
<1> DEFINE e == file.lines[i].event
           h == HashBehind(file.lines, i - 1)
           d == [e EXCEPT ![field] = value]
           kind == CASE field = "sequence_number" -> "sequence_gap"
                     [] field = "previous_hash"   -> "chain_break"
                     [] OTHER                     -> "content_tampered"
           link(c) == [key |-> Key, sequence_number |-> i - 1, call |-> c]
<1>1. /\ i - 1 \in Nat /\ h \in Hash /\ e \in RawEvent /\ DOMAIN e = RequiredKeys
      /\ e.sequence_number = i - 1 /\ e.call \in Calls /\ e.previous_hash = h
      /\ e.current_hash = Append(h, link(e.call))
  BY PristineLine
<1>2. e[field] # value /\ Rewrite("change", i, field, Object(d))
  BY DEF ChangeField
<1>3. e = [f \in RequiredKeys |-> e[f]]
  BY <1>1, RawEventFields
<1> HIDE DEF e, h
<1>4. /\ DOMAIN d = RequiredKeys
      /\ d.sequence_number = IF field = "sequence_number" THEN value ELSE e.sequence_number
      /\ d.call = IF field = "call" THEN value ELSE e.call
      /\ d.previous_hash = IF field = "previous_hash" THEN value ELSE e.previous_hash
      /\ d.current_hash = IF field = "current_hash" THEN value ELSE e.current_hash
  BY <1>3 DEF RequiredKeys
<1> HIDE DEF d
<1>5. Object(d).kind = "object" /\ Object(d).event = d
  BY DEF Object
<1>6. kind = Complaint(Object(d), i - 1, h)
  <2>1. CASE field = "sequence_number"
    BY <1>1, <1>2, <1>4, <1>5, <2>1 DEF Complaint
  <2>2. CASE field = "previous_hash"
    BY <1>1, <1>2, <1>4, <1>5, <2>2 DEF Complaint
  <2>3. CASE field \in {"call", "current_hash"}
    BY <1>1, <1>2, <1>4, <1>5, <2>3 DEF Complaint
  <2> QED
    BY <2>1, <2>2, <2>3 DEF RequiredKeys
<1>7. ASSUME kind = "content_tampered", NEW c \in Calls, d = MakeEvent(Key, i - 1, c, h) PROVE FALSE
  <2>1. field \in {"call", "current_hash"}
    BY <1>7 DEF RequiredKeys
  <2>2. d.call = c /\ d.current_hash = Append(h, link(c))
    BY <1>7 DEF MakeEvent, compute_current_hash
  <2>3. CASE field = "call"
    <3>1. Append(h, link(e.call)) = Append(h, link(c))
      BY <1>1, <1>4, <2>2, <2>3
    <3>2. link(e.call) \in Link /\ link(c) \in Link
      BY <1>1, <1>7, EditedLogAssumption DEF Link
    <3>3. link(e.call) = link(c)
      <4> DEFINE one == link(e.call)
                 two == link(c)
      <4> HIDE DEF one, two
      <4>1. one = two
        BY <1>1, <3>1, <3>2, AppendInjective DEF Hash, one, two
      <4> QED
        BY <4>1 DEF one, two
    <3>4. e.call = c
      BY <3>3
    <3> QED
      BY <1>2, <1>4, <2>2, <2>3, <3>4
  <2>4. CASE field = "current_hash"
    BY <1>1, <1>2, <1>4, <2>2, <2>4
  <2> QED
    BY <2>1, <2>3, <2>4
<1> HIDE DEF kind
<1>8. FailsAt(_split_byte_lines(file'), i, kind)
  BY <1>2, <1>5, <1>6, <1>7, RewriteFails DEF h
<1> QED
  BY <1>8 DEF kind

LEMMA DropClaimed ==
    ASSUME CliInv, UntouchedInv, Pristine, NEW i \in Lines, NEW field \in RequiredKeys, DropField(i, field)
    PROVE  FailsAt(_split_byte_lines(file'), i, "missing_field")
<1> DEFINE e == file.lines[i].event
           d == [f \in DOMAIN e \ {field} |-> e[f]]
<1>1. DOMAIN e = RequiredKeys
  BY PristineLine
<1>2. Rewrite("drop", i, field, Object(d))
  BY DEF DropField
<1>3. DOMAIN d \subseteq RequiredKeys /\ DOMAIN d # RequiredKeys
  BY <1>1
<1> HIDE DEF d
<1>4. "missing_field" = Complaint(Object(d), i - 1, HashBehind(file.lines, i - 1))
  BY <1>3 DEF Object, Complaint
<1> QED
  BY <1>2, <1>4, RewriteFails

LEMMA AddClaimed ==
    ASSUME CliInv, UntouchedInv, Pristine, NEW i \in Lines, AddField(i)
    PROVE  FailsAt(_split_byte_lines(file'), i, "unexpected_field")
<1> DEFINE e == file.lines[i].event
           d == [f \in DOMAIN e \cup {"extra"} |-> IF f = "extra" THEN None ELSE e[f]]
<1>1. Rewrite("add", i, "extra", Object(d))
  BY DEF AddField
<1>2. ~(DOMAIN d \subseteq RequiredKeys)
  BY DEF RequiredKeys
<1> HIDE DEF d
<1>3. "unexpected_field" = Complaint(Object(d), i - 1, HashBehind(file.lines, i - 1))
  BY <1>2 DEF Object, Complaint
<1> QED
  BY <1>1, <1>3, RewriteFails

LEMMA GarbleClaimed ==
    ASSUME CliInv, UntouchedInv, Pristine, NEW i \in Lines, NEW k \in Unreadable, Garble(i, k)
    PROVE  /\ FailsAt(_split_byte_lines(file'), i, "parse_error")
           /\ _split_byte_lines(file')[i].kind = k
<1>1. Rewrite("garble", i, k, Broken(k))
  BY DEF Garble
<1>2. "parse_error" = Complaint(Broken(k), i - 1, HashBehind(file.lines, i - 1))
  BY DEF Broken, Complaint, Unreadable
<1>3. _split_byte_lines(file')[i] = Broken(k)
  <2>1. file' = [lines |-> [file.lines EXCEPT ![i] = Broken(k)], tail |-> file.tail]
    BY <1>1 DEF Rewrite, Edit, CliInv, FileInv, GoodFile
  <2>2. file.tail = NoTail /\ file.lines \in Seq(RawLine) /\ i \in 1..Len(file.lines)
    BY PristineFile DEF Lines
  <2> QED
    BY <2>1, <2>2 DEF _split_byte_lines
<1> QED
  BY <1>1, <1>2, <1>3, RewriteFails DEF Broken

LEMMA RekeyClaimed ==
    ASSUME CliInv, UntouchedInv, Pristine, NEW i \in Lines, Rekey(i)
    PROVE  FailsAt(_split_byte_lines(file'), i, "content_tampered")
<1> DEFINE e == file.lines[i].event
           h == HashBehind(file.lines, i - 1)
           new == compute_current_hash(OtherKey, e)
           d == [e EXCEPT !.current_hash = new]
           link(k, c) == [key |-> k, sequence_number |-> i - 1, call |-> c]
<1>1. /\ i - 1 \in Nat /\ h \in Hash /\ e \in RawEvent /\ DOMAIN e = RequiredKeys
      /\ e.sequence_number = i - 1 /\ e.call \in Calls /\ e.previous_hash = h
  BY PristineLine
<1>2. Rewrite("rekey", i, "current_hash", Object(d))
  BY DEF Rekey
<1>3. e = [f \in RequiredKeys |-> e[f]]
  BY <1>1, RawEventFields
<1> HIDE DEF e, h
<1>4. new = Append(h, link(OtherKey, e.call))
  BY <1>1 DEF compute_current_hash
<1> HIDE DEF new
<1>5. /\ DOMAIN d = RequiredKeys /\ d.sequence_number = e.sequence_number
      /\ d.previous_hash = e.previous_hash /\ d.current_hash = new
  BY <1>3 DEF RequiredKeys
<1> HIDE DEF d
<1>6. Object(d).kind = "object" /\ Object(d).event = d
  BY DEF Object
<1>7. "content_tampered" = Complaint(Object(d), i - 1, h)
  BY <1>1, <1>5, <1>6 DEF Complaint
<1>8. ASSUME NEW c \in Calls, d = MakeEvent(Key, i - 1, c, h) PROVE FALSE
  <2>1. Append(h, link(OtherKey, e.call)) = Append(h, link(Key, c))
    BY <1>4, <1>5, <1>8 DEF MakeEvent, compute_current_hash
  <2>2. ~Ended(Append(h, link(OtherKey, e.call))) /\ Ended(Append(h, link(Key, c)))
    BY <1>1, EndedHash, EditedLogAssumption
  <2> QED
    BY <2>1, <2>2
<1> QED
  BY <1>2, <1>6, <1>7, <1>8, RewriteFails DEF h

LEMMA PermuteClaimed ==
    ASSUME CliInv, UntouchedInv, Pristine, NEW i \in Lines, NEW j \in Lines, Permute(i, j)
    PROVE  FailsAt(_split_byte_lines(file'), i, "chain_break")
<1> DEFINE e == file.lines[j].event
           h == HashBehind(file.lines, i - 1)
           seq == file.lines[i].event.sequence_number
           d == [e EXCEPT !.sequence_number = seq]
<1>1. /\ seq = i - 1 /\ e \in RawEvent /\ DOMAIN e = RequiredKeys /\ Len(h) = i - 1
      /\ e.previous_hash = HashBehind(file.lines, j - 1) /\ Len(e.previous_hash) = j - 1
  BY PristineLine
<1>2. i # j /\ i - 1 # j - 1 /\ Rewrite("permute", i, j, Object(d))
  BY PristineFile DEF Permute, Lines
<1>3. e.previous_hash # h
  BY <1>1, <1>2
<1>4. e = [f \in RequiredKeys |-> e[f]]
  BY <1>1, RawEventFields
<1> HIDE DEF e, seq
<1>5. /\ DOMAIN d = RequiredKeys /\ d.sequence_number = seq /\ d.previous_hash = e.previous_hash
  BY <1>4 DEF RequiredKeys
<1> HIDE DEF d, h
<1>6. "chain_break" = Complaint(Object(d), i - 1, h)
  BY <1>1, <1>3, <1>5 DEF Object, Complaint
<1> QED
  BY <1>2, <1>6, RewriteFails DEF h

LEMMA SpellingClaimed ==
    ASSUME CliInv, UntouchedInv, Pristine, NEW op, NEW i \in Lines, NEW what, NEW line,
           Rewrite(op, i, what, line), line.kind = "object", line.event = file.lines[i].event
    PROVE  WrittenBy(Key, _split_byte_lines(file'), Len(_split_byte_lines(file')))
<1> DEFINE parts == [file.lines EXCEPT ![i] = line]
           n == Len(file.lines)
<1>1. file' = [lines |-> parts, tail |-> file.tail]
  BY DEF Rewrite, Edit, CliInv, FileInv, GoodFile
<1>2. /\ file.tail = NoTail /\ file.lines \in Seq(RawLine) /\ n \in Nat /\ file.lines[i].kind = "object"
  BY PristineFile, PristineLine
<1>3. _split_byte_lines(file') = parts
  BY <1>1, <1>2 DEF _split_byte_lines
<1>4. Len(parts) = n /\ \A j \in 1..n : parts[j] = IF j = i THEN line ELSE file.lines[j]
  BY <1>2
<1> HIDE DEF parts
<1>5. SameLines(parts, file.lines, n)
  BY <1>2, <1>4 DEF SameLines
<1>6. WrittenBy(Key, parts, n)
  BY <1>2, <1>5, SameWritten DEF Pristine
<1> QED
  BY <1>3, <1>4, <1>6

\* The file got other lines.
LEMMA EditedParts ==
    ASSUME CliInv, UntouchedInv, Pristine, NEW op, NEW i, NEW what, NEW new,
           Edit(op, i, what, [lines |-> new, tail |-> file.tail])
    PROVE  _split_byte_lines(file') = new
<1>1. file' = [lines |-> new, tail |-> NoTail]
  BY PristineFile DEF Edit
<1> QED
  BY <1>1 DEF _split_byte_lines

\* A line that stands at another place than its number says.
LEMMA MisplacedLine ==
    ASSUME CliInv, Pristine, NEW m \in Lines, NEW line,
           line.kind = "object", line.event = file.lines[m].event, NEW n \in Nat, n # m - 1, NEW prev
    PROVE  Complaint(line, n, prev) = "sequence_gap"
<1>1. /\ DOMAIN file.lines[m].event = RequiredKeys
      /\ file.lines[m].event.sequence_number = m - 1
  BY PristineLine
<1> QED
  BY <1>1 DEF Complaint

LEMMA SwapClaimed ==
    ASSUME CliInv, UntouchedInv, Pristine, NEW i \in Lines, NEW j \in Lines, Swap(i, j)
    PROVE  FailsAt(_split_byte_lines(file'), i, "sequence_gap")
<1> DEFINE once == [file.lines EXCEPT ![i] = file.lines[j]]
           parts == [once EXCEPT ![j] = file.lines[i]]
<1>1. /\ file.lines \in Seq(RawLine) /\ Len(file.lines) \in Nat /\ i \in 1..Len(file.lines)
      /\ j \in 1..Len(file.lines) /\ i < j
  BY PristineFile DEF Lines, Swap
<1>2. Edit("swap", i, j, [lines |-> parts, tail |-> file.tail])
  <2>1. file = [lines |-> file.lines, tail |-> file.tail]
    BY DEF CliInv, FileInv, GoodFile
  <2> DEFINE first == [file EXCEPT !.lines[i] = file.lines[j]]
  <2>2. [file EXCEPT !.lines[i] = file.lines[j], !.lines[j] = file.lines[i]]
          = [first EXCEPT !.lines[j] = file.lines[i]]
    BY <2>1
  <2>3. first = [lines |-> once, tail |-> file.tail]
    BY <2>1
  <2> HIDE DEF first
  <2>4. [file EXCEPT !.lines[i] = file.lines[j], !.lines[j] = file.lines[i]]
          = [lines |-> parts, tail |-> file.tail]
    BY <2>2, <2>3
  <2> QED
    BY <2>4 DEF Swap
<1>3. /\ Len(parts) = Len(file.lines) /\ parts[i] = file.lines[j]
      /\ \A k \in 1..i - 1 : parts[k] = file.lines[k]
  BY <1>1
<1> HIDE DEF parts
<1>4. _split_byte_lines(file') = parts
  BY <1>2, EditedParts
<1>5. SameLines(parts, file.lines, i - 1) /\ i - 1 \in Nat /\ i - 1 # j - 1
  BY <1>1, <1>3 DEF SameLines
<1>6. parts[i].kind = "object" /\ parts[i].event = file.lines[j].event
  BY <1>3, PristineLine
<1>7. "sequence_gap" = Complaint(parts[i], i - 1, HashBehind(file.lines, i - 1))
  BY <1>5, <1>6, MisplacedLine
<1>8. Len(parts) \in Nat /\ i \in 1..Len(parts) /\ i - 1 <= Len(file.lines)
  BY <1>1, <1>3
<1>9. FailsAt(parts, i, "sequence_gap")
  BY <1>5, <1>7, <1>8, FailsThere
<1> QED
  BY <1>4, <1>9

LEMMA DeleteClaimed ==
    ASSUME CliInv, UntouchedInv, Pristine, NEW i \in Lines, Delete(i)
    PROVE  IF i = Len(genuine)
             THEN WrittenBy(Key, _split_byte_lines(file'), Len(_split_byte_lines(file')))
             ELSE FailsAt(_split_byte_lines(file'), i, "sequence_gap")
<1> DEFINE n == Len(file.lines)
           parts == [j \in 1..n - 1 |-> IF j < i THEN file.lines[j] ELSE file.lines[j + 1]]
<1>1. /\ n \in Nat /\ i \in 1..n /\ n = Len(genuine) /\ i - 1 \in Nat
      /\ \A j \in 1..n : file.lines[j] \in GoodLine(genuine)
  BY PristineFile, LinesTyped DEF Lines, CliInv
<1>2. Edit("delete", i, None, [lines |-> parts, tail |-> file.tail])
  BY FileExcept DEF Delete, CliInv
<1>3. Len(parts) = n - 1
  <2>1. n - 1 \in Nat /\ \A j \in 1..n - 1 : parts[j] \in GoodLine(genuine)
    BY <1>1
  <2> QED
    BY <2>1
<1>4. /\ \A j \in 1..i - 1 : parts[j] = file.lines[j]
      /\ i # n => i \in 1..n - 1 /\ parts[i] = file.lines[i + 1]
  BY <1>1
<1>5. _split_byte_lines(file') = parts
  <2> HIDE DEF parts
  <2> QED
    BY <1>2, EditedParts
<1> HIDE DEF parts
<1>6. SameLines(parts, file.lines, i - 1)
  BY <1>4 DEF SameLines
<1>7. CASE i = n
  <2>1. WrittenBy(Key, file.lines, i - 1)
    BY <1>1, FewerWritten DEF Pristine
  <2>2. WrittenBy(Key, parts, i - 1)
    BY <1>1, <1>6, <2>1, SameWritten
  <2> QED
    BY <1>1, <1>3, <1>5, <1>7, <2>2
<1>8. CASE i # n
  <2>1. i + 1 \in Lines /\ i + 1 - 1 # i - 1 /\ i - 1 <= n
    BY <1>1, <1>8 DEF Lines
  <2>2. "sequence_gap" = Complaint(parts[i], i - 1, HashBehind(file.lines, i - 1))
    <3>1. parts[i].kind = "object" /\ parts[i].event = file.lines[i + 1].event
      BY <1>4, <1>8, <2>1, PristineLine
    <3> QED
      BY <1>1, <2>1, <3>1, MisplacedLine
  <2>3. Len(parts) \in Nat /\ i \in 1..Len(parts)
    BY <1>1, <1>3, <1>4, <1>8
  <2>4. FailsAt(parts, i, "sequence_gap")
    BY <1>6, <2>1, <2>2, <2>3, FailsThere
  <2> QED
    BY <1>1, <1>5, <1>8, <2>4
<1> QED
  BY <1>7, <1>8

LEMMA InsertClaimed ==
    ASSUME CliInv, UntouchedInv, Pristine, NEW i \in 1..Len(file.lines) + 1, NEW m \in 1..Len(genuine),
           Insert(i, m)
    PROVE  FailsAt(_split_byte_lines(file'), IF i = m THEN i + 1 ELSE i, "sequence_gap")
<1> DEFINE n == Len(file.lines)
           e == genuine[m]
           parts == [k \in 1..n + 1 |->
                       IF k < i THEN file.lines[k] ELSE IF k = i THEN Object(e) ELSE file.lines[k - 1]]
<1>1. /\ n \in Nat /\ i \in 1..n + 1 /\ m \in 1..n /\ i - 1 \in Nat
      /\ file.lines[m].event = e /\ m \in Lines
  BY PristineFile DEF Lines
<1>2. Edit("insert", i, m, [lines |-> parts, tail |-> file.tail])
  BY FileExcept DEF Insert, CliInv
<1>3. Len(parts) = n + 1 /\ n + 1 \in Nat
  <2>1. parts \in Seq({parts[k] : k \in 1..n + 1}) /\ DOMAIN parts = 1..n + 1
    <3>1. n + 1 \in Nat /\ \A k \in 1..n + 1 : parts[k] \in {parts[j] : j \in 1..n + 1}
      BY <1>1
    <3> QED
      BY <3>1, IsASeq
  <2> QED
    BY <1>1, <2>1
<1>4. /\ \A k \in 1..i - 1 : parts[k] = file.lines[k]
      /\ parts[i] = Object(e)
      /\ i < n + 1 => parts[i + 1] = file.lines[i]
  BY <1>1
<1> HIDE DEF parts
<1>5. _split_byte_lines(file') = parts
  BY <1>2, EditedParts
<1>6. SameLines(parts, file.lines, i - 1)
  BY <1>4 DEF SameLines
<1>7. Object(e).kind = "object" /\ Object(e).event = file.lines[m].event
  BY <1>1 DEF Object
<1>8. CASE i # m
  <2>1. "sequence_gap" = Complaint(parts[i], i - 1, HashBehind(file.lines, i - 1))
    BY <1>1, <1>4, <1>7, <1>8, MisplacedLine
  <2>2. FailsAt(parts, i, "sequence_gap")
    BY <1>1, <1>3, <1>6, <2>1, FailsThere
  <2> QED
    BY <1>5, <1>8, <2>2
<1>9. CASE i = m
  <2>1. i \in Nat /\ i + 1 \in 1..n + 1 /\ i + 1 - 1 = i /\ i <= n /\ i # m - 1
    BY <1>1, <1>9
  <2>2. SameLines(parts, file.lines, i)
    <3> SUFFICES ASSUME NEW k \in 1..i
                 PROVE  parts[k].kind = file.lines[k].kind /\ parts[k].event = file.lines[k].event
      BY DEF SameLines
    <3>1. CASE k = i
      BY <1>1, <1>4, <1>7, <1>9, <3>1, PristineLine
    <3>2. CASE k \in 1..i - 1
      BY <1>4, <3>2
    <3> QED
      BY <2>1, <3>1, <3>2
  <2>3. parts[i + 1].kind = "object" /\ parts[i + 1].event = file.lines[m].event
    <3>1. file.lines[m].kind = "object"
      BY <1>1, PristineLine
    <3>2. parts[i + 1] = file.lines[m]
      BY <1>1, <1>4, <1>9, <2>1
    <3> QED
      BY <3>1, <3>2
  <2>4. "sequence_gap" = Complaint(parts[i + 1], i, HashBehind(file.lines, i))
    BY <1>1, <2>1, <2>3, MisplacedLine
  <2>5. PICK l \in 1..Len(parts) : l = i + 1 /\ l - 1 = i
    BY <1>3, <2>1
  <2>6. FailsAt(parts, l, "sequence_gap")
    BY <1>3, <2>1, <2>2, <2>4, <2>5, FailsThere
  <2> QED
    BY <1>5, <1>9, <2>5, <2>6
<1> QED
  BY <1>8, <1>9

\* The bytes verify() splits are the same lines without the last newline.
LEMMA CutClaimed ==
    ASSUME CliInv, UntouchedInv, Pristine, CutNewline
    PROVE  WrittenBy(Key, _split_byte_lines(file'), Len(_split_byte_lines(file')))
<1> DEFINE n == Len(file.lines)
           rest == SubSeq(file.lines, 1, n - 1)
<1>1. /\ file.lines \in Seq(RawLine) /\ n \in Nat /\ file.lines # << >>
      /\ file' = [lines |-> rest, tail |-> file.lines[n]]
  BY PristineFile DEF CutNewline, Edit
<1>2. n \in Lines /\ n \in 1..n
  BY <1>1, EmptySeq DEF Lines
<1>3. CASE file.lines[n] # NoTail
  <2>1. _split_byte_lines(file') = Append(rest, file.lines[n])
    BY <1>1, <1>3 DEF _split_byte_lines
  <2>2. Append(rest, file.lines[n]) = file.lines
    BY <1>1, <1>2
  <2> QED
    BY <2>1, <2>2 DEF Pristine
<1>4. CASE file.lines[n] = NoTail
  <2>1. _split_byte_lines(file') = rest
    BY <1>1, <1>4 DEF _split_byte_lines
  <2>2. Len(rest) = n - 1 /\ \A j \in 1..n - 1 : rest[j] = file.lines[j]
    BY <1>1, <1>2
  <2> HIDE DEF rest
  <2>3. SameLines(rest, file.lines, n - 1) /\ n - 1 \in Nat /\ n - 1 \in 0..n
    BY <1>1, <1>2, <2>2 DEF SameLines
  <2> QED
    BY <1>1, <2>1, <2>2, <2>3, SameWritten, FewerWritten DEF Pristine
<1> QED
  BY <1>3, <1>4

\* The first change is what is claimed of it; of what follows nothing is claimed.
LEMMA FirstEdit ==
    ASSUME FileInv, SingleInv, NEW op, NEW i, NEW what, Done(op, i, what), genuine' = genuine,
           edits = 0 => Claim([op |-> op, line |-> i, what |-> what, written |-> Len(genuine)],
                              _split_byte_lines(file'), Len(genuine))
    PROVE  SingleInv'
<1>1. edits \in Nat /\ edits' = edits + 1 /\ Len(genuine) \in Nat
  BY LenProperties DEF SingleInv, Done, FileInv, GenuineInv
<1>2. CASE edits = 0
  <2>1. /\ edits' = 1
        /\ edit' = [op |-> op, line |-> i, what |-> what, written |-> Len(genuine)]
    BY <1>2 DEF Done
  <2>2. edit'.written = Len(genuine)
    BY <2>1
  <2>3. Claim(edit', _split_byte_lines(file'), Len(genuine'))
    BY <1>2, <2>1
  <2> QED
    BY <1>1, <2>1, <2>2, <2>3 DEF SingleInv
<1>3. CASE edits # 0
  BY <1>1, <1>3 DEF SingleInv
<1> QED
  BY <1>2, <1>3

LEMMA SingleInvLines ==
    ASSUME CliInv, UntouchedInv, SingleInv, NEW i \in Lines,
           \/ \E field \in RequiredKeys : \E value \in Values(field) : ChangeField(i, field, value)
           \/ \E field \in RequiredKeys : DropField(i, field)
           \/ AddField(i) \/ Rekey(i) \/ Respell(i) \/ Reload(i)
           \/ \E kind \in Unreadable : Garble(i, kind)
    PROVE  SingleInv'
<1> DEFINE parts == _split_byte_lines(file')
           n == Len(genuine)
           Made(op, what) == [op |-> op, line |-> i, what |-> what, written |-> n]
<1>1. FileInv /\ (edits = 0 => Pristine)
  BY DEF CliInv, SingleInv
<1>2. ASSUME NEW op, NEW what, NEW line, Rewrite(op, i, what, line),
             edits = 0 => Claim(Made(op, what), parts, n)
      PROVE  SingleInv'
  <2>1. Done(op, i, what) /\ genuine' = genuine
    BY <1>2 DEF Rewrite, Edit
  <2> QED
    BY <1>1, <1>2, <2>1, FirstEdit
<1>3. ASSUME NEW field \in RequiredKeys, NEW value \in Values(field), ChangeField(i, field, value)
      PROVE  SingleInv'
  <2>1. ASSUME edits = 0 PROVE Claim(Made("change", field), parts, n)
    <3>1. FailsAt(parts, i, CASE field = "sequence_number" -> "sequence_gap"
                              [] field = "previous_hash"   -> "chain_break"
                              [] OTHER                     -> "content_tampered")
      BY <1>1, <1>3, <2>1, ChangeClaimed
    <3> HIDE DEF parts
    <3> QED
      BY <3>1 DEF Claim, Ops
  <2> QED
    BY <1>2, <1>3, <2>1 DEF ChangeField
<1>4. ASSUME NEW field \in RequiredKeys, DropField(i, field) PROVE SingleInv'
  <2>1. edits = 0 => FailsAt(parts, i, "missing_field")
    BY <1>1, <1>4, DropClaimed
  <2>2. edits = 0 => Claim(Made("drop", field), parts, n)
    BY <2>1 DEF Claim, Ops
  <2> QED
    BY <1>2, <1>4, <2>2 DEF DropField
<1>5. CASE AddField(i)
  <2>1. edits = 0 => FailsAt(parts, i, "unexpected_field")
    BY <1>1, <1>5, AddClaimed
  <2>2. edits = 0 => Claim(Made("add", "extra"), parts, n)
    BY <2>1 DEF Claim, Ops
  <2> QED
    BY <1>2, <1>5, <2>2 DEF AddField
<1>6. CASE Rekey(i)
  <2>1. edits = 0 => FailsAt(parts, i, "content_tampered")
    BY <1>1, <1>6, RekeyClaimed
  <2>2. edits = 0 => Claim(Made("rekey", "current_hash"), parts, n)
    BY <2>1 DEF Claim, Ops
  <2> QED
    BY <1>2, <1>6, <2>2 DEF Rekey
<1>7. CASE Respell(i)
  <2>1. /\ Respelled(file.lines[i]).kind = "object"
        /\ Respelled(file.lines[i]).event = file.lines[i].event
        /\ Rewrite("respell", i, None, Respelled(file.lines[i]))
    BY <1>1, <1>7, LineAt, RespelledGood DEF Respell
  <2>2. edits = 0 => WrittenBy(Key, parts, Len(parts))
    BY <1>1, <2>1, SpellingClaimed
  <2>3. edits = 0 => Claim(Made("respell", None), parts, n)
    BY <2>2 DEF Claim, Ops
  <2> QED
    BY <1>2, <2>1, <2>3
<1>8. CASE Reload(i)
  <2>1. to_dict(from_dict(file.lines[i].event)) = file.lines[i].event
    BY <1>1, <1>8, LineAt, Reloaded DEF Reload
  <2>2. Rewrite("reload", i, None, Object(file.lines[i].event))
    BY <1>8, <2>1 DEF Reload
  <2>3. edits = 0 => WrittenBy(Key, parts, Len(parts))
    BY <1>1, <2>2, SpellingClaimed DEF Object
  <2>4. edits = 0 => Claim(Made("reload", None), parts, n)
    BY <2>3 DEF Claim, Ops
  <2> QED
    BY <1>2, <2>2, <2>4
<1>9. ASSUME NEW kind \in Unreadable, Garble(i, kind) PROVE SingleInv'
  <2>1. edits = 0 => FailsAt(parts, i, "parse_error") /\ parts[i].kind = kind
    BY <1>1, <1>9, GarbleClaimed
  <2>2. edits = 0 => Claim(Made("garble", kind), parts, n)
    BY <2>1 DEF Claim, Ops
  <2> QED
    BY <1>2, <1>9, <2>2 DEF Garble
<1> QED
  BY <1>3, <1>4, <1>5, <1>6, <1>7, <1>8, <1>9

LEMMA SingleInvPlaces ==
    ASSUME CliInv, UntouchedInv, SingleInv,
           \/ \E i \in Lines : Delete(i)
           \/ \E i, j \in Lines : Swap(i, j) \/ Permute(i, j)
           \/ \E i \in 1..Len(file.lines) + 1, m \in 1..Len(genuine) : Insert(i, m)
           \/ CutNewline
    PROVE  SingleInv'
<1> DEFINE parts == _split_byte_lines(file')
           n == Len(genuine)
           Made(op, i, what) == [op |-> op, line |-> i, what |-> what, written |-> n]
<1>1. FileInv /\ (edits = 0 => Pristine)
  BY DEF CliInv, SingleInv
<1>2. ASSUME NEW op, NEW i, NEW what, NEW new, Edit(op, i, what, new),
             edits = 0 => Claim(Made(op, i, what), parts, n)
      PROVE  SingleInv'
  <2>1. Done(op, i, what) /\ genuine' = genuine
    BY <1>2 DEF Edit
  <2> QED
    BY <1>1, <1>2, <2>1, FirstEdit
<1>3. ASSUME NEW i \in Lines, Delete(i) PROVE SingleInv'
  <2>1. edits = 0 => IF i = n THEN WrittenBy(Key, parts, Len(parts))
                              ELSE FailsAt(parts, i, "sequence_gap")
    BY <1>1, <1>3, DeleteClaimed
  <2>2. edits = 0 => Claim(Made("delete", i, None), parts, n)
    BY <2>1 DEF Claim, Ops
  <2> QED
    BY <1>2, <1>3, <2>2 DEF Delete
<1>4. ASSUME NEW i \in Lines, NEW j \in Lines, Swap(i, j) PROVE SingleInv'
  <2>1. edits = 0 => FailsAt(parts, i, "sequence_gap")
    BY <1>1, <1>4, SwapClaimed
  <2>2. edits = 0 => Claim(Made("swap", i, j), parts, n)
    BY <2>1 DEF Claim, Ops
  <2> QED
    BY <1>2, <1>4, <2>2 DEF Swap
<1>5. ASSUME NEW i \in Lines, NEW j \in Lines, Permute(i, j) PROVE SingleInv'
  <2>1. edits = 0 => FailsAt(parts, i, "chain_break")
    BY <1>1, <1>5, PermuteClaimed
  <2>2. edits = 0 => Claim(Made("permute", i, j), parts, n)
    BY <2>1 DEF Claim, Ops
  <2> QED
    BY <1>2, <1>5, <2>2 DEF Permute, Rewrite
<1>6. ASSUME NEW i \in 1..Len(file.lines) + 1, NEW m \in 1..Len(genuine), Insert(i, m) PROVE SingleInv'
  <2>1. edits = 0 => FailsAt(parts, IF i = m THEN i + 1 ELSE i, "sequence_gap")
    BY <1>1, <1>6, InsertClaimed
  <2>2. edits = 0 => Claim(Made("insert", i, m), parts, n)
    BY <2>1 DEF Claim, Ops
  <2> QED
    BY <1>2, <1>6, <2>2 DEF Insert
<1>7. CASE CutNewline
  <2>1. edits = 0 => WrittenBy(Key, parts, Len(parts))
    BY <1>1, <1>7, CutClaimed
  <2>2. edits = 0 => Claim(Made("cut", Len(file.lines), None), parts, n)
    BY <2>1 DEF Claim, Ops
  <2> QED
    BY <1>2, <1>7, <2>2 DEF CutNewline
<1> QED
  BY <1>3, <1>4, <1>5, <1>6, <1>7

\* What leaves the lines as they are, or no lines at all.
LEMMA SingleInvFile ==
    ASSUME CliInv, UntouchedInv, SingleInv, NEW op \in {"second", "rotate", "remove", "access"},
           NEW i, NEW what, Done(op, i, what), genuine' = genuine, file' \in {file, EmptyFile}
    PROVE  SingleInv'
<1> DEFINE parts == _split_byte_lines(file')
<1>1. ASSUME edits = 0 PROVE WrittenBy(Key, parts, Len(parts))
  <2>1. Pristine
    BY <1>1 DEF SingleInv
  <2>2. CASE file' = file
    BY <2>1, <2>2, PristineFile DEF Pristine
  <2>3. CASE file' = EmptyFile
    <3>1. parts = << >> /\ Len(parts) = 0
      BY <2>3, EmptySeq DEF EmptyFile, _split_byte_lines
    <3> QED
      BY <3>1, NoneWritten
  <2> QED
    BY <2>2, <2>3
<1>2. edits = 0 => Claim([op |-> op, line |-> i, what |-> what, written |-> Len(genuine)],
                         parts, Len(genuine))
  BY <1>1 DEF Claim, Ops
<1> QED
  BY <1>2, FirstEdit DEF CliInv

LEMMA SingleInvEdit ==
    ASSUME CliInv, UntouchedInv, SingleInv, EditNext
    PROVE  SingleInv'
<1>1. CASE Second
  BY <1>1, SingleInvFile DEF Second
<1>2. CASE Remove
  BY <1>2, SingleInvFile DEF Remove
<1>3. ASSUME NEW to, ChangeAccess(to) PROVE SingleInv'
  BY <1>3, SingleInvFile DEF ChangeAccess
<1> QED
  BY <1>1, <1>2, <1>3, SingleInvLines, SingleInvPlaces DEF EditNext

LEMMA SingleInvConstruct ==
    ASSUME CliInv, UntouchedInv, SingleInv, NEW explicit, NEW env, Construct(explicit, env)
    PROVE  SingleInv'
<1> DEFINE k == resolve_key(explicit, env)
<1>1. UNCHANGED << file, other, genuine >>
  BY DEF Construct
<1>2. CASE k \in Keys \ {Key}
  BY <1>1, <1>2, SingleInvFile DEF Construct
<1>3. CASE k \notin Keys \ {Key}
  <2>1. UNCHANGED << edits, ops, edit >>
    BY <1>3 DEF Construct, changes
  <2>2. ASSUME Pristine PROVE Pristine'
    <3>1. CASE Opened(k).raised = "none"
      <4>1. k \in Keys
        BY <3>1, InstanceGood DEF resolve_key, CliInv
      <4>2. Accepted
        BY <2>2, PristineFile DEF Accepted, Pristine
      <4>3. opened_on' = "verified"
        BY <1>3, <3>1, <4>1, <4>2 DEF Construct
      <4> QED
        BY <1>1, <2>1, <2>2, <4>3 DEF Pristine
    <3>2. CASE Opened(k).raised # "none"
      <4>1. writer' = None
        BY <3>2 DEF Construct
      <4> QED
        BY <1>1, <2>1, <2>2, <4>1 DEF Pristine
    <3> QED
      BY <3>1, <3>2
  <2> QED
    BY <1>1, <2>1, <2>2 DEF SingleInv
<1> QED
  BY <1>2, <1>3

LEMMA SingleInvRecord ==
    ASSUME CliInv, UntouchedInv, SingleInv, OpenedInv', NEW c \in Calls, Record(c) \/ RecordOther(c)
    PROVE  SingleInv'
<1>1. PICK w \in {writer, other} : AppendEvent(w, c)
  BY DEF Record, RecordOther
<1>2. UNCHANGED << edits, ops, edit >> /\ genuine' = Append(genuine, NextEvent(w, c))
  BY <1>1 DEF AppendEvent, changes
<1>3. Len(genuine) \in Nat /\ Len(genuine') = Len(genuine) + 1
  <2>1. w \in Writers(genuine)
    BY <1>1 DEF AppendEvent, CliInv, FileInv
  <2>2. NextEvent(w, c) \in AuditEvent
    BY <2>1, NextEventMade DEF Writers
  <2> QED
    BY <1>2, <2>2, Grown DEF CliInv, FileInv, GenuineInv
<1>4. ASSUME Pristine PROVE Pristine'
  <2>1. Record(c) /\ writer # None
    BY <1>4 DEF Pristine, Record, RecordOther, AppendEvent
  <2>2. opened_on' = "verified" /\ other' = other
    BY <1>4, <2>1 DEF Pristine, Record
  <2> QED
    BY <1>2, <1>4, <2>2 DEF Pristine, OpenedInv
<1> QED
  BY <1>2, <1>3, <1>4 DEF SingleInv

LEMMA SingleInvNext ==
    CliInv /\ UntouchedInv /\ SingleInv /\ OpenedInv' /\ [CliNext]_<< vars, cli >> => SingleInv'
<1> SUFFICES ASSUME CliInv, UntouchedInv, SingleInv, OpenedInv', [CliNext]_<< vars, cli >>
             PROVE  SingleInv'
  OBVIOUS
<1>1. CASE UNCHANGED << file, writer, other, genuine, edits, ops, edit, opened_on >>
  BY <1>1 DEF SingleInv, Pristine
<1>2. CASE WriterNext
  BY <1>2, SingleInvConstruct, SingleInvRecord, SingleInvEdit DEF WriterNext
<1>3. CASE ~WriterNext
  <2>1. ASSUME NEW explicit, NEW env, ReaderNext(explicit, env)
        PROVE  UNCHANGED << file, writer, other, genuine, edits, ops, edit, opened_on >>
    BY <2>1, LoopStep DEF ReaderNext, MissingKey, LogUnavailable, VerifyStart, Raise, disk, changes
  <2> QED
    BY <1>1, <1>3, <2>1 DEF CliNext, Run, Verifying, UsageError, Verdict, Failed, Exit, vars, disk,
                            changes
<1> QED
  BY <1>2, <1>3

LEMMA SingleInvInit == CliInit => SingleInv
<1> SUFFICES ASSUME CliInit PROVE SingleInv
  OBVIOUS
<1>1. file.lines = << >> /\ edits = 0 /\ ops = {} /\ writer = None /\ other = None
  BY DEF CliInit, Init, EmptyFile
<1>2. Len(file.lines) = 0
  BY <1>1, EmptySeq
<1> QED
  BY <1>1, <1>2, NoneWritten DEF SingleInv, Pristine

\* Where verify() stops.
LEMMA FailsAtVerdict ==
    ASSUME VerifyInv, stage = "returned", key = Key, NEW kind, NEW line, FailsAt(byte_lines, line, kind)
    PROVE  ~result.ok /\ result.failure.kind = kind /\ result.failure.line = line
<1>1. /\ idx \in Nat /\ idx <= Len(byte_lines) /\ Len(byte_lines) \in Nat
      /\ WrittenBy(Key, byte_lines, idx)
      /\ VerdictFits(Key, byte_lines, idx, result)
  BY LenProperties DEF VerifyInv, LoopInv
<1>2. /\ line \in 1..Len(byte_lines) /\ line - 1 \in Nat
      /\ WrittenBy(Key, byte_lines, line - 1) /\ ~WrittenBy(Key, byte_lines, line)
      /\ Complaint(byte_lines[line], line - 1, HashBehind(byte_lines, line - 1)) = kind
  BY <1>1 DEF FailsAt
<1>3. idx <= line - 1
  <2> SUFFICES ASSUME ~(idx <= line - 1) PROVE FALSE
    OBVIOUS
  <2>1. line \in 0..idx
    BY <1>1, <1>2
  <2> QED
    BY <1>1, <1>2, <2>1, FewerWritten
<1>4. ~result.ok
  BY <1>1, <1>2, <1>3 DEF VerdictFits
<1>5. idx = line - 1
  <2> SUFFICES ASSUME idx < line - 1 PROVE FALSE
    BY <1>1, <1>2, <1>3
  <2>1. idx + 1 \in 0..line - 1 /\ ~WrittenBy(Key, byte_lines, idx + 1)
    BY <1>1, <1>2, <1>4 DEF VerdictFits
  <2> QED
    BY <1>2, <2>1, FewerWritten
<1>6. idx + 1 = line
  BY <1>2, <1>5
<1> QED
  BY <1>1, <1>2, <1>4, <1>5, <1>6 DEF VerdictFits

LEMMA FineVerdict ==
    ASSUME VerifyInv, stage = "returned", key = Key, WrittenBy(Key, byte_lines, Len(byte_lines))
    PROVE  result.ok
<1>1. /\ idx \in Nat /\ idx <= Len(byte_lines) /\ Len(byte_lines) \in Nat
      /\ VerdictFits(Key, byte_lines, idx, result)
  BY LenProperties DEF VerifyInv, LoopInv
<1> SUFFICES ASSUME ~result.ok PROVE FALSE
  OBVIOUS
<1>2. idx + 1 \in 0..Len(byte_lines) /\ ~WrittenBy(Key, byte_lines, idx + 1)
  BY <1>1 DEF VerdictFits
<1> QED
  BY <1>1, <1>2, FewerWritten

\* With a key verify() only raises on a number too long for json.loads.
RaisedInv ==
    stage = "raised" /\ key # None => raised = "ValueError" /\ raw.kind = "huge_int"

LEMMA RaisedInvNext == CliInv /\ RaisedInv /\ [CliNext]_<< vars, cli >> => RaisedInv'
<1> SUFFICES ASSUME CliInv, RaisedInv, [CliNext]_<< vars, cli >> PROVE RaisedInv'
  OBVIOUS
<1>1. CASE UNCHANGED verifier
  BY <1>1 DEF RaisedInv, verifier, raw
<1>2. ASSUME NEW explicit, NEW env, ReaderNext(explicit, env) PROVE RaisedInv'
  <2>1. CASE MissingKey(explicit, env) \/ LogUnavailable(explicit, env)
    <3>1. key' = None
      BY <2>1 DEF MissingKey, LogUnavailable, Raise, CliInv, VerifyInv, LoopInv
    <3> QED
      BY <3>1 DEF RaisedInv
  <2>2. CASE LoadsRaises
    BY <2>2 DEF LoadsRaises, Raise, AtLine, RaisedInv, raw
  <2>3. CASE stage' # "raised"
    BY <2>3 DEF RaisedInv
  <2> QED
    BY <1>2, <2>1, <2>2, <2>3 DEF ReaderNext, VerifyStart, VerifyNext, ParseError, UnexpectedField,
       MissingField, SequenceGap, ChainBreak, ContentTampered, LinePasses, AllPassed, Fail, AtLine,
       AtObject, AtEvent, AtSequence, AtLink
<1>3. CASE WriterNext /\ UNCHANGED cli
  <2>1. UNCHANGED verifier
    BY <1>3, EditKinds DEF WriterNext, Construct, Record, RecordOther, AppendEvent, Second, Remove,
                           ChangeAccess
  <2> QED
    BY <1>1, <2>1
<1> QED
  BY <1>1, <1>2, <1>3 DEF CliNext, Run, Verifying, UsageError, Verdict, Failed, Exit, vars

\* On a file whose first bad line is another kind of line, or that has none,
\* verify() returns.
LEMMA OnlyHugeIntRaises ==
    ASSUME CliInv, RaisedInv, key = Key, stage = "raised"
    PROVE  /\ ~WrittenBy(Key, byte_lines, Len(byte_lines))
           /\ \A line, kind : FailsAt(byte_lines, line, kind) =>
                kind = "parse_error" /\ byte_lines[line].kind = "huge_int"
<1>1. Key \in Keys /\ Key # None
  BY EditedLogAssumption, ResolveKeyAssumption
<1>2. /\ idx \in Nat /\ Len(byte_lines) \in Nat /\ idx < Len(byte_lines)
      /\ WrittenBy(Key, byte_lines, idx) /\ ~WrittenBy(Key, byte_lines, idx + 1)
      /\ byte_lines[idx + 1].kind = "huge_int"
  BY <1>1, LenProperties DEF CliInv, VerifyInv, LoopInv, RaisedInv, raw
<1>3. ASSUME NEW line, NEW kind, FailsAt(byte_lines, line, kind)
      PROVE  kind = "parse_error" /\ byte_lines[line].kind = "huge_int"
  <2>1. /\ line \in 1..Len(byte_lines) /\ line - 1 \in Nat
        /\ WrittenBy(Key, byte_lines, line - 1) /\ ~WrittenBy(Key, byte_lines, line)
        /\ Complaint(byte_lines[line], line - 1, HashBehind(byte_lines, line - 1)) = kind
    BY <1>2, <1>3 DEF FailsAt
  <2>2. ~(line <= idx)
    <3> SUFFICES ASSUME line <= idx PROVE FALSE
      OBVIOUS
    <3>1. line \in 0..idx
      BY <2>1
    <3> QED
      BY <1>2, <2>1, <3>1, FewerWritten
  <2>3. ~(idx + 1 < line)
    <3> SUFFICES ASSUME idx + 1 < line PROVE FALSE
      OBVIOUS
    <3>1. idx + 1 \in 0..line - 1
      BY <1>2, <2>1
    <3> QED
      BY <1>2, <2>1, <3>1, FewerWritten
  <2>4. line = idx + 1
    BY <1>2, <2>1, <2>2, <2>3
  <2> QED
    BY <1>2, <2>1, <2>4 DEF Complaint, Unreadable
<1>4. ~WrittenBy(Key, byte_lines, Len(byte_lines))
  <2>1. idx + 1 \in 0..Len(byte_lines)
    BY <1>2
  <2> QED
    BY <1>2, <2>1, FewerWritten
<1> QED
  BY <1>3, <1>4

\* One change of the tables of HONEST-CLAIMS.md is reported at its line as the
\* kind the table names (the checks of verify.py in their order), and never by
\* an exception: for logs of any length.
THEOREM OneEditIsAlwaysAsClaimed == CliSpec => []OneEditAsClaimed
<1>1. CliInit => OpenedInv /\ RaisedInv
  BY DEF CliInit, Init, OpenedInv, VerifyInit, RaisedInv
<1>2. CliInv /\ SingleInv /\ RaisedInv => OneEditAsClaimed
  <2> SUFFICES ASSUME CliInv, SingleInv, RaisedInv, stage \in {"returned", "raised"}, key = Key,
                      edits = 1, Claimed(edit), edit.written = Len(genuine)
               PROVE  stage = "returned" /\ ClaimedVerdict
    BY DEF OneEditAsClaimed
  <2> DEFINE op == edit.op
  <2>1. /\ VerifyInv
        /\ stage = "returned" \/ raised = "ValueError" => byte_lines = _split_byte_lines(file)
    BY DEF CliInv, ReadInv
  <2>r. stage = "raised" => raised = "ValueError"
    <3>1. key # None
      BY EditedLogAssumption, ResolveKeyAssumption
    <3> QED
      BY <3>1 DEF RaisedInv
  <2>2. Claim(edit, byte_lines, Len(genuine))
    BY <2>1, <2>r DEF SingleInv
  <2>o. op \in {"change", "drop", "add", "garble", "rekey", "swap", "permute", "insert", "delete"}
        /\ ~(op = "garble" /\ edit.what = "huge_int")
    BY DEF Claimed
  <2>s. stage = "returned"
    <3> SUFFICES ASSUME stage = "raised" PROVE FALSE
      OBVIOUS
    <3>1. /\ ~WrittenBy(Key, byte_lines, Len(byte_lines))
          /\ \A line, kind : FailsAt(byte_lines, line, kind) =>
               kind = "parse_error" /\ byte_lines[line].kind = "huge_int"
      BY OnlyHugeIntRaises
    <3>2. CASE op = "garble"
      BY <2>2, <2>o, <3>1, <3>2 DEF Claim
    <3>3. CASE op = "delete"
      BY <2>2, <3>1, <3>3 DEF Claim
    <3>4. CASE op = "insert"
      BY <2>2, <3>1, <3>4 DEF Claim
    <3>5. CASE op = "change"
      BY <2>2, <3>1, <3>5 DEF Claim
    <3>6. CASE op \in {"add", "drop", "rekey", "swap", "permute"}
      <4>1. \E kind, line : FailsAt(byte_lines, line, kind) /\ kind # "parse_error"
        <5>1. CASE op = "add"
          BY <2>2, <5>1 DEF Claim
        <5>2. CASE op = "drop"
          BY <2>2, <5>2 DEF Claim
        <5>3. CASE op = "rekey"
          BY <2>2, <5>3 DEF Claim
        <5>4. CASE op = "swap"
          BY <2>2, <5>4 DEF Claim
        <5>5. CASE op = "permute"
          BY <2>2, <5>5 DEF Claim
        <5> QED
          BY <3>6, <5>1, <5>2, <5>3, <5>4, <5>5
      <4> QED
        BY <3>1, <4>1
    <3> QED
      BY <2>o, <3>2, <3>3, <3>4, <3>5, <3>6
  <2>3. \A kind, line : FailsAt(byte_lines, line, kind) =>
          ~result.ok /\ result.failure.kind = kind /\ result.failure.line = line
    BY <2>1, <2>s, FailsAtVerdict
  <2>4. WrittenBy(Key, byte_lines, Len(byte_lines)) => result.ok
    BY <2>1, <2>s, FineVerdict
  <2>5. CASE op \in {"add", "drop", "garble", "rekey", "swap", "permute"}
    BY <2>2, <2>3, <2>5, <2>s DEF Claim, ClaimedVerdict
  <2>6. CASE op = "delete"
    BY <2>2, <2>3, <2>4, <2>6, <2>s DEF Claim, ClaimedVerdict
  <2>7. CASE op = "insert"
    BY <2>2, <2>3, <2>7, <2>s DEF Claim, ClaimedVerdict
  <2>8. CASE op = "change"
    BY <2>2, <2>3, <2>8, <2>s DEF Claim, ClaimedVerdict
  <2> QED
    BY <2>o, <2>5, <2>6, <2>7, <2>8
<1> QED
  BY <1>1, <1>2, CliInvAlways, CliInvNext, UntouchedInvInit, UntouchedInvNext, OpenedInvNext,
     SingleInvInit, SingleInvNext, RaisedInvNext, PTL DEF CliSpec
=============================================================================
