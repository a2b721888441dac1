----------------------------- MODULE MCExamples ------------------------------
(* The scripts of examples/ for TLC. *)
EXTENDS Examples

LOCAL INSTANCE SequencesExt

CONSTANTS main_thread, a, b, c, d, e, f, g, h

Request(handler, tool, header) ==
    [handler |-> handler, tool |-> tool, arguments |-> "encodable",
     declared |-> "claude-desktop", principal |-> None, header |-> header]

Read   == Request("read_note", None, None)
Delete == Request("delete_note", None, None)

Pair   == << Request("_record_pair", "read_note", None),
             Request("_record_pair", "delete_note", None) >>

note_server     == << << Read, Delete >> >>
audit_singleton == << Pair, Pair >>
bearer_auth     == << << Request("with_bearer_auth", None, None),
                         Request("with_bearer_auth", None, "valid"),
                         Request("with_bearer_auth", None, "forged") >> >>
fastmcp         == << << Request("audit_dispatch", "read_note", None),
                         Request("audit_dispatch", "delete_note", None),
                         Request("audit_dispatch", "read_note", None),
                         Request("audit_dispatch", "read_note", None) >> >>

MCScripts == {note_server, audit_singleton, bearer_auth, fastmcp}

MCRequests == UNION {ToSet(requests) : requests \in UNION {ToSet(s) : s \in MCScripts}}

MCArguments == {Recorded(r) : r \in MCRequests}
=============================================================================
