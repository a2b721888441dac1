--------------------------- MODULE AuditLogClaims ---------------------------
(***************************************************************************)
(* What the documentation, docstrings and tests say of record() and        *)
(* close(), and the code does not do.  TLC finds each of these violated;   *)
(* the README explains every counterexample.                               *)
(***************************************************************************)
EXTENDS AuditLog

\* USAGE.md:139: "a successful record() is durable".  The event a record()
\* returned is readable in the file, even with fsync on.
SuccessIsDurable ==
    \A c \in Calls : outcome[c] = "ok" => LinesOf(c) # {}

\* audit.py:231: record() raises WriteError "when the instance is closed".
ClosedRaisesWriteError ==
    \A c \in Calls : outcome[c] # "value_error"

\* audit.py:339: close() is "Idempotent".  Its flush(), whose ValueError
\* nothing suppresses, is not called on a closed handle.
CloseIsIdempotent ==
    \A t \in Threads : pc[t] = "c_flush" => fh_open
=============================================================================
