------------------------- MODULE AuditLogRefinement -------------------------
(***************************************************************************)
(* AuditLog implements AtomicLog: appends take effect atomically and in    *)
(* one order, although threads, close(), buffers, crashes and operators    *)
(* interleave below.  It holds for an integrator that stops appending once *)
(* an append has failed (USAGE.md names what to do with the request then,  *)
(* not with the instance); AuditLog's ChainIntact says what else breaks.   *)
(***************************************************************************)
EXTENDS AuditLog

logBar == [i \in 1..Len(lines) |-> EventOf(lines[i]).call]

statusBar ==
    [c \in Calls |->
        CASE outcome[c] \in {"unused", "running", "ok"} -> outcome[c]
          [] outcome[c] = "refused" -> "refused"
          [] outcome[c] \in {"write_error", "value_error", "interrupted", "lost"} -> "failed"]

Abstract == INSTANCE AtomicLog WITH log <- logBar, status <- statusBar

\* What the writer does is what the atomic log does, until an instance appends
\* behind a failed append: it starts as the atomic log does, and every step
\* before that is one step of the atomic log or none.
AtomicAppends ==
    /\ Abstract!Init
    /\ [][~spoiled' => Abstract!Next \/ UNCHANGED << logBar, statusBar >>]_vars

\* No thread appends after a failed append in the same instance.
StopsOnError == Init /\ [][Next /\ ~spoiled']_vars
=============================================================================
