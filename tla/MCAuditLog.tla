----------------------------- MODULE MCAuditLog -----------------------------
(* Small instances of AuditLog, of its refinement and of its claims. *)
EXTENDS AuditLogRefinement, AuditLogClaims, TLC

CONSTANTS t1, t2, a, b, c

\* Good arguments, and arguments the last check refuses.
Good == [tool_name |-> "read_note", decision |-> "allow", arguments |-> "encodable",
         declared_identity |-> "client", authenticated_identity |-> None,
         identity |-> None, reason |-> ""]
GoodAndBad == {Good, [Good EXCEPT !.arguments = "not_encodable"]}

\* Threads differ in nothing, calls in the size of their line only.
Symmetry == Permutations(Threads) \cup Permutations(Calls \ BigCalls)
=============================================================================
