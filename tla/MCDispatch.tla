----------------------------- MODULE MCDispatch ------------------------------
(* A small instance of Dispatch. *)
EXTENDS Dispatch, TLC

CONSTANTS t1, t2, a, b

Dispatched(tool, arguments, principal) ==
    [handler |-> "audit_dispatch", tool |-> tool, arguments |-> arguments,
     declared |-> "client", principal |-> principal, header |-> None]

Bearer(header) ==
    [handler |-> "with_bearer_auth", tool |-> None, arguments |-> None,
     declared |-> "client", principal |-> None, header |-> header]

\* Tools that are allowed and denied, arguments record() refuses, and a caller
\* that only records.  read_note() is a dispatched tool that does not raise.
AllKinds ==
    {Dispatched("read_note", "encodable", None),
     Dispatched("delete_note", "encodable", "alice"),
     Dispatched("read_note", "not_encodable", None),
     Bearer("valid")}

\* What their handlers give to record().
AllArguments == {Recorded(r) : r \in AllKinds}

\* Threads differ in nothing, calls in the size of their line only.
Symmetry == Permutations(Threads) \cup Permutations(Calls \ BigCalls)
=============================================================================
