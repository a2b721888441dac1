----------------------------- MODULE MCLiveLog ------------------------------
(* A small instance of LiveLog. *)
EXTENDS LiveLog, TLC

CONSTANTS t1, t2, a, b, c

\* Refused calls leave nothing to read.
Good == [tool_name |-> "read_note", decision |-> "allow", arguments |-> "encodable",
         declared_identity |-> "client", authenticated_identity |-> None,
         identity |-> None, reason |-> ""]
GoodOnly == {Good}

\* Threads differ in nothing, calls in the size of their line only.
Symmetry == Permutations(Threads) \cup Permutations(Calls \ BigCalls)
=============================================================================
