----------------------------- MODULE RecordCall -----------------------------
(***************************************************************************)
(* The arguments of record() and what it does with them before it takes    *)
(* the lock: the Identity is taken apart, then the checks, in their order. *)
(* A value that is a str in Python is a string here.                       *)
(***************************************************************************)

CONSTANT None   \* Python's None

\* Identity(declared, authenticated): neither field is derived from the other.
Identity(declared, authenticated) ==
    [declared |-> declared, authenticated |-> authenticated]

\* The two identity fields of the event, whichever way they were passed.
Decomposed(args) ==
    IF args.identity = None THEN args
    ELSE [args EXCEPT !.declared_identity      = args.identity.declared,
                      !.authenticated_identity = args.identity.authenticated]

IdentityTwice(args) ==
    /\ args.identity # None
    /\ args.declared_identity # None \/ args.authenticated_identity # None

\* Decision.ALLOW is the string "allow"; nothing else is coerced, not "ALLOW".
_coerce_decision(decision) == decision \in {"allow", "deny"}

WellTyped(args) ==
    /\ args.tool_name \in STRING /\ args.tool_name # ""
    /\ args.declared_identity \in STRING \cup {None}
    /\ args.authenticated_identity \in STRING \cup {None}
    /\ args.reason \in STRING
    /\ args.arguments # "not_mapping"
    /\ _coerce_decision(args.decision)

\* What record() raises before it takes the lock, or "none".
record_raises(args, is_closed) ==
    IF IdentityTwice(args)                     THEN "TypeError"
    ELSE IF is_closed                          THEN "WriteError"
    ELSE IF ~WellTyped(Decomposed(args))       THEN "ValueError"
    ELSE IF args.arguments = "not_encodable"   THEN "WriteError"
    ELSE "none"
=============================================================================
