----------------------------- MODULE ResolveKey -----------------------------
(***************************************************************************)
(* Where the HMAC key comes from (krono/_keys.py).  The constructor and    *)
(* verify() resolve it before they touch the file.                         *)
(*                                                                         *)
(* A key is an element of Keys.  Everything else that can be found in its  *)
(* place stands for itself: "unset", "empty", "not_hex" and "short".       *)
(***************************************************************************)
EXTENDS KronoLog

CONSTANT None   \* Python's None

ASSUME ResolveKeyAssumption == None \notin Keys

\* The key, or None when MissingKeyError is raised: a key argument, even one
\* that is too short, keeps the environment from being read.
resolve_key(key, env) ==
    LET found == IF key # None THEN key ELSE env
    IN  IF found \in Keys THEN found ELSE None
=============================================================================
