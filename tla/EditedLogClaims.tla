-------------------------- MODULE EditedLogClaims ---------------------------
(***************************************************************************)
(* Sentences of the repository about reading a log that the code does not  *)
(* live up to.  Each is checked by a run of its own, which violates it.    *)
(***************************************************************************)
EXTENDS Cli

\* "WriteError: when an existing file's last line is malformed" (AuditLog).  A
\* last line that is no UTF-8 raises UnicodeDecodeError instead.
ResumeRaisesWriteError ==
    stage = "before" => _load_resume_state(file).raised \in {"none", "WriteError"}

\* "1 - tampering detected", "3 - configuration or I/O error" (cli.py).  An
\* exception nothing catches ends the process with exit code 1 too: a log in a
\* directory that may not be searched, a number too long for json.loads, and
\* an intact log whose mark stdout cannot encode.
ExitOneMeansTampering ==
    exit # None /\ exit.code = 1 => result # None /\ ~result.ok

\* "verify() itself still returns VerifyResult(ok=False, ...) on tampering - it
\* never raises" (USAGE.md), tampering being "on any byte of any entry"
\* (README.md), with the newline of the last one (HONEST-CLAIMS.md).  Three single
\* changes are not reported so.  json.loads raises a ValueError that is no
\* JSONDecodeError on a number too long for int(), and nothing catches it.  A last
\* line that only lacks its newline is checked like any other, and passes.  And
\* the hash is one of the parsed values, made canonical again: bytes that are
\* changed so that they parse to the same values pass.
TamperingIsReported ==
    /\ stage \in {"returned", "raised"} /\ key = Key
    /\ edits = 1
    /\ edit.op \in {"change", "drop", "add", "garble", "rekey", "swap", "permute", "insert",
                    "cut", "respell"}
    => stage = "returned" /\ ~result.ok
=============================================================================
