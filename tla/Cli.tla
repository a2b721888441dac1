-------------------------------- MODULE Cli ---------------------------------
(***************************************************************************)
(* `krono verify` (krono/cli.py) on the logs of EditedLog: how it ends, by *)
(* the exit code a script or a cron job acts on.                           *)
(***************************************************************************)
EXTENDS EditedLog

VARIABLES
    key_env,    \* the value of the variable --key-env names
    exit        \* [code, printed], once the process has ended

cli == << key_env, exit >>

Exit(code, printed) ==
    /\ exit' = [code |-> code, printed |-> printed]
    /\ UNCHANGED << vars, key_env >>

\* parse_args() exits before anything is looked at.
UsageError == stage = "before" /\ Exit(2, FALSE)

\* verify(args.log_path, key_env=args.key_env)
Run(env) ==
    /\ stage = "before"
    /\ ReaderNext(None, env)
    /\ key_env' = env
    /\ UNCHANGED exit

Verifying ==
    /\ stage = "loop"
    /\ ReaderNext(None, key_env)
    /\ UNCHANGED cli

\* A bug: the exit code only says that there was a verdict.
VerdictAlwaysZero ==
    /\ stage = "returned"
    /\ Exit(0, TRUE)

\* With --json the verdict is ASCII, and can be printed.  Without, it begins with
\* a mark some encodings of stdout lack: print() raises, nothing catches that.
Verdict ==
    /\ stage = "returned"
    /\ \/ Exit(IF result.ok THEN 0 ELSE 1, TRUE)
       \/ Exit(1, FALSE)

\* _run_verify() turns two exceptions into a code; on any other one the
\* interpreter prints it and exits.
Failed ==
    /\ stage = "raised"
    /\ Exit(IF raised \in {"MissingKeyError", "ConfigError"} THEN 3 ELSE 1, FALSE)

CliInit == Init /\ key_env = None /\ exit = None

CliNext ==
    /\ exit = None
    /\ \/ WriterNext /\ UNCHANGED cli
       \/ \E env \in Env : Run(env)
       \/ UsageError \/ Verifying \/ Verdict \/ Failed

CliSpec == CliInit /\ [][CliNext]_<< vars, cli >>

-----------------------------------------------------------------------------

\* The exit code can be trusted as far as it goes: 0 only when there is a key,
\* the file is there and every line of it is the one a writer with that key
\* wrote there; 0 whenever that is so and can be printed; 3 exactly when there is
\* no key or no file to read, but for a directory that may not be searched.
ExitIsTheVerdict ==
    exit # None /\ exit.code # 2 =>
        LET parts     == _split_byte_lines(file)
            available == key_env \in Keys /\ access \in CanRead
            intact    == available /\ WrittenBy(key_env, parts, Len(parts))
        IN  /\ exit.code = 0 => intact
            /\ intact /\ exit.printed => exit.code = 0
            /\ exit.code = 3 <=> ~available /\ (key_env \in Keys => access # "unreachable")
=============================================================================
