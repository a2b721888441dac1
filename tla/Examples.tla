------------------------------ MODULE Examples -------------------------------
(***************************************************************************)
(* main() of the scripts in examples/: open the log, serve the requests of *)
(* the script one after the other, close the log whatever happened, and    *)
(* verify it.  audit_singleton.py does so in two phases, with an instance  *)
(* for each, and asserts where the second one starts.  KRONO_LOG_PATH may  *)
(* name a log that an earlier run, finished or not, has left.              *)
(* Their tools are mocks, which do not raise.                              *)
(***************************************************************************)
EXTENDS Dispatch

CONSTANTS
    Scripts,    \* sequences of phases, each a sequence of requests
    MaxRuns     \* bound: scripts started

\* A script has one thread, and one phase or two.
ASSUME ExamplesAssumption ==
    /\ \A t, u \in Threads : t = u
    /\ \A s \in Scripts : s \in Seq(Seq(Requests)) /\ Len(s) \in {1, 2} /\ s # None
    /\ None \notin {"ok", "assertion", "error", "killed"}

VARIABLES
    script, phase, step,
    block,      \* "outside", "with", "closing": where the with statement stands
    failed,     \* None, or the exception on its way out of it
    ended,      \* None, "ok", "assertion", "error" or "killed"
    runs,       \* history, read to bound the scripts started
    fresh       \* history: the log was empty when the script began

main == << script, phase, step, block, failed, ended, runs, fresh >>

Whole == IF script = None THEN << >>
         ELSE IF Len(script) = 1 THEN script[1] ELSE script[1] \o script[2]

\* Events asserted once the first n phases are over.
Expected(n) == IF n = Len(script) THEN Len(Whole) ELSE IF n = 0 THEN 0 ELSE Len(script[1])

MainInit ==
    /\ ServerInit
    /\ script = None /\ phase = 1 /\ step = 1
    /\ block = "outside" /\ failed = None /\ ended = "ok"
    /\ runs = 0 /\ fresh = TRUE

Begin(s) ==
    /\ ended # None /\ ~live
    /\ runs < MaxRuns
    /\ runs' = runs + 1
    /\ script' = s
    /\ phase' = 1 /\ step' = 1 /\ block' = "outside" /\ failed' = None
    /\ ended' = None
    /\ fresh' = (lines = << >> /\ tail = << >>)
    /\ UNCHANGED serverVars

\* AuditLog(log_path), and the assertion that the resume found the first phase.
Open ==
    /\ ended = None /\ block = "outside"
    /\ IF Resumable
         THEN /\ Construct
              /\ block' = "with"
              /\ failed' = IF phase = 1 \/ next_sequence' = Expected(phase - 1)
                            THEN None ELSE "assertion"
              /\ UNCHANGED ended
         ELSE /\ ended' = "error"
              /\ UNCHANGED << vars, block, failed >>
    /\ UNCHANGED << server, script, phase, step, runs, fresh >>

Unmade == {c \in Calls : request[c] = None}

\* A bug: an exception does not end the script.
StepOn(t) ==
    /\ block = "with" /\ step <= Len(script[phase])
    /\ Unmade # {} /\ Serve(t, CHOOSE c \in Unmade : TRUE, script[phase][step])
    /\ step' = step + 1
    /\ UNCHANGED << script, phase, block, failed, ended, runs, fresh >>

Step(t) ==
    /\ block = "with" /\ failed = None /\ step <= Len(script[phase])
    /\ Unmade # {} /\ Serve(t, CHOOSE c \in Unmade : TRUE, script[phase][step])
    /\ step' = step + 1
    /\ UNCHANGED << script, phase, block, failed, ended, runs, fresh >>

\* The handler runs.  McpDenyError is caught where the script expects it.
Handled(t) ==
    /\ \/ /\ RunBody(t) \/ ReplyResult(t) \/ ReplyDenied(t) \/ ReplyRecorded(t)
          /\ UNCHANGED failed
       \/ ReplyError(t) /\ failed' = "error"
    /\ UNCHANGED << script, phase, step, block, ended, runs, fresh >>

\* __exit__() or finally: close().
Close(t) ==
    /\ block = "with" /\ serving[t] = NoCall
    /\ failed # None \/ step > Len(script[phase])
    /\ CloseStart(t)
    /\ block' = "closing"
    /\ UNCHANGED << server, script, phase, step, failed, ended, runs, fresh >>

\* A bug: the entries are not counted.
VerifiedUncounted(read) == ChainedUnder(Key, read)

\* result.ok, and entries_checked is what the script wrote.
Verified(read) == ChainedUnder(Key, read) /\ Len(read) = Len(Whole)

\* close() has returned: the next phase begins, or the script ends.
Closed(t) ==
    /\ block = "closing" /\ pc[t] = "idle"
    /\ Exit /\ Dropped
    /\ block' = "outside"
    /\ LET asserted == Len(script) > 1 => next_sequence = Expected(phase)
           read     == IF tail = << >> THEN lines ELSE Append(lines, tail)
           over     == phase = Len(script)
       IN  /\ ended' = IF failed # None THEN failed
                       ELSE IF ~asserted \/ (over /\ ~Verified(read)) THEN "assertion"
                       ELSE IF over THEN "ok" ELSE None
           /\ phase' = phase + 1 /\ step' = 1
    /\ UNCHANGED << script, failed, runs, fresh >>

Killed ==
    /\ Crash \/ PowerLoss
    /\ Dropped
    /\ ended' = "killed"
    /\ block' = "outside"
    /\ UNCHANGED << script, phase, step, failed, runs, fresh >>

MainNext ==
    \/ \E s \in Scripts : Begin(s)
    \/ Open \/ Killed
    \/ ended # None /\ Repair /\ UNCHANGED << server, main >>
    \/ \E t \in Threads :
         \/ ThreadNext(t) /\ UNCHANGED << server, main >>
         \/ Step(t) \/ Handled(t) \/ Close(t) \/ Closed(t)

MainSpec == MainInit /\ [][MainNext]_<< serverVars, main >>

-----------------------------------------------------------------------------
(* Properties *)

\* On a log of its own no assertion of a script fails, whatever fails under it:
\* it ends in "OK", or in the exception that stopped it.
AssertionsHold == ended = "assertion" => ~fresh

\* "OK" means the log is this script's, from its first event to its last, and
\* what ran is the tools behind its allowed requests: not more, not fewer.
OkMeansComplete ==
    ended = "ok" /\ script # None /\ ~live =>
        /\ Len(lines) = Len(Whole)
        /\ \A i \in 1..Len(lines) :
             LET made == EventOf(lines[i]).call
             IN  /\ request[made] = Whole[i]
                 /\ Runs(Whole[i]) <=> made \in ran

\* The with statement is why a script never appends behind a failed append: its
\* log is one chain however often it is run again, is killed or loses power.
ScriptsKeepTheChain == ChainedUnder(Key, lines)
=============================================================================
