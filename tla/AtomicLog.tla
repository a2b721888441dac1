----------------------------- MODULE AtomicLog ------------------------------
(***************************************************************************)
(* What AuditLog promises its callers, without threads, buffers, hashes or *)
(* partial lines: every record() call enters the log in one step, at some  *)
(* moment between its start and its return.  A call that fails may be in   *)
(* the log, may never be, or may enter it later (its bytes waited in a     *)
(* buffer, or the operator completed a torn line), but never twice.  A     *)
(* call that is refused never enters.  Losing power keeps a prefix of the  *)
(* log, and with fsync one that holds every call that returned.            *)
(***************************************************************************)
EXTENDS Naturals, Sequences

CONSTANTS Calls, Fsync

VARIABLES log, status

vars == << log, status >>

Logged == {log[i] : i \in 1..Len(log)}

Init ==
    /\ log = << >>
    /\ status = [c \in Calls |-> "unused"]

Begin(c) ==
    /\ status[c] = "unused"
    /\ status' = [status EXCEPT ![c] = "running"]
    /\ UNCHANGED log

\* Without fsync, a call that returned may have been lost with the power, and
\* come back when the operator completes its line.
Append1(c) ==
    /\ status[c] \in {"running", "failed"} \/ (~Fsync /\ status[c] = "ok")
    /\ c \notin Logged
    /\ log' = Append(log, c)
    /\ UNCHANGED status

\* record() returns the event.
Succeed(c) ==
    /\ status[c] = "running"
    /\ c \in Logged
    /\ status' = [status EXCEPT ![c] = "ok"]
    /\ UNCHANGED log

\* record() raises after it may have written.
Fail(c) ==
    /\ status[c] = "running"
    /\ status' = [status EXCEPT ![c] = "failed"]
    /\ UNCHANGED log

\* record() raises because of its arguments or of close().
Refuse(c) ==
    /\ status[c] \in {"unused", "running"}
    /\ c \notin Logged
    /\ status' = [status EXCEPT ![c] = "refused"]
    /\ UNCHANGED log

FailRunning == status' = [c \in Calls |-> IF status[c] = "running" THEN "failed" ELSE status[c]]

Crash == FailRunning /\ UNCHANGED log

PowerLoss ==
    /\ FailRunning
    /\ \E n \in 0..Len(log) :
         /\ log' = SubSeq(log, 1, n)
         /\ Fsync => \A i \in n+1..Len(log) : status[log[i]] # "ok"

Next ==
    \/ \E c \in Calls : Begin(c) \/ Append1(c) \/ Succeed(c) \/ Fail(c) \/ Refuse(c)
    \/ Crash
    \/ PowerLoss

Spec == Init /\ [][Next]_vars
=============================================================================
