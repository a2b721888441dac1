------------------------------ MODULE Dispatch -------------------------------
(***************************************************************************)
(* The integration patterns of examples/: tool handlers that log their     *)
(* decision with record() and only then do what was decided.  Threads of   *)
(* one server serve requests through one AuditLog; what is modelled is the *)
(* code from the request to the answer, over the real writer: its failing  *)
(* appends, its crashes and restarts.  No handler catches what record()    *)
(* raises ("fail-closed" in USAGE.md), and none tries a call again: a      *)
(* client that repeats a request makes another call.                       *)
(***************************************************************************)
EXTENDS AuditLog

CONSTANTS
    Requests,       \* records [handler, tool, arguments, declared, principal, header]
    Reads,          \* tool names that begin with "read_"
    ValidToken,     \* the one token verify_jwt() accepts
    Subject         \* its subject

VARIABLES
    serving,        \* the call a thread is in a handler for
    request,        \* history: what each call was made for
    ran,            \* history: calls whose tool body ran
    answer,         \* history: what the client was told
    earlier         \* history: the calls that had their answers when a call was made

server     == << serving, request, ran, answer, earlier >>
serverVars == << vars, server >>

Answers == {"none", "waiting", "result", "denied", "recorded", "error", "gone"}

-----------------------------------------------------------------------------
(* The handlers *)

verify_jwt(token) == IF token = ValidToken THEN Subject ELSE None

\* The header is None or its token, "" when there is none in it.
derive_identities(declared, header) ==
    Identity(declared, IF header = None THEN None ELSE verify_jwt(header))

_policy_evaluate(tool) == IF tool \in Reads THEN "allow" ELSE "deny"

Args(tool, decision, arguments, who) ==
    [tool_name |-> tool, decision |-> decision, arguments |-> arguments,
     declared_identity |-> who.declared, authenticated_identity |-> who.authenticated,
     identity |-> None, reason |-> ""]

\* Its context's client_name and principal.
audit_dispatch(r) ==
    Args(r.tool, _policy_evaluate(r.tool), r.arguments, Identity(r.declared, r.principal))

read_note(r) == Args("read_note", "allow", "encodable", Identity(r.declared, None))

delete_note(r) == Args("delete_note", "deny", "encodable", Identity(r.declared, None))

\* One of the two record() calls of _record_pair().
_record_pair(r) ==
    Args(r.tool, IF r.tool = "read_note" THEN "allow" ELSE "deny", "encodable",
         Identity(r.declared, None))

\* One turn of the loop in with_bearer_auth.py.
with_bearer_auth(r) ==
    Args("read_note", "allow", "encodable", derive_identities(r.declared, r.header))

\* The arguments record() gets for a request.
Recorded(r) ==
    CASE r.handler = "audit_dispatch"   -> audit_dispatch(r)
      [] r.handler = "read_note"        -> read_note(r)
      [] r.handler = "delete_note"      -> delete_note(r)
      [] r.handler = "_record_pair"     -> _record_pair(r)
      [] r.handler = "with_bearer_auth" -> with_bearer_auth(r)

\* Callers that only record: there is no tool behind the decision.
RecordOnly == {"_record_pair", "with_bearer_auth"}

\* A tool body follows the record: the mock of read_note(), or real_dispatch().
Runs(r) == r.handler \notin RecordOnly /\ Recorded(r).decision = "allow"

\* record() is called by the handlers of the requests.
ASSUME DispatchAssumption ==
    \A r \in Requests :
        /\ r # None
        /\ r.handler \in {"audit_dispatch", "read_note", "delete_note"} \cup RecordOnly
        /\ Recorded(r) \in Arguments

-----------------------------------------------------------------------------
(* Serving *)

Ready(t, c) == serving[t] = NoCall /\ request[c] = None

Take(t, c, r) ==
    /\ serving' = [serving EXCEPT ![t] = c]
    /\ request' = [request EXCEPT ![c] = r]
    /\ answer'  = [answer EXCEPT ![c] = "waiting"]
    /\ earlier' = [earlier EXCEPT ![c] = {d \in Calls : answer[d] \notin {"none", "waiting"}}]
    /\ RecordStart(t, c, Recorded(r)) \/ RecordRefused(t, c, Recorded(r))

\* A handler is called, decides, and calls record().
Serve(t, c, r) ==
    /\ Ready(t, c)
    /\ Take(t, c, r)
    /\ UNCHANGED ran

\* A bug: record() is left to another thread, and its outcome not awaited.
BackUnawaited(t, how) == serving[t] # NoCall /\ outcome[serving[t]] \in how \cup {"running"}

\* record() has returned its event to the handler, or raised.
Back(t, how) == serving[t] # NoCall /\ pc[t] = "idle" /\ outcome[serving[t]] \in how

\* "Fail-open": WriteError is caught, and the tool runs all the same.
RunBodyFailOpen(t) ==
    /\ Back(t, {"ok", "write_error"})
    /\ Runs(request[serving[t]])
    /\ serving[t] \notin ran
    /\ ran' = ran \cup {serving[t]}
    /\ UNCHANGED << vars, serving, request, answer, earlier >>

\* The tool body does its work, whether it then returns or raises.
RunBody(t) ==
    /\ Back(t, {"ok"})
    /\ Runs(request[serving[t]])
    /\ serving[t] \notin ran
    /\ ran' = ran \cup {serving[t]}
    /\ UNCHANGED << vars, serving, request, answer, earlier >>

Reply(t, what) ==
    /\ answer' = [answer EXCEPT ![serving[t]] = what]
    /\ serving' = [serving EXCEPT ![t] = NoCall]
    /\ UNCHANGED << vars, request, ran, earlier >>

ReplyResult(t) == Back(t, {"ok"}) /\ serving[t] \in ran /\ Reply(t, "result")

\* real_dispatch() raised: its exception goes through audit_dispatch().
ReplyRaised(t) ==
    /\ Back(t, {"ok"})
    /\ serving[t] \in ran
    /\ request[serving[t]].handler = "audit_dispatch"
    /\ Reply(t, "error")

\* McpDenyError, or the message of delete_note().
ReplyDenied(t) ==
    /\ Back(t, {"ok"})
    /\ request[serving[t]].handler \notin RecordOnly
    /\ ~Runs(request[serving[t]])
    /\ Reply(t, "denied")

\* A caller that only records goes on.
ReplyRecorded(t) ==
    /\ Back(t, {"ok"})
    /\ request[serving[t]].handler \in RecordOnly
    /\ Reply(t, "recorded")

\* What record() raised goes through the handler to the client.
ReplyError(t) == Back(t, Outcome \ {"ok"}) /\ Reply(t, "error")

\* The process ends under its handlers.
Dropped ==
    /\ serving' = [t \in Threads |-> NoCall]
    /\ answer' = [c \in Calls |-> IF answer[c] = "waiting" THEN "gone" ELSE answer[c]]
    /\ UNCHANGED << request, ran, earlier >>

ServerInit ==
    /\ Init
    /\ serving = [t \in Threads |-> NoCall]
    /\ request = [c \in Calls |-> None]
    /\ ran = {}
    /\ answer = [c \in Calls |-> "none"]
    /\ earlier = [c \in Calls |-> {}]

Handling(t) ==
    \/ RunBody(t)
    \/ ReplyResult(t) \/ ReplyRaised(t) \/ ReplyDenied(t) \/ ReplyRecorded(t) \/ ReplyError(t)

ServerNext ==
    \/ (Construct \/ Repair) /\ UNCHANGED server
    \/ (Exit \/ Crash \/ PowerLoss) /\ Dropped
    \/ \E t \in Threads :
         \/ ThreadNext(t) /\ UNCHANGED server
         \/ serving[t] = NoCall /\ CloseStart(t) /\ UNCHANGED server
         \/ \E c \in Calls, r \in Requests : Serve(t, c, r)
         \/ Handling(t)

ServerSpec == ServerInit /\ [][ServerNext]_serverVars

-----------------------------------------------------------------------------
(* Properties *)

\* No tool runs whose decision is not in the log, once: not when appends fail or
\* are interrupted, and not after a crash between record() and the tool, a
\* restart, or, with fsync, a power loss; whether the tool returns or raises.
NothingRunsUnrecorded ==
    ~spoiled /\ (powerLost => Fsync) => \A c \in ran : \E i \in 1..Len(lines) : LinesOf(c) = {i}

\* The log is in the order clients saw: a call made when another had its answer
\* (a result, an error, or a connection that broke) stands behind that one.  It
\* holds for the lines of failed calls that come to the log late, with the next
\* flush, and behind failed appends too.
LogKeepsTheOrder ==
    \A d \in Calls : \A c \in earlier[d] : \A i \in LinesOf(c), j \in LinesOf(d) : i < j
=============================================================================
