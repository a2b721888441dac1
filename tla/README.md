# Verification of krono

`krono` writes an append-only, hash-chained audit log (one JSON object per line,
each with the HMAC of its contents and of its predecessor's hash), resumes it
after a restart, and verifies it. This directory models the library in TLA+,
checks the models with TLC and proves the main invariants with TLAPS. Paths
below are relative to the repository.

## The system

| Component | State | Operations | What makes it correct |
|---|---|---|---|
| Writer, `src/krono/audit.py` `AuditLog` | the file; the buffered handle `_fh`; `_closed`, `_next_sequence`, `_last_current_hash`, `_lock` | constructor, `record()`, `close()`, two getters, context manager | one gapless chain whatever the threads do; what returned is on disk; a refused call leaves no trace; memory and file agree; every call ends |
| Resume, `_read_last_line`, `_load_resume_state` | none (reads the file) | called by the constructor | continues where the file ends, refuses a torn or malformed last line |
| Verifier, `src/krono/verify.py` | loop state: `prev_hash`, `expected_seq`, line index | `verify()` | accepts exactly the chains written under the key; names the first bad line and the first failed check |
| Format, `events.py`, `_hash.py`, `_canonical.py` | none | event, `compute_current_hash`, canonical JSON, `to_dict`/`from_dict` | two events with equal hashes are equal; round trip |
| Keys `_keys.py`, `identity.py`, `exceptions.py`, `results.py` | none | `resolve_key`; records and exception classes | order of checks; key validated before any file work |
| Command line, `cli.py` | none | `krono verify` | exit code 0, 1, 2 or 3 for the outcome |
| Examples, `examples/*.py` | the integrator's process | dispatch wrapper, restart with a singleton, identity derivation | no tool body without a record; `authenticated_identity` only from a verified token |

How they interact. An integrator's threads call `record()` and `close()` on one
`AuditLog`. The instance writes through CPython's text and buffer layers into
the file. A crash leaves the file, and the next process constructs a new
instance from its last line. `verify()` reads the file at any time, in this or
another process, and shares nothing with the writer but the format and the key.
In between, the file can be torn by a fault, repaired by an operator, edited,
removed, or written by a second instance. `krono verify` turns what `verify()`
returns or raises into an exit code. A server calls `record()` before it runs a
tool, and runs it only when `record()` has returned.

What is hard here: `record()` is serialised by a lock that `close()` does not
take; a failing `flush()` keeps its bytes and a failing `fsync()` has written
them, while `record()` reports both as "not appended"; the constructor trusts
one line; the order of the verifier's checks decides what is reported.
`PROJECT.json` lists every such hazard at its line.

## Modules

| Module | Models |
|---|---|
| `KronoLog` | the format: events, hashes, lines as pieces of bytes, what a chain is |
| `RecordCall` | the arguments of `record()`: the identity taken apart, the checks in their order |
| `AuditLog` | the writer: threads in `record()` and `close()`, handle, file, faults, restarts, manual repair |
| `AtomicLog` | what the writer promises: every call enters the log in one step |
| `AuditLogRefinement` | the mapping from `AuditLog` to `AtomicLog` |
| `AuditLogClaims` | sentences of the documentation about the writer that the code does not keep |
| `AuditLogProofs` | theorems about `AuditLog`: the chain, the memory, the getters |
| `AuditLogCallProofs` | theorems about `AuditLog`: the single call, its place in the file, `close()` |
| `RefinementProofs` | theorem: `AuditLog` implements `AtomicLog` |
| `ResolveKey` | `resolve_key`: the explicit key, then the environment |
| `RawLog` | a file whose lines may hold anything, as the readers get it |
| `Resume` | `_load_resume_state` on such a file |
| `Verify` | `verify()`: the key, opening the file, then one action per way a line can end |
| `EditedLog` | a log that is written, edited, resumed, continued and verified; a second instance, other keys, removal, rights |
| `Cli` | `krono verify` on such a log: exit codes |
| `VerifyProofs` | lemmas: what the loop of `verify()` does on a file of any length |
| `EditedLogProofs` | theorems about `EditedLog` and `Cli` |
| `Dispatch` | the handlers of `examples/` in a server with threads, over `AuditLog` |
| `Examples` | `main()` of the four scripts, over `Dispatch` |
| `DispatchProofs`, `ExamplesProofs` | theorems about `Dispatch` and `Examples` |
| `LiveLog` | writer and readers together: `verify()` on the bytes the writer leaves, next to the next constructor |
| `LiveLogProofs` | theorems about `LiveLog` |
| `EditedLogClaims` | sentences of the documentation about reading that the code does not keep |
| `MCAuditLog`, `MCEditedLog`, `MCLiveLog`, `MCDispatch`, `MCExamples` | the instances TLC checks |

Operators named as bugs (`BuildEventUnlocked`, `GoneSuppressed`, ...) are not
part of any specification. Each is a plausible slip in the code, put in place of
the definition below it to see that a property notices; `PROJECT.json` says
which property each one breaks.

### AuditLog: state, atomicity, correspondence

`next_sequence`, `last_current_hash`, `closed`, `lock` are the instance's fields.
`pc[t]`, `call[t]`, `entry[t]` are the locals of the thread `t` in `record()` or
`close()`. The file is `lines` (texts between newlines) and `tail` (what follows
the last newline), each a sequence of cells; a cell is one piece of one event's
line, so a torn line and two lines glued together are states of the model, not
special values. `synced` says how many lines are on stable storage.

| Code (`audit.py`) | Actions |
|---|---|
| `__init__`, 164-188 | `Construct`; nothing happens when `_load_resume_state` raises |
| `record()` before the lock, 235-267 | `RecordRefused`, `RecordStart` |
| lock, closed check, event, 270-290 | `FindClosed`, `BuildEvent` |
| `write`, 292 | `WriteSmall`; `WriteBig`, `Drain`, `BigWriteDone` for a line larger than the buffer |
| `flush`, 293 | `FlushStart`, `Drain`, `FlushDone` |
| `fsync`, 295 | `Sync` |
| `except OSError`, 296-298 | `AppendFails` |
| a closed handle: `ValueError` passes | `HandleGone` |
| `KeyboardInterrupt` anywhere from the lock to 301 | `Interrupted` |
| 300; 301-315 | `AdvanceSequence`; `AdvanceHash` |
| `close()`, 338-347 | `CloseStart`, `CloseSet`, `CloseFlushStart`, `CloseFlushDone`, `CloseDone`, `CloseFindsClosed` |

`record()` is cut wherever another thread, a fault or a crash can come between,
and between its two assignments to the chain state, which the getters read
without the lock. What is checked before the lock is the function
`record_raises` of `RecordCall`: which exception, if any, the arguments cause.
Inside the lock the event is built in one step: it reads two fields only the
lock's holder writes. `close()` takes no lock and is cut at every statement.

The file handle is not under `src/`. It is modelled from what `record()` and
`close()` see of CPython's `TextIOWrapper` over `BufferedWriter`: text waits
until a flush; the buffer has a lock held while bytes go out; a failed flush
keeps what did not go out and the next flush, or `close()`, tries it again; a
line larger than the buffer goes out inside `write()`, and a failure there drops
the rest of that line; a closed handle raises `ValueError`, not `OSError`.

History variables (`outcome`, `dirty`, `spoiled`, `powerLost`) are read by no
action, but to make each call once and to bound the faults. `dirty`: an append of this instance failed. `spoiled`: an instance
appended again after that. The library lets it, and then the chain is lost (see
Findings), so most properties are stated for logs that are not spoiled.

### Readers

A line of `RawLog` is bytes that are no UTF-8, blank, no JSON, a number
`json.loads` refuses, no object, or an object with some fields. Of the eleven
fields three matter to the checks; `call` stands for the other eight. `Verify`
has one action per outcome of a line; their guards `AtLine`, `AtObject`,
`AtEvent`, `AtSequence`, `AtLink` follow the order of the six checks.
`NotHash` stands for a value of a hash field that `_load_resume_state` refuses: no
string, or an empty one.
`LiveLog` puts `Verify` behind the writer itself: `FileAsRead` says what the
writer's bytes are to a reader, a torn or glued text being no JSON; the constructor
that may come next is the writer's own.
`EditedLog` lets the file be changed in every way `HONEST-CLAIMS.md` and
`tests/test_verify.py` name, anywhere and between appends, by somebody without
the key: hashes under the key are ones a writer produced. Its writer never
fails, so one action is a whole `record()`; in exchange there may be a second
instance on the file, a restart under another key, a file removed under its
writer (which keeps the handle, `on_path`), and rights taken away. `access` is
what the path leads to; the constructor and `verify()` meet it in the order of
their code: key, existence, `open()`, read.

`Cli` adds the process around `verify()`: `exit` is its exit code and whether the
verdict was printed. Exceptions `_run_verify()` does not catch, those of `print()`
among them, end in code 1.

### Integrators

`Dispatch` composes the handlers of `examples/` with the whole of `AuditLog`, not
with `AtomicLog`: a server goes on after a failed append, and then the writer
does not implement the atomic log. `Recorded(r)` is the `record()` call that the
code named in a request makes for it: `audit_dispatch` with its policy decision and
the principal of its context, `read_note`, `delete_note`, or one of the two callers
that only record, `_record_pair` of `audit_singleton.py` and the loop of
`with_bearer_auth.py` with its auth boundary (`RecordOnly`: no tool follows). `Serve` is
the handler up to that call, `RunBody` and the replies are the handler after it.
A dispatched tool may raise after its work (`ReplyRaised`): the client is told of
an error although the tool ran, and the log has its "allow", as `USAGE.md`
promises. `ran` is what tools did, and outlives the process; `earlier[c]` is who
had an answer when the call `c` was made.

`Examples` is `main()` of a script: open, make one request after the other, close
however the with statement is left, verify, assert. Its tools are mocks, which do
not raise. The scripts are the values
of `Scripts` in `MCExamples`; `audit_singleton.py` has two phases, with a new
instance for the second. `Verified` is what `verify()` accepts, as the runs `verify`
and `live` show. A script may be started on what an earlier one has left.

HMAC over canonical JSON is a free constructor in all modules: a hash is the list
of what was hashed, so equality of hashes is equality of contents and history.

## Runs

| Run | Question | Bounds | States |
|---|---|---|---|
| `writer` | all safety properties of the writer; `AuditLog` implements `AtomicLog` | 2 threads, 3 calls with good or refused arguments, one line larger than the buffer, fsync on, 1 failing I/O call or interrupt, 1 crash or power loss | 452,347 |
| `liveness` | every `record()` and `close()` ends; what survives a crash without fsync | 2 threads, 2 calls, one larger than the buffer, fsync off, 1 fault, 1 crash or power loss | 70,402 |
| `live` | `verify()` and the constructor on a live log | as `writer`, good arguments, one verification at any moment | 2,113,823 |
| `verify` | the verifier, the resume, the command line, and all of them together | 3 events, 2 changes to the file, 2 keys, 3 values of the variable | 587,421 |
| `dispatch` | what tools do and what the log says of it, and in which order | 2 threads, 2 calls, 4 kinds of request, fsync on, 1 fault, 1 crash or power loss | 1,723,208 |
| `examples` | the scripts' assertions | 4 scripts, 2 of them run, 8 calls, fsync off, 1 fault, 1 crash or power loss | 339,201 |

The other runs each look for the violation of one documented sentence; see
Findings.

Why the bounds are enough. Two threads are what it takes for a race on the lock,
on the handle, or of `close()` with `record()`; further threads only wait.
Three calls give an event before, at and after the fault. A line of three cells
has a text that can be torn, a text complete without its newline, and a complete
line. One I/O failure and one crash already combine (a failed append, then a
crash, then a restart behind a torn line). Two edits let one hide the other;
three events give a first, a middle and a last line. Two changes are also what a fork takes: a
second instance and something on top of it. Two calls in `dispatch` are a request
and its repetition, or two at once; a line of two cells is enough there, since
tearing a text is the business of `writer`. Eight calls are two scripts in full.
Deadlock checking is off because the bounded runs really end: all calls are
used, `verify()` returned, or no script is left to start. `MaxFaults`,
`MaxCrashes`, `MaxEvents`, `MaxEdits` and `MaxRuns` are the only bounds on
faults and inputs.

Properties, each with a comment in its module that says what it means:

- the writer (`AuditLog`): `ChainIntact`, `AckedOnDisk`, `AckedIsSynced`,
  `NeverTwice`, `MemoryMatchesDisk`, `GettersBehindFile`, `RefusedLeavesNoTrace`,
  `CloseTearsNothing`, `RecordReturns`, `CloseReturns`, and `AtomicAppends`
  (`AuditLogRefinement`);
- writer and readers (`LiveLog`): `OnlyTheTailFails`, `AckedAreVerified`,
  `RestartAgreesWithVerify`;
- readers (`EditedLog`): `VerdictIsFirstBadLine`, `AcceptedIsGenuine`,
  `UntouchedVerifies`, `OneEditAsClaimed`, `ResumeAgreesWithVerify`,
  `AppendsKeepTheVerdict`; and of the command line (`Cli`): `ExitIsTheVerdict`;
- integrators (`Dispatch`): `NothingRunsUnrecorded`, `LogKeepsTheOrder`; the scripts
  (`Examples`): `AssertionsHold`, `OkMeansComplete`, `ScriptsKeepTheChain`.

`UntouchedVerifies` says what "unsupported" means for two instances and for a
change of key: the verdict names the first sequence number given out twice, or
the first line under the other key, and nothing before it. `OneEditAsClaimed` takes
the changes that the tables of `HONEST-CLAIMS.md` name and that are reported as the
tables say (`Claimed`); the others are a finding (`TamperingIsReported`). `AtomicAppends`
is the refinement for as long as the log is not spoiled, so that it can be asked of
the same specification as the rest; for a caller that stops at the first failed append
(`StopsOnError`) it is the whole atomic log. `RestartAgreesWithVerify` compares the
two readers of one file, the loop over all lines and the constructor's look at the
last one, on whatever the writer leaves. `LogKeepsTheOrder` compares the order of the
lines with the order in which clients had their answers, also when a line of a failed
call comes late. `ScriptsKeepTheChain` holds without the exception for spoiled logs:
the with statement ends an instance at its first failed append, which is what keeps
the chain.

Fairness. `FairSpec` assumes that a thread inside `record()` or `close()` keeps
running: weak fairness of its next step, one conjunct per thread. The operating
system schedules runnable threads, and the I/O calls return. Nothing is assumed
of the environment: no call has to be made and no fault has to happen. Weak
fairness is enough although a lock is not fair, because each call is made once
and so nobody can take the lock forever; with endless calls a thread could
starve, which `threading.Lock` does not exclude either.
Only `RecordReturns` and `CloseReturns` use it; the other specifications have no
fairness.

## Proofs

Every invariant that a passing run checks is a theorem of its specification, for
every set of threads, calls, keys, requests and scripts, every line size of at
least two pieces, files of any length and any number of faults, crashes, edits
and runs; and so is the refinement. `PROJECT.json`, `theorems`, says what each of
them means.

| Module | Theorems (the property each is about) |
|---|---|
| `AuditLogProofs` | `TypeCorrect` (`TypeOK`), `ChainAlwaysIntact` (`ChainIntact`), `MemoryAlwaysMatches` (`MemoryMatchesDisk`), `GettersAlwaysBehind` (`GettersBehindFile`) |
| `AuditLogCallProofs` | `NeverTwiceAlways`, `RefusedLeavesNoTraceAlways`, `AckedIsAlwaysSynced`, `AckedIsAlwaysOnDisk` (`AckedOnDisk`), `CloseNeverTears` (`CloseTearsNothing`) |
| `RefinementProofs` | `AppendsAreAtomic` (`AtomicAppends`), `StoppingIsAtomic` (`StopsOnError => Abstract!Spec`) |
| `EditedLogProofs` | `Typed` (`TypeOK`), `VerdictIsAlwaysFirstBadLine`, `AcceptedIsAlwaysGenuine`, `UntouchedAlwaysVerifies`, `OneEditIsAlwaysAsClaimed`, `ResumeAlwaysAgrees` (`ResumeAgreesWithVerify`), `AppendsAlwaysKeepTheVerdict`, `ExitIsAlwaysTheVerdict` |
| `LiveLogProofs` | `OnlyTheTailEverFails`, `AckedAreAlwaysVerified`, `RestartAlwaysAgreesWithVerify` |
| `DispatchProofs` | `NothingEverRunsUnrecorded`, `LogAlwaysKeepsTheOrder` |
| `ExamplesProofs` | `AssertionsAlwaysHold`, `OkAlwaysMeansComplete`, `ScriptsAlwaysKeepTheChain` |

`VerifyProofs` holds lemmas only.

### Assumptions

All are on constants, named in the module that declares them, and evaluated by
TLC in the runs.

- `LineCellsAssumption`, `AuditLogAssumption`, `EditedLogAssumption`: the bounds are
  numbers, a key and the big calls are among the keys and calls, and the values
  that stand for "no thread", "no call", "no event" are none.
- `RawLogAssumption`, `ResolveKeyAssumption`, `VerifyAssumption`, `LiveLogAssumption`:
  the values that stand for something malformed or missing differ from the
  well-formed ones (Python's types tell them apart).
- `DispatchAssumption`: a request names one of the five callers, and what they
  give to `record()` is among its modelled `Arguments`.
- `ExamplesAssumption`: a script is a single thread, of one phase or two, as those in
  `examples/` are. With two threads `ScriptsKeepTheChain` is false: the second one
  may wait for the lock while the first one fails.

### The writer

`ChainIntact` speaks of complete lines only and is not inductive: bytes on their
way to the file are in `tail`, `buf`, `pending` or, not yet written, in a thread's
`entry`. The inductive invariant `ChainInv` has four parts:

- `TypeInv`: types, and a thread in `record()` has its call and its event;
- `Control`: who can be inside the critical section, who holds the buffer's lock,
  and what the instance looks like when none exists;
- `Chained`: the complete lines form a chain, and the bytes under way (`StreamInv`)
  are one line of the next event, whole or with its end cut off, or nothing: so
  pushing bytes on keeps the chain (`StreamPush`, `StreamDrain`) and losing a
  suffix keeps a prefix of it (`StreamCut`);
- `Unbroken`: while nothing failed, memory and file are in step (`InStep`): with the
  lock free the chain state in memory is the file's; a thread in the critical
  section has its line still to write, under way, or as the last of the file.

`GettersBehindFile` needs one part more, `Behind`: while nothing failed, the hash in
memory is the genesis value or that of a complete line. Between the two
assignments at the end of `record()` the sequence number is already the next one
and the hash still the old one; `Unbroken` says for that moment (`advance_hash`)
that the number counts the file's lines, and the entry being the last of them
makes its hash one that `Behind` allows.

The properties of single calls need to know where each call's bytes are:

- `CallsInv`: a call is running exactly when one thread is in `record()` for it, and
  the thread's event is about it;
- `RowsInv`, also for spoiled logs: every cell of every call is in one place, in
  the complete lines or in what is under way behind them (`Rows`), and a call
  that has not written yet has none. `ByteInv` is both with `TypeInv` and `Control`;
- `FailuresLeave`: unless the log is spoiled, a thread past the start of its `write()`
  is in an instance without a failed append, and without a fault there is none;
- `KeepInv` adds the last one to `ChainInv`, `Behind` and `CallsInv`; over it `Kept`
  says that what returned is on file, and what is about to return is synced.

The refinement rests on these together (`RefInv`); but for `~spoiled` they hold behind
a spoiling append too (`AsFarInv`), and what is spoiled stays so (`SpoiledStays`). Each way in which an action
can show in `AtomicLog` is a lemma (`LineJoins`, `CallFails`, `CallRefused`,
`CallsAbandoned`, `LogCut`, `Stutters`), and `MapThread` and `MapEnvironment` say which
action is which: a line is appended to the log
where its last cell reaches the file, a call fails where its exception leaves
`record()`, a power loss cuts the log to a prefix that has all that was synced.
Proving it showed a gap in `AtomicLog` as it was checked before, with fsync only:
without fsync a returned call can lose its newline to a power loss and come
back when the operator completes the line. `Append1` allows that now.

### The readers

`verify()` is a loop, and the file has any number of lines. What has been read is
described without recursion: `WrittenBy(key, parts, n)` says that the first `n` parts
are what a writer with the key would have written there, `HashBehind` is the hash
after them. `LoopInv` says that the lines before `idx` are of that kind and
`prev_hash` is their hash; `VerifyInv` adds what a verdict means. Where a fact about
all lines has to be shown (that a chain's hashes are as long as the chain before
them, that the lines of a chain are genuine and in order), the proof takes the least line for which it fails: lemma `Least`, from
the well-foundedness of `<`, is what stands for induction.

`FileInv` is about the bytes: every hash in the file that was made with the key is
one that a writer gave out, since an editor does not have the key (`GoodFile`,
`GenuineInv`). `AcceptedIsGenuine` follows from it with `VerifyInv`: an accepted line
carries a hash under the key, so it was written, behind the same predecessor.
`ReadInv` says what `verify()` has read and why it may have raised. Three properties
are about the history of the log and have an invariant each: `OpenedInv` (what the
writer was constructed on), `UntouchedInv` (what the file is while nobody edits it)
and `SingleInv` (the verdict on a log with one change, of each of the kinds of
`Claim`). That such a verdict is reached, and no exception, is `RaisedInv`: `verify()`
raises behind its start only on a line with a number too long for `json.loads`.

### Writer and readers, servers, scripts

`LiveLog`, `Dispatch` and `Examples` contain the writer, and their proofs the writer's:
a step of the composition is one of the writer or leaves it alone
(`ServerIsWriter`, `MainIsServer`), so its invariants hold, as `WriterInv`. Over it:

- `ReadingInv`: `verify()` on the writer's bytes passes line by line, and what it
  reports is the text at the end. `RestartAgreesWithVerify` follows from it with the
  writer's `Chained`: the event of the last line has the number and the hash of the
  whole chain before it;
- `ServingInv`: which call a thread serves, that a tool that ran belongs to a call
  that returned an event, and that a call whose client has an answer is over;
- `OrderInv`: every cell of an answered call stands before every cell of a call made
  later, in the lines and in the bytes on their way (`Precedes`, over the `Rows` of
  the writer's proofs). An action writes a line behind all other bytes, for a call
  that is running and so has no call made after its answer, or it keeps, moves on
  or drops bytes without changing their order;
- `MainInv`: where the script stands, and that a handle is open exactly inside the
  with statement; `SafeInv`: a failed append is an exception on its way out of it,
  so nothing is appended behind it; `CountInv`: the sequence number in memory counts
  the requests served, but for the one that is still in `record()`, and at rest so
  does the file; `OwnInv`: each
  line of a log that was empty is of the script's request at that place; `EndInv`:
  how the script may have ended. Together, `ScriptInv`; TLC checked it on the
  instance of `examples` before it was proved.

### Only model-checked

Liveness: `RecordReturns` and `CloseReturns` rest on weak fairness, and
fairness on ENABLED, which is out of the prover's reach. The violations in
Findings are runs.

## Findings

Places where the code does something else than a sentence of the repository
says. Each has a run that shows it (`PROJECT.json`, `findings`).

- After a failed `flush()` the line waits in the handle and a later flush or
  `close()` writes it; after a failed `fsync()` it is in the file. The sequence
  number is used again, so if the instance goes on the chain is broken for good,
  and a `record()` that returns behind such a failure may have no readable line.
  Threads that already wait for the lock go on even when the caller of the
  failed one stops.
- `record()` racing `close()` can raise `ValueError` instead of `WriteError`.
- Two racing `close()` calls: one can raise `ValueError`.
- The constructor raises `UnicodeDecodeError`, not `WriteError`, when the last
  line is no UTF-8.
- `krono verify` exits with 1, "tampering detected", on any exception it does not
  catch: a log behind a directory that may not be searched, an integer of more
  than 4300 digits, an intact log whose mark stdout cannot encode.

- Three single changes to a log are not reported by `verify()` with `ok=False`, although
  `USAGE.md` says that it is what it returns on tampering. A line with an integer of more
  than 4300 digits makes it raise `ValueError`. A last line that only lacks its newline
  verifies, although `HONEST-CLAIMS.md` lists it as detected; the constructor refuses
  the same file, and `tests/test_verify.py` takes either verdict. A line spelled in other
  bytes with the same values verifies, although README.md claims "any byte of any
  entry". `OneEditAsClaimed` says that there is no fourth among the changes modelled.

Three more were met that no run is about:

- `WriteError` ("prevented an append", `exceptions.py`) does not mean the event is
  not in the log, as the first finding says.
- The constructor opens a file it may write but not read, and then raises
  `PermissionError`, which its docstring does not name (`Opened`).
- `json.loads` accepts `NaN`, so the branch of `_check_hash` that its comment calls
  unreachable is reached (and handles it).

## Not modelled

- An interrupt inside `close()`: it can leave `_closed` set and the handle open.
  Interrupts while a thread waits for the lock, or after `record()` has left it.
- Two instances that fail: the instances of `EditedLog` append whole lines.
- The fail-open pattern of `USAGE.md`: no code of the repository does it. It is the
  bug `RunBodyFailOpen` in `Dispatch`, which shows what it gives up.
- The `expected` and `actual` fields of a failure; `VerifyError`, which the library
  never raises; what argparse accepts.
- A process that ends without `close()` and without being killed: the
  interpreter flushes the handle then, which is what `close()` does.
- Nesting too deep for `json.loads`; duplicate keys in an object.
- What a line says beyond its call: that the identities in it are those of the
  request is `Recorded` and `Decomposed`, which are functions and have no property.
- Event ids, timestamps, messages and other formatting; packaging and CI.

## Plan

- `Examples` states what `verify()` accepts as `Verified`; a theorem that the verdict of
  `LiveLog` on a log at rest is `Verified` would join the two.
- `EditedLog` has writers whose `record()` is one action; a theorem that `AtomicLog`
  without faults is what they do would join it to the writer.
- `TypeOK` and the readers' types in the compositions.
