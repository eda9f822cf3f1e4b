# aiossh: TLA+ models, checks and proofs

aiossh is an asyncio SSH client library on top of asyncssh. Its own logic is
the bookkeeping around connections: a pool with a lock, lists, counters and a
cleanup task; sliding-window rate limiters; a registry of named sessions; and
file transfers by parallel chunks. This directory holds TLA+ modules that model
that logic, TLC configurations that check it on small instances, and TLAPS
proofs about it for all instances. `PROJECT.json` lists components, runs,
mutants, findings, hazards and theorems, and says for each definition which
lines of the source it stands for.

## 1. Inventory

Paths are below `src/src/aiossh/`.

| Component | Keeps | Does | What makes it correct |
|---|---|---|---|
| `ConnectionPool` (`core/pool.py`) | `_pools` (a list of entries per `user@host:port`), `_total_connections`, `_idle_connections`, one `asyncio.Lock`, the cleanup task, `_warming` | get, return, warm up, sweep, close | nobody shares a session; a sweep leaves lent sessions alone; never more than `max_connections`; counters agree with the lists; nothing stays open after `close`; nobody waits for ever |
| `FastSSHSession` (`core/session.py`) | `_connection`, `_closed`, a lock, a semaphore of 10 commands, counters | connect, execute, batch, upload, download, stream, close | connect and close exclude each other; a closed session stays closed; no command runs on a connection that is gone; a batch answers every command |
| `RateLimiter` (`security/config.py`) | a deque of request times, a lock | acquire, current_rate | at most `max_requests` in every window; no refusal without cause |
| `AIOSSH` (`core/client.py`) | `_active_sessions` (name to session), `_pooled_sessions` (session to config), `_closed`, two rate limiters, the pool | connect (through the pool, or past it), execute, close_session, close_all | what was opened is given back once, to the pool or by closing it; nothing is left open after `close_all` |
| `ParallelSCP` (`transfer/scp.py`) | local and remote `.partNNNN` files, a semaphore, failed chunks | upload, download | success means the whole file; parts are removed whichever way it ends |
| `SessionFileManager` (`security/file_manager.py`) | `<name>.seshn`, `<name>.tmp` | create, load, list, delete | a reader sees the old file or the new one |
| `SSHTunnelManager` (`integrations/proxy.py`) | a list of listeners | socks proxy, forwards, close_all | every listener is closed |
| `SessionRecorder`, `SessionReplayer` (`integrations/replay.py`) | events, a file | start, record, stop, save; load, replay | a replay yields the recorded events in order |
| `retry`, `timing` (`utils/decorators.py`) | attempt count | retry with growing delays | at most `max_retries` attempts, the last exception is raised |
| `WebhookManager` and two senders (`integrations/webhook.py`) | callbacks and URLs per event | on, add_webhook, trigger | a failing callback stops no other |
| `InputValidator` (`security/validators.py`) | nothing | string checks | (pure functions over regular expressions) |
| `SecurityConfig`, `AuditLogger`, `SecureMemory`, docker, exceptions, exports | nothing of interest | | |

How they meet: `AIOSSH.connect` and `execute_command` ask a `RateLimiter`;
`connect` takes a session from the pool, which asks a limiter of its own,
builds a `FastSSHSession` and connects it; `close_session` and `close_all` hand
it back through `return_connection`. The pool's cleanup task is the only
background task. `ParallelSCP` calls `upload_file`, `download_file` and
`execute` of one session from several tasks. Everything runs on one event
loop: control changes hands only at an `await`. The exception is
`current_rate`, which its comment allows to be read without the lock.

What is hard: calls overlap at every `await`, some of them with the pool's
lock held and some without; a connect may fail, time out or be cancelled after
its slot was counted; connections die at any time; the cleanup task judges
entries with a clock it read before it got the lock, and is itself cancelled by
`close`; `close` waits for session locks while it holds the pool's lock; and
`close` leaves no mark that the pool is closed. A session is closed and made
again under commands that wait for a permit. Transfers of one path share its
remote parts, whose names and whose `rm` do not tell them apart, and may fail at
every chunk. Processes are killed while they write a session file, and two of
them write the same temporary file. `close_all` of a tunnel goes through a list
that others append to and clear. `PROJECT.json` lists each
hazard with its line and the properties that watch it.

## 2. Modules

| Module | Models | |
|---|---|---|
| `ConnectionPool` | `core/pool.py`, and `connect`, `close`, `is_connected` of `core/session.py` | state machine, properties, inductive invariant |
| `LeasePool` | what a pool promises | abstract specification |
| `ConnectionPoolLease` | `ConnectionPool` implements `LeasePool` | refinement mapping |
| `MCConnectionPool` | constants and symmetry for TLC | |
| `ConnectionPoolProofs` | theorems about `ConnectionPool` | TLAPS |
| `ConnectionPoolLimits` | theorems about its counters, its `close` and the refinement | TLAPS |
| `Client` | the session registry of `core/client.py`, on top of `ConnectionPool` | composition: its steps in the pool are the pool's actions |
| `MCClient` | constants and symmetry for TLC | |
| `ClientProofs` | theorems about `Client` | TLAPS |
| `RateLimiter` | `RateLimiter` on the event loop | state machine, properties |
| `RateLimiterProofs` | theorems about `RateLimiter` | TLAPS |
| `Session` | commands, batches and resumed downloads of `core/session.py` | state machine, properties, fairness |
| `SessionProofs` | theorems about `Session` | TLAPS |
| `Transfer` | `transfer/scp.py`, with the `upload_file` and `download_file` it calls | state machine, properties, fairness |
| `TransferProofs` | theorems about `Transfer` | TLAPS |
| `SessionFile` | `security/file_manager.py` and the file system under it | state machine, refinement mapping |
| `SessionFileProofs` | theorems about `SessionFile`, and that it implements `Vault` | TLAPS |
| `Vault` | what a store of one session file promises | abstract specification |
| `Tunnel` | `integrations/proxy.py` | state machine, properties, fairness |
| `TunnelProofs` | theorems about `Tunnel` | TLAPS |

Definitions marked `mutant:` are faulty variants of the definition that follows
them. They are in no specification; putting one in the place of its original
must break the property it is listed with in `PROJECT.json`, which shows that
the property does depend on that piece of the code.

### ConnectionPool

| Model | Code |
|---|---|
| `pc[t]` | where a task is: which call, and at which `await` |
| `lockq` | `_lock`: its holder, then the waiters in the order they came |
| `entries`, `inUse` | the entries listed in `_pools`, and those with `in_use` |
| `link[c]` | the SSH connection of a session: down, connecting, open, closing |
| `total`, `idle` | `_total_connections`, `_idle_connections` |
| `conn[t]` | the session a call is about |
| `current` | the calls whose local variable `entries` is still the list in `_pools` |
| `staleIdle`, `staleLife` | what exceeds `max_idle_time`, `max_lifetime` at the clock reading of the sweep in progress |
| `todo`, `gone` | what the sweep (or close) still has to visit, and what it removed of a key whose list it has not replaced yet |
| `needed` | iterations left to `ensure_min_connections` |

A step is the code between two suspension points. `get_connection` is
`GetCall`, then with the lock one of `GetReuse`, `GetExhausted`, `GetCreate`,
then without it `ConnectOk` or `ConnectFail`, then with the lock again `Finish`
or `Rollback`. `return_connection` is `RetCall` and one of `RetIdle`,
`RetDead`, `RetUnknown` (whose closing of a live session, still under the lock,
ends with `RetClosed`). Warm-up is `WarmCall` to `WarmEnd`, all connects under
the lock. The cleanup task is `CleanWake` (sleep over, clock read), `CleanBegin`
(lock taken), one `CleanKeep`, `CleanRemove` or `CleanClose`/`CleanClosed` per
entry, `CleanEnd` (idle counted again). `close` is `CloseCall` (the cleanup
task is cancelled where it waits), `CloseQueue`, `CloseBegin`, a step or two
per entry, `CloseEnd`. `Drop` loses a connection, `Cancel` cancels a caller
where it waits, `Adopt` lets a caller bring in a session of its own.

The clock is not a number: when the sweep reads it, some idle entries have
exceeded `max_idle_time` and some entries `max_lifetime`, any of them, the entry
that a warm-up has made and not listed yet among them (`CleanWake`). An entry
used after that reading has `last_used > now`, so `Touch` takes it out of
`staleIdle`: this is what the comparison in `_should_remove` does with an old
`now`.

The rest of the abstraction: a session and its entry are one value; a value
whose session is down, unlisted and unreferenced can stand for a new session
(`Spare`), so runs are not limited in length. The order of a list is not kept:
a reuse takes any fitting entry, sweep and close visit the entries of a key in
any order. A call refused by the pool's rate limiter changes nothing and is no
step. `stats` only reads the two counters. The `Condition` is left out because
nothing waits on it. The session's own lock shows in two places: `close` of a
connecting session has no step until the connect is over, and connects do not
overlap on one session.

Three switches are constants: `UseAfterClose`, `Cancellable`, `ForeignReturns`.
The runs that ask what the pool guarantees to disciplined callers set the first
and the last to FALSE; in `pool_core` callers may be cancelled; `pool_misuse`
sets them all to TRUE; the theorems of `ConnectionPoolProofs` hold for every
setting. A caller here returns a session at most once and not while it uses it.

### Client

| Model | Code |
|---|---|
| `closed` | `_closed` |
| `active` | `_active_sessions`, one name per worker |
| `pooled` | the keys of `_pooled_sessions` |
| `call[t]`, `mine[t]` | where a task is in its client call, and the session it has |
| `named` | the workers whose `connect` has a `session_name` |
| `batch`, `loaned` | the local variables `sessions` and `pooled` of `close_all` |

`Client` extends `ConnectionPool`: a client step that runs in the pool is the
pool's action with what the client does when the pool's call returns, in one
step, because there is no wait in between (`PoolLends` is `GetReuse` or
`Finish` with the registration, `FallBack` is `Rollback` with the turn past the
pool). `ConnectDirect` is `use_pool=False`; `DirectDial`, `DirectOk`,
`DirectFail` open a session without the pool. `CloseSession` and `CloseNamed`
are `close_session`, which `Discard` sends to `return_connection` (`Returning`)
or to the session's own `close` (`HangUp`, `HungUp`). `close_all` is
`CloseAll`, `CloseAllRelease` for each session, `CloseAllPool`, `CloseAllEnd`.
The link of a session that is closed past the pool is `hanging`, a value the
pool's actions wait for as they wait for the session's lock. The client's own lock
guards code without a wait in it and needs no variable.

Users are disciplined: each worker has one session at a time, connects under
its own name and closes the session once. Because `_closed` is looked at before
a connect waits and never after, calls of the pool may still be in flight, and
releases may still come, when the pool is closed: this is
what `PoolStaysClosed`, `ReturnsOnlyLeases` and the run `client_late` are about.

### RateLimiter

`log` is the history of granted requests and the deque is its tail from `lo`
on. Time is in ticks. On the event loop `acquire` and `current_rate` are one
step each, since neither waits while it looks at the deque.

### Session

| Model | Code |
|---|---|
| `closed`, `conn` | `_closed`; `_connection`: `None`, up, or one that `is_closed()` |
| `lock` | `_lock`, held across the dial of `connect` and the `wait_closed` of `close` |
| `pc[c]`, `answer[c]` | where a command is and how it ended |
| `waiting` | the waiters of `_command_semaphore`, whose permits the running commands hold |
| `executed`, `errors` | `commands_executed`, `errors` of `_stats` |
| `dl`, `resume`, `size`, `pos` | `download_file`: where it is, its flag, `remote_size`, the place of the next read |
| `local`, `remote` | the pieces of the local file, the length of the remote one |

`Connect`, `ConnectOk`, `ConnectFails`, `Close` and `CloseEnd` are `connect` and
`close`, `Lose` a connection that breaks. An `execute` that finds a permit is
`Execute`, in the step that looked at `is_connected`; one that does not is
queued, and `Wake` sends it without looking again: `close` may have set
`_connection` to `None` by then, and the `AttributeError` is counted and
reported as a failed command. `Result`, `Fails`, `Refused` and `Cancel` end it.
The commands of `execute_batch` begin in order, `max_concurrent` at a time; with
`parallel=False` that is one. `batch` is their task group: it is joined when all
have ended (`Join`), and it cancels those that have not (`Stop`, one at a time)
when its caller is cancelled (`Quit`), or when a member ends with something the
member itself does not capture. What a member captures is `Captured`; were it
less than all a command may raise, one failing command would cancel the others
and the caller would get no answer at all. `Download` to `DownloadFails` is
`download_file`, called again and again for one local path with and without
`resume`, while the remote file grows (`Grow`).

What is assumed: the remote file is only appended to; with one that is
replaced, `resume` mixes two files. `sftp.get` copies blocks in any order, so one
that breaks off leaves holes (`Torn`), which a later `resume` keeps: it goes by
the length alone. A download in progress may here go on after a reconnect, which
in the code fails it; this only adds behaviours. `stream_command` reads the
connection and changes nothing.

### Transfer

| Model | Code |
|---|---|
| `phase[t]` | where a call is: the single transfer, the probes, the split, the chunk tasks, the cleaning up |
| `need[t]`, `task[t]` | `num_chunks`; the tasks of the group, of which `max_parallel` run |
| `local[t]`, `part`, `target` | the local `.partNNNN` files, the remote ones, the remote file |
| `out[t]` | the file the call made |
| `goal`, `met`, `mingled`, `spoiled`, `litter` | history: the file a call is to make; the calls that overlapped an upload; whether such an upload wrote `target` last; the other uploads whose `cat` failed; whether a call could not remove its remote parts |

A file is a sequence of pieces `<<v, i>>`, the i-th `chunk_size` bytes of version
`v`, or `Short` for a piece that is not all there. `UploadChunkFails` is the
whole way out of a failed upload: the group cancels the other tasks, whose puts
stop anywhere, `finally` removes the local parts, and the remote ones stay. A
failed chunk of a download does not stop the others; `Abort` comes when all have
ended. The remote split takes two steps per part, since another download may
read the part in between; the other remote commands are one step. `RemoveParts`
is `rm -f path.part*`, which takes the parts of every transfer of the path.

Any call may overlap any other, as nothing in the code prevents it, and calls
that an upload overlaps do share its parts: they may put each other's pieces
together. The model keeps all control of such calls and makes their data coarse.
`met` has them. What they read of a piece is `Short`, which is not told from the
right piece by anything they do, what they write may be the piece or `Short`
(`Torn`), their size checks may go either way, and the remote file such an
upload leaves is its own, one it found among the parts, or a beginning of
`Whole(Mixed, ...)`, which stands for all mixtures (`Made`). So a call that no
upload overlapped meets in the parts and at the path everything the overlapping
ones may leave there, and the properties promise the right data for it, and for
it only. Each call has a local path of its own. Not modelled: exceptions of the
progress callback, cancellation of the caller, a remote command that goes on
after its timeout, a local part that cannot be removed, and the length of the
`cat` command, which `execute` refuses above 8192 characters
(`validators.py:298`), so that an upload of about a hundred chunks fails after
all of them have been sent.

### SessionFile and Vault

`target` and `tmp` are the files under `<name>.seshn` and `<name>.tmp`; a file is
known by the process that made it, keeps its content when it is renamed or
unlinked, and stays open in `fd`. `create_session_file` is `Create`, `Open`
(truncates), `Write`, `Replace`, `Return`, or `Fail` and `Recover`; `Crash` kills
its process at any point. A load looks, opens and reads in three steps, a
delete looks and unlinks in two. The content is the process that wrote it whole,
or `Torn`, for which a load raises; that the HMAC and AES-GCM tell these apart is
assumed.

`Vault` is the promise: a create takes effect at one moment or never, even if its
process is killed; it returns only after that moment, raises only if there was
none; a load finds what is stored at one moment of it. While creates overlap it
promises nothing, from the next create that begins alone it promises all of it
again. That exception is the code's: see below.

### Tunnel

| Model | Code |
|---|---|
| `listeners`, `socket` | `_listeners`; the port of each listener |
| `body` | `create_tunnel` |
| `at[k]`, `waits[k]` | of each `close_all`: its place in the list, the listener whose `wait_closed` it awaits |
| `overlapped` | history: a `close_all` began while another was busy |

`Visit` is a turn of the loop over the list as it is by then, or the `clear()`
after the last. `Add`, `Opened`, `OpenFails` are `start_socks_proxy` and
`add_local_forward`; `Onwards` starts `create_tunnel`'s next. `Leave` is its
`finally`. That `wait_closed` ends, without an exception, is assumed of asyncssh.

## 3. Runs

Callers, sessions and capacity are small on purpose: the pool's conflicts are
between one call and one sweep, two calls for one slot, or a call and a close.
Capacity 2 with three callers has a call that finds the pool full, a call that
finds an idle session and one that connects, all at the same time.

| Run | Instance | Shows |
|---|---|---|
| `pool_core` | 3 callers, who may be cancelled, 5 sessions, capacity 2, minimum 1, one key | `Exclusive`, `SweepSparesLeases`, `CapacityRespected`, `IdleIsBounded`, `ClosedMeansNoneOpen`; `SweepEnforcesIdleLimits` |
| `pool_misuse` | 2 callers, 4 sessions, all switches on | `PoolInv`, of which `TypeOK`, `Exclusive` and `SweepSparesLeases` follow, survives misuse |
| `pool_live` | 2 callers, 3 sessions, capacity 2, minimum 1, two keys | `TotalIsExact`; `ImplementsLeasePool`: the refinement, while the lists of two keys are swept in turn; `CallAnswered`, `ReturnCompletes`, `CloseCompletes`, `DeadIdleFreed` |
| `client_core` | 2 workers and `close_all`, 3 sessions, capacity 2 | `ClientTypeOK`, `NothingShared`, `PooledAreTracked`, `NamesAreCurrent`, `PoolStaysClosed`, `ReturnsOnlyLeases` |
| `client_live` | 2 workers and `close_all`, 2 sessions, capacity 1 | `CloseAllCompletes`, `ConnectAnswered` |
| `rate_window` | 3 requests in 3 ticks, 9 ticks | `WindowRespected`, `RefusalJustified`, `RateInv` |
| `session` | a batch of 3 (2 at a time), whose caller may be cancelled, 1 single command, 1 permit, a remote file of 1 to 3 pieces | `ClosedIsFinal`, `StatsAddUp`, `BatchCaptures`, `ResumeKeepsPlace`, `CommandEnds` |
| `transfer` | 2 downloads, 1 upload, in any overlap, 2 chunks, 1 permit | `DownloadExact`, `UploadExact`, `TargetUnmixed`, `NoLocalParts`, `NoRemoteParts`, `TransferEnds` |
| `session_file` | 3 creates, 2 loads at a time, deletes | `ImplementsVault`: the refinement; `TmpIsAccountedFor` |
| `tunnel` | 2 listeners of its own, 2 added, 2 `close_all` besides the last | `NothingForgotten`, `TornDown`, `TunnelEnds` |

`Conns` bounds the sessions alive at a time. Five are enough for three callers
because a call holds one and the pool lists at most two that no caller has,
except for entries leaked as described below or by a cancelled call, which use
up the bound: when no value is left, new calls and warm-ups have no step, so
only behaviours with several leaks are cut. In the client's runs three sessions
let both workers have one while the pool keeps a third; when none is left, a
connect past the pool fails, which it may do anyway. `Horizon` bounds the clock
of the limiters: nine ticks are three windows of three, so entries expire, are
pruned by every operation and the window fills again. One permit and two members
of a batch at a time make every command but one wait for each of the semaphores.
Two chunks and one permit have a chunk that waits while the other runs or fails;
chunks of one call beside each other, and of two uploads, are not in this run
but in the theorems, and what calls do to each other's parts is in both: two
downloads are enough for each to spoil the parts of the other, and an upload
before, beside or after them meets what they left, or spoils it. A third create
is the one that begins alone after two that overlapped. Deadlock is not checked
in the pool's and the client's runs, since a closed pool has nothing left to do;
it is checked in that of the limiter, which never stops; nor is it checked in
the other runs, whose calls are made once.

Fairness (`pool_live`) is weak fairness of each caller's call in progress, of
the cleanup task and of `close`. The event loop runs each ready task, `asyncio.Lock`
is first come first served, a connect ends by `SSHConfig.timeout`, closing a
session ends after 5 seconds by `abort`, and the sleep by
`cleanup_interval`. Nothing is assumed of callers starting or returning, of the
network, or of anybody calling `close`. `client_live` assumes the same of
client calls and of the pool below them. Its `close_all` has strong fairness:
a sweep is cut into one step per entry between which the event loop runs
nothing else, `CloseAllPool` is disabled there and enabled again whenever the
cleanup task waits or sleeps, and by weak fairness alone an endless
alternation of sweep and sleep could pass it over, which the loop's queue of
ready tasks does not.

In `session`, weak fairness says that a command that was sent ends, by its
timeout at the latest, that a waiter gets its permit when it is there, that a
member its group has cancelled stops, and that `connect` and `close` end, by their
timeouts. In `transfer` it is that of each call in progress: its chunks,
commands and downloads end in one way or another. In `tunnel` it is that of each
`close_all` in progress and of a closed listener's port. In all three the
semaphores of asyncio are first come first served, and nothing is assumed of
callers.

### Where the code does not do what is said

Two runs end in a counterexample, each to one sentence of the repository.

| Run | Sentence | What happens |
|---|---|---|
| `pool_orphan` | "accounting rolled back if the attempt fails" (CHANGELOG.md:245) | a call connects, a sweep replaces the key's list (`pool.py:274`), the connect fails, and the rollback removes the entry from the old list: it stays listed as in use until `close` |
| `client_late` | "Closes/releases every tracked session and shuts down the connection pool." (README.md:198) | a connect that had passed the check of `_closed` registers its open session after `close_all` (`client.py:118`); a second `close_all` returns at once |

The others are plain from the text and have no run.

* A call cancelled while it connects keeps its slot: `CancelledError` is not an
  `Exception` (`pool.py:177`; CHANGELOG.md:245 as above).
* A connect that fails, or a session returned, after `close` has reset the
  counters is subtracted from the new count, and calls that go on exceed the
  "absolute maximum number of concurrent connections" (`pool.py:26`).
* A session in use survives every sweep (`pool.py:263`), while README.md:263 has
  "any connection beyond `max_lifetime`" closed. A sweep closes idle sessions
  without regard to `min_connections`, while its docstring says "Maintain
  min_connections if possible." (`pool.py:251`).
* A pooled connect whose dial fails is tried again past the pool (`client.py:110`)
  after its slot was given back, so more than `max_connections` connections may
  be open.
* Two threads that read `current_rate` may test one entry of the deque and pop
  two: "Only prune clearly-expired entries (safe even without the lock"
  (`config.py:80`).
* `stats` has a count of "reconnects" (README.md:229) that nothing increments.
* An upload whose `cat` fails on the server reports success, and the parts are
  gone (`scp.py:119`; README.md:414 has it reassembled). `UploadExact` names these
  uploads (`spoiled`) and says that all others are right.
* Two transfers of one path at once, one of them an upload, put their parts under the
  same names (`scp.py:104`, `scp.py:193`), and either may report success for a file
  made of both, while README.md:414 has an upload's own chunks reassembled. `met` and
  `mingled` name these calls, `TargetUnmixed` says that nothing else does it.
* Two processes that create one session file at once write one temporary file,
  and the first renames what the second has just truncated, while README.md:297
  has it written "atomically". `Vault` names these creates (`overlap`).
* Two `close_all` of one tunnel at once: the first clears the list, a listener is
  added, and the second, whose index is past it, clears the list again, so that
  it stays open, while README.md:340 has "every listener" closed.
  `NothingForgotten` names the overlap.

`TotalIsExact` leaves the orphans of the first finding out of the count it
compares with: the leaked entries are in the lists, but the counter was lowered
for them.

## 4. Proofs

Every safety property, action property and refinement that a run checks is also
a theorem, proved by TLAPS for all values of the constants that satisfy the
assumptions of the module.

| Module | Theorems | Of every |
|---|---|---|
| `ConnectionPoolProofs` | `PoolInvariant` (`PoolInv`), `PoolTypes`, `ExclusiveTheorem`, `SweepTheorem` (`SweepSparesLeases`), `SweepLimitsTheorem` (`SweepEnforcesIdleLimits`), `IdleTheorem` (`IdleIsBounded`) | set of callers, sessions and keys, capacity, setting of the switches |
| `ConnectionPoolLimits` | `LimitInvariant`, `CapacityTheorem`, `TotalTheorem` (`TotalIsExact`), `ClosedTheorem` (`ClosedMeansNoneOpen`), `LeaseTheorem` (`ImplementsLeasePool`) | the same, for `Disciplined` callers; `TotalTheorem` if none is cancelled |
| `ClientProofs` | `ClientInvariant`, `ClientTypes`, `SharedTheorem` (`NothingShared`), `TrackedTheorem` (`PooledAreTracked`), `NamesTheorem`, `ReturnsTheorem`, `PoolStaysClosedTheorem` | set of workers, sessions and keys, capacity |
| `RateLimiterProofs` | `RateInvariant`, `WindowTheorem`, `RefusalTheorem` | limit and window |
| `SessionProofs` | `SessionInvariant`, `SessionTypes`, `ClosedTheorem` (`ClosedIsFinal`), `StatsTheorem`, `BatchTheorem`, `ResumeTheorem` | size of batch and file, number of permits |
| `TransferProofs` | `TransferInvariant`, `TransferTypes`, `DownloadTheorem`, `UploadTheorem`, `TargetTheorem`, `LocalPartsTheorem`, `RemotePartsTheorem` | set of uploads and downloads, number of chunks, `max_parallel` |
| `SessionFileProofs` | `FileInvariant`, `FileTypes`, `TmpTheorem`, `VaultTheorem` (`ImplementsVault`) | set of creating and loading processes |
| `TunnelProofs` | `TunnelInvariant`, `ForgottenTheorem`, `TornDownTheorem` | number of listeners and of tasks that call `close_all` |

The assumptions are that capacities and sizes are numbers, positive where the
code would have no use for zero, that `min_connections` is at most
`max_connections` (`pool.py:43`), and that the names of different things
differ: the cleanup task is no caller, a process does not create and load at
once, "no piece" and a broken piece are not pieces, no session is `NoConn`.

Each proof has the same form: an inductive invariant, which TLC checked as an
invariant of the run before it was proved; one lemma per action that the step
keeps it, with one step per conjunct, or group of conjuncts, that the action can
disturb; and from it the properties.

### The pool

Neither `Exclusive` nor `SweepSparesLeases` is inductive. That two callers never
share a session needs to know that an entry not in use is nobody's, also for
calls that have set a session aside but not listed it (`EntryInv`, `ConnInv`);
that needs the mutual exclusion of everything done with the lock held across a
wait (`LockInv`), because a sweep's view of the lists (`SweepInv`: what it still
has to visit is listed, what it removed is not in use) must stay valid between
its steps. That a sweep closes no lent session needs to know who can be closing
what (`ClosingInv`), that the cleanup task is gone once `close` waits for the
lock (`StopInv`), and that a connecting session is not taken for a dead one
(`LinkInv`). `PoolInv` is the conjunction; `pool_misuse` checks it. The lemmas on
the queue (`EnqueueLemma`, `ReleaseLemma`, `LeaveLemma`, `OneOwner`, `Joined`,
`MovedUp`) are the only facts about sequences.

On top of it, `SweptInv` says that what a sweep in progress has visited and keeps
is within its limits or in use, and `IdleInv` that `_idle_connections` lies
between the idle sessions that work and all that are idle. The latter holds
between sweeps only: an entry that a sweep removes lowers the upper bound before
the recount at the sweep's end, and nobody else can use the counter until then,
as the sweep has the lock.

`ConnectionPoolLimits` is about `Disciplined` callers, who stop asking when
`close` is called and return only what they got. Both are needed: TLC finds
`ClosedMeansNoneOpen` violated without either, and so is `CapacityRespected`, with
a capacity of one; these are the cases of section 3, where a subtraction comes
after the reset of the counter, or for what was never counted. Callers may be
cancelled wherever they wait. Only that the counter is exact needs that they
are not, since a cancelled call leaves its slot counted.

`LimitInv` says what the counter counts (`CountInv`): it is at least the number of
entries that a caller may still return or a sweep remove, or that a cancelled
caller has left with their connection, and exactly that if nobody is cancelled.
It says further that every connection is counted before it is
opened, but for the one a warm-up is opening with the lock held (`LiveInv`), that
a caller's entry is listed until `close` is through (`HeldInv`), and, which is
the heart of it, that every call that will still open a connection stands before
`close` in the queue of the lock, so that it is counted and listed when `close`
begins (`AheadInv`, `CloseInv`); a caller that quits the queue leaves the others
in their order (`AheadQuits`).

`LeaseTheorem` is the simulation of `LeasePool`: under the mapping of
`ConnectionPoolLease` each step of the pool is a grant, a return, a change of one
connection, a step of the closing, or nothing; a cancelled call abandons the
connection it waits for, or gives one back.

### The client

The client is not a caller of the pool such as `PoolInv` describes: when
`close_all` takes a session over, its worker still has it, and both may refer to
it. `ClientInv` is the invariant of the composition, and says of the pool's part
what remains true. A session lent to a worker that is asking or returning, or
that is still in `_pooled_sessions`, is referred to by nobody else (`SoleInv`),
the registry has exactly what is lent (`TrackInv`), and what is lent or taken
over is listed as in use until the pool is closed (`ListInv`), so that nobody
else can be given it. That needs the lock's queue once more: `close_all` and the
close of the pool stand behind every worker that still asks (`QueueInv`).
`DialInv`, `HangInv` and `EndInv` say for each connection that is being opened
or closed by whom it is, `FoundInv` that every connection is listed or
somebody's, and `ShutInv` that `close_all` closes the pool when it has nothing
left to release; `PoolStaysClosed` follows from the last two.

### The limiter, the session and the tunnel

The limiter's `RateInv` says that what was dropped from the deque has expired,
that what is left is in order, and that at most `max_requests` are left: the
request `max_requests` places before a new one has therefore been dropped, so
it is more than a window old. And once the leftmost entry has not expired, all
that are left are in the window, so a full deque justifies a refusal.

`SessionInv` adds to the properties what they need of each other's variables.
That no member breaks the batch (`BatchInv`) rests on each ending of a command being
one that a member captures, and on `Stop` being possible only once the caller
was cancelled. A
command counts once because it has an answer exactly when it is done
(`QueueInv`), and that is so because who waits for a permit waits once and is
not done: this is the part that `Wake`, `Cancel` and a queued `execute` might
disturb. The pieces of a resumed file are right because an append goes on where
the local file ends and the file it was told of is still there (`FileInv`).

`TunnelInv` says how far each `close_all` has got. Alone, it has closed what is
before its place and what is open is in the list (`AloneInv`), so that clearing
forgets nothing. `TornDown` also has to hold when they overlap. Until the list is
cleared for the first time it begins with the listeners of `create_tunnel`, and
every `close_all` has seen those before its place closed (`Uncleared`): who
clears it has seen all of them closed, and from then on they stay so (`OwnDown`).
For that nothing may be added before they are all open (`OwnInv`).

### Transfers

The remote parts are shared, and the proof is about what may be found in one.
While a download goes on that no upload overlaps, nobody changes the remote
file, so a split of another download can only put the same piece in a part, or
begin to, and its `rm` can only take it away: a part that a download has had
split off is the piece, not all of it, or not there (`DownloadInv`). A chunk
that was got is therefore the piece or too short, and the check of the size
tells. The split itself goes through the parts in order, and those it has passed
fit. Of two calls under way together, one of them an upload, both are in `met`
(`AloneInv`); an upload that is not has been alone, so what its chunks have put
is still its own when the group is joined (`UploadInv`), whatever other
transfers had left there, and the `cat` of it is the file (`CatWhole`), or a
beginning of it when it stops (`Beginnings`). `TargetInv` follows the remote
file through both kinds of upload: it is a beginning of `Mixed` only while the
last to write it was one that overlapped. Local parts are there while chunks go
on and after a failure, under the tasks the property names (`LocalInv`); as long
as no call had to leave remote parts, those that are there belong to one that
will remove them (`PartsInv`).

### Session files

`FileInv` says which process has which file open, whose content it is, and that
only the file under the temporary name is written to, so that what has been
renamed stays whole (`NameInv`, `FdInv`); and that a create no other overlaps has
the temporary name for itself (`AloneInv`). With it each step of the model is a
step of `Vault` or none: the rename of a create that is alone stores its own
content, and a load returns what was stored at the moment it opened the file.
`TmpIsAccountedFor` is a part of `NameInv`.

### Only model-checked

Liveness under fairness, which with ENABLED is beyond the prover: `CallAnswered`,
`ReturnCompletes`, `CloseCompletes`, `DeadIdleFreed`, `CloseAllCompletes`,
`ConnectAnswered`, `CommandEnds`, `TransferEnds`, `TunnelEnds`. The type
invariants of the pool, the session, the transfers, the files and the tunnel are
theorems, in inductive invariants or by themselves, and in no run.

## 5. Not modelled, and what is next

Next are the hazards without a property, first those of users less disciplined
than `Client` has them.

Partly modelled: `Client` has workers with one session and one name each, which
they close once. Two connects under one name (the second replaces the first in
the registry, and `close_all` does not release the first), a session that is
closed twice (by then it may be another user's, under whom it is returned to
the pool), and commands by name (the session may be returned and lent to
another user while the command waits for its permit) are hazards without a
property.

Not modelled:

* `InputValidator`: regular expressions over characters, without state.
* The cryptography of `SessionFileManager`, taken as said above, and
  `list_sessions`, which only reads the directory.
* `retry`: a bounded loop around one call. `timing` only prints.
* `WebhookManager`: a loop over a list that only grows, in which every exception
  is swallowed; Discord and Telegram are one request each.
* `SessionRecorder`, `SessionReplayer`: a list, written and read by one task.
* Docker helpers (one command line each), `AuditLogger`, `SecureMemory`,
  exceptions and exports: no protocol.
