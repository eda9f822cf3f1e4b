-------------------------------- MODULE Session --------------------------------
(***************************************************************************)
(* core/session.py: commands, batches and resumed downloads of one         *)
(* FastSSHSession, while its connection is lost, made again and closed.    *)
(*                                                                         *)
(* Commands 1 .. Batch are those of one execute_batch, the others are      *)
(* executed on their own; parallel=False is MaxConcurrent = 1.  The group  *)
(* of a batch cancels its members when its caller is cancelled, and when   *)
(* one of them ends with what it does not capture.  A step lasts from one  *)
(* suspension to the next: an execute that finds a permit is sent in the   *)
(* step that checked is_connected.                                         *)
(*                                                                         *)
(* The remote file of the download is appended to by others (a log); its   *)
(* k-th piece is k.  upload_file and the plain download_file are in        *)
(* Transfer; stream_command changes nothing of the session.                *)
(***************************************************************************)
EXTENDS Naturals, SequencesExt

CONSTANTS
    Batch,           \* commands of the batch
    Solo,            \* commands executed on their own
    MaxConcurrent,   \* max_concurrent of the batch
    Permits,         \* of _command_semaphore, 10 in the code
    FileSize,        \* bound: how far the remote file grows
    Hole             \* a piece of the local file that was never written

ASSUME SessionAssumption ==
    /\ Batch \in Nat /\ Solo \in Nat
    /\ {MaxConcurrent, Permits, FileSize} \subseteq Nat \ {0}

Members  == 1 .. Batch
Commands == 1 .. Batch + Solo

VARIABLES
    closed,             \* _closed
    conn,               \* _connection: "none" (None), "up", or "down" (is_closed())
    lock,               \* _lock: "free", or who has it across a wait
    pc, answer,         \* of each command: where it is, how it ended
    waiting,            \* waiters of _command_semaphore
    executed, errors,   \* of _stats
    batch,              \* of the TaskGroup: "open", "returned", or its members are
                        \* cancelled: "quit" with its caller, "broken" by one of them
    dl, resume,         \* the download: where it is, and its flag
    size, pos,          \* remote_size, and where the next read is
    local, remote       \* pieces of the local file; length of the remote one

link     == <<closed, conn, lock>>
commands == <<pc, answer, waiting, executed, errors, batch>>
file     == <<dl, resume, size, pos, local, remote>>
vars     == <<link, commands, file>>

Init ==
    /\ closed = FALSE /\ conn = "none" /\ lock = "free"
    /\ pc = [c \in Commands |-> "new"] /\ answer = [c \in Commands |-> "none"]
    /\ waiting = <<>> /\ executed = 0 /\ errors = 0 /\ batch = "open"
    /\ dl = "idle" /\ resume = FALSE /\ size = 0 /\ pos = 1
    /\ local = <<>> /\ remote = 1

IsConnected == ~closed /\ conn = "up"

-----------------------------------------------------------------------------
(* connect and close, which exclude each other by _lock *)

Connect ==
    /\ lock = "free" /\ ~IsConnected /\ ~closed
    /\ lock' = "connect"
    /\ UNCHANGED <<closed, conn, commands, file>>

ConnectOk ==
    /\ lock = "connect"
    /\ conn' = "up" /\ lock' = "free"
    /\ UNCHANGED <<closed, commands, file>>

ConnectFails ==
    /\ lock = "connect"
    /\ lock' = "free"
    /\ UNCHANGED <<closed, conn, commands, file>>

Lose ==
    /\ conn = "up" /\ conn' = "down"
    /\ UNCHANGED <<closed, lock, commands, file>>

\* mutant: does not wait for a connect under way
CloseUnlocked ==
    /\ lock # "close" /\ ~closed
    /\ closed' = TRUE
    /\ IF conn = "up" THEN conn' = "down" /\ lock' = "close"
                      ELSE conn' = "none" /\ UNCHANGED lock
    /\ UNCHANGED <<commands, file>>
Close ==
    /\ lock = "free" /\ ~closed
    /\ closed' = TRUE
    /\ IF conn = "up" THEN conn' = "down" /\ lock' = "close"
                      ELSE conn' = "none" /\ UNCHANGED lock
    /\ UNCHANGED <<commands, file>>

\* wait_closed is over, or given up for abort()
CloseEnd ==
    /\ lock = "close"
    /\ conn' = "none" /\ lock' = "free"
    /\ UNCHANGED <<closed, commands, file>>

-----------------------------------------------------------------------------
(* execute and execute_batch *)

Running == {c \in Commands : pc[c] = "running"}

\* what a member turns into an answer; mutant: except AIOSSHCommandError
CapturedCommandErrors == {"error"}
Captured == {"error", "refused"}

\* The group cancels the other members when one ends with anything else.
Answered(c, a) ==
    /\ pc' = [pc EXCEPT ![c] = "done"]
    /\ answer' = [answer EXCEPT ![c] = a]
    /\ batch' = IF c \in Members /\ batch = "open" /\ a \notin Captured \cup {"result"}
                THEN "broken" ELSE batch

\* not a member that the group has cancelled, which goes on no more
GoesOn(c) == c \in Members => batch = "open"

\* TaskGroup and Semaphore(max_concurrent): members begin in order
Begins(c) ==
    /\ pc[c] = "new" /\ GoesOn(c)
    /\ c \in Members =>
        /\ \A b \in 1 .. c - 1 : pc[b] # "new"
        /\ Cardinality({b \in Members : pc[b] \in {"queued", "running"}}) < MaxConcurrent

\* Not connected, or not a valid command
Refused(c) ==
    /\ Begins(c)
    /\ Answered(c, "refused")
    /\ UNCHANGED <<link, waiting, executed, errors, file>>

\* self._connection.run, an AttributeError if close() has set it to None
\* mutant: the permit is not given back then
SendsHolding(c) ==
    /\ pc' = [pc EXCEPT ![c] = "running"] /\ UNCHANGED batch
    /\ IF conn # "none" THEN UNCHANGED <<answer, errors>>
       ELSE answer' = [answer EXCEPT ![c] = "error"] /\ errors' = errors + 1
Sends(c) ==
    IF conn # "none" THEN pc' = [pc EXCEPT ![c] = "running"] /\ UNCHANGED <<answer, errors, batch>>
    ELSE Answered(c, "error") /\ errors' = errors + 1

Execute(c) ==
    /\ Begins(c) /\ IsConnected
    /\ IF waiting = <<>> /\ Cardinality(Running) < Permits
       THEN Sends(c) /\ UNCHANGED waiting
       ELSE /\ pc' = [pc EXCEPT ![c] = "queued"] /\ waiting' = Append(waiting, c)
            /\ UNCHANGED <<answer, errors, batch>>
    /\ UNCHANGED <<link, executed, file>>

\* the first waiter gets a permit; is_connected is not looked at again
Wake(c) ==
    /\ waiting # <<>> /\ c = Head(waiting) /\ Cardinality(Running) < Permits /\ GoesOn(c)
    /\ waiting' = Tail(waiting)
    /\ Sends(c)
    /\ UNCHANGED <<link, executed, file>>

\* A result; exit_code may be None, when the connection was lost.
Result(c) ==
    /\ pc[c] = "running" /\ answer[c] = "none" /\ GoesOn(c)
    /\ Answered(c, "result")
    /\ executed' = executed + 1
    /\ UNCHANGED <<link, waiting, errors, file>>

\* TimeoutError, or any other exception; mutant: a timeout counts as both
FailsTwice(c) ==
    /\ pc[c] = "running" /\ answer[c] = "none" /\ GoesOn(c)
    /\ Answered(c, "error")
    /\ errors' = errors + 1
    /\ executed' \in {executed, executed + 1}
    /\ UNCHANGED <<link, waiting, file>>
Fails(c) ==
    /\ pc[c] = "running" /\ answer[c] = "none" /\ GoesOn(c)
    /\ Answered(c, "error")
    /\ errors' = errors + 1
    /\ UNCHANGED <<link, waiting, executed, file>>

\* A command that is cancelled where it waits leaves the queue.
Leaves(c) ==
    /\ Answered(c, "cancelled")
    /\ IF pc[c] = "queued"
       THEN \E i \in DOMAIN waiting : waiting[i] = c /\ waiting' = RemoveAt(waiting, i)
       ELSE UNCHANGED waiting
    /\ UNCHANGED <<link, executed, errors, file>>

\* by the cancellation of its caller, of a command of its own
Cancel(c) == c \notin Members /\ pc[c] \in {"queued", "running"} /\ Leaves(c)

\* by its group
Stop(c) == c \in Members /\ batch \in {"quit", "broken"} /\ pc[c] # "done" /\ Leaves(c)

\* The caller of execute_batch is cancelled; the group cancels its members.
Quit ==
    /\ batch = "open" /\ batch' = "quit"
    /\ UNCHANGED <<link, pc, answer, waiting, executed, errors, file>>

\* the answers of all members are returned
Join ==
    /\ batch = "open" /\ \A c \in Members : pc[c] = "done"
    /\ batch' = "returned"
    /\ UNCHANGED <<link, pc, answer, waiting, executed, errors, file>>

-----------------------------------------------------------------------------
(* download_file to one local path, tried again and again *)

Download ==
    /\ dl \notin {"stat", "get", "append"} /\ IsConnected
    /\ dl' = "stat" /\ resume' \in BOOLEAN /\ size' = 0
    /\ UNCHANGED <<link, commands, pos, local, remote>>

\* sftp.stat, then the size of what is there already
\* mutant: the remote file is read from its beginning
StatUnsought ==
    /\ dl = "stat" /\ conn = "up"
    /\ size' = remote
    /\ dl' = IF ~resume \/ local = <<>> THEN "get"
             ELSE IF Len(local) >= remote THEN "ok" ELSE "append"
    /\ UNCHANGED <<link, commands, resume, pos, local, remote>>
Stat ==
    /\ dl = "stat" /\ conn = "up"
    /\ size' = remote
    /\ dl' = IF ~resume \/ local = <<>> THEN "get"
             ELSE IF Len(local) >= remote THEN "ok" ELSE "append"
    /\ pos' = IF dl' = "append" THEN Len(local) + 1 ELSE 1
    /\ UNCHANGED <<link, commands, resume, local, remote>>

\* one read of the rest, to be appended, or the end of the file
AppendRest ==
    /\ dl = "append" /\ conn = "up"
    /\ IF pos <= remote
       THEN local' = Append(local, pos) /\ pos' = pos + 1 /\ UNCHANGED dl
       ELSE dl' = "ok" /\ pos' = 1 /\ UNCHANGED local
    /\ UNCHANGED <<link, commands, resume, size, remote>>

\* sftp.get copies blocks in any order: if it breaks off, some are missing.
Torn(n) == {f \in [1 .. n -> 1 .. n \cup {Hole}] :
              (\A k \in 1 .. n : f[k] \in {k, Hole}) /\ (n > 0 => f[n] = n)}
Get ==
    /\ dl = "get" /\ conn = "up"
    /\ local' = [k \in 1 .. remote |-> k]
    /\ dl' = "ok"
    /\ UNCHANGED <<link, commands, resume, size, pos, remote>>

\* the connection, the remote or the local file fails
DownloadFails ==
    /\ dl \in {"stat", "get", "append"}
    /\ local' \in {local} \cup (IF dl = "get" THEN UNION {Torn(n) : n \in 0 .. remote} ELSE {})
    /\ dl' = "idle" /\ resume' = FALSE /\ size' = 0 /\ pos' = 1
    /\ UNCHANGED <<link, commands, remote>>

Grow ==
    /\ remote < FileSize /\ remote' = remote + 1
    /\ UNCHANGED <<link, commands, dl, resume, size, pos, local>>

-----------------------------------------------------------------------------
(* Specification *)

Progress(c) == Execute(c) \/ Refused(c) \/ Wake(c) \/ Result(c) \/ Fails(c) \/ Stop(c)
DownloadStep == Stat \/ AppendRest \/ Get \/ DownloadFails

Next ==
    \/ Connect \/ ConnectOk \/ ConnectFails \/ Lose \/ Close \/ CloseEnd
    \/ \E c \in Commands : Progress(c) \/ Cancel(c)
    \/ Quit \/ Join
    \/ Download \/ DownloadStep \/ Grow

Spec == Init /\ [][Next]_vars

\* A command that was sent ends by its timeout, close by its 5 seconds; the
\* semaphores are first come first served.
FairSpec ==
    /\ Spec
    /\ WF_vars(ConnectOk \/ ConnectFails) /\ WF_vars(CloseEnd)
    /\ \A c \in Commands : WF_vars(Progress(c))

-----------------------------------------------------------------------------
(* Properties *)

TypeOK ==
    /\ closed \in BOOLEAN /\ conn \in {"none", "up", "down"}
    /\ lock \in {"free", "connect", "close"}
    /\ pc \in [Commands -> {"new", "queued", "running", "done"}]
    /\ answer \in [Commands -> {"none", "result", "error", "refused", "cancelled"}]
    /\ waiting \in Seq(Commands) /\ {executed, errors} \subseteq Nat
    /\ batch \in {"open", "quit", "broken", "returned"}
    /\ local \in Seq(1 .. FileSize \cup {Hole})
    /\ dl \in {"idle", "stat", "get", "append", "ok"} /\ resume \in BOOLEAN
    /\ size \in 0 .. FileSize /\ pos \in 1 .. FileSize + 1 /\ remote \in 1 .. FileSize

\* A session whose close() has ended has no connection and never gets one,
\* a connect that was under way included (session.py:136-142, 482-500).
ClosedIsFinal == closed /\ lock # "close" => conn = "none" /\ lock = "free"

\* Every command that got a permit and ended, whether by a result, a timeout,
\* a lost connection or a closed session, is counted once, and no command that
\* was refused or cancelled (session.py:285-323).
StatsAddUp ==
    /\ executed = Cardinality({c \in Commands : answer[c] = "result"})
    /\ errors = Cardinality({c \in Commands : answer[c] = "error"})

\* "per-command failures are captured" (README.md:231): whatever a member of a
\* batch ends with, and whenever the session is lost or closed under it, the
\* group cancels no other one for it, and when it returns every member has an
\* answer; members are cancelled only with the caller (session.py:325-348).
BatchCaptures ==
    /\ \A c \in Members : answer[c] = "cancelled" => batch = "quit"
    /\ batch = "returned" => \A c \in Members : answer[c] \in {"result", "error", "refused"}

\* However often it is interrupted and resumed while the remote file grows,
\* the local file has the right pieces in the right places, but for the holes
\* of an interrupted get, and all of them up to the size it was told when a
\* download succeeds (session.py:405-460).
ResumeKeepsPlace ==
    /\ \A k \in DOMAIN local : local[k] \in {k, Hole}
    /\ dl = "ok" => Len(local) >= size /\ (resume \/ \A k \in DOMAIN local : local[k] = k)

\* A command that waits for a permit or for its result ends, whatever becomes
\* of the session (session.py:283-323).
CommandEnds == \A c \in Commands : pc[c] \in {"queued", "running"} ~> pc[c] = "done"
===============================================================================
