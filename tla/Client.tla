-------------------------------- MODULE Client --------------------------------
(***************************************************************************)
(* core/client.py: the session registry of AIOSSH on top of the pool.      *)
(*                                                                         *)
(* The steps of a client call that run in the pool are the pool's own      *)
(* actions, joined with what the client does when the pool's call returns. *)
(* The client's lock guards code without an await in it, so it is never    *)
(* waited for and has no variable; the same holds for its rate limiters,   *)
(* whose refusals change nothing.                                          *)
(*                                                                         *)
(* A link is "hanging" while a session.close() of the client ends it: the  *)
(* pool's sweep and close() wait for it, as they wait for the session's    *)
(* lock.                                                                   *)
(*                                                                         *)
(* Each worker has one session at a time, which it closes once, by name or *)
(* as an object; the name it connects under is its own.  The manager is    *)
(* the task that calls close_all: a session of its own would be one more   *)
(* worker's.                                                               *)
(***************************************************************************)
EXTENDS ConnectionPool

CONSTANTS
    Manager,   \* the task that calls close_all
    Bypass     \* may workers connect with use_pool=False?

Workers == Callers \ {Manager}

ASSUME ClientAssumption == Manager \in Callers /\ Bypass \in BOOLEAN

VARIABLES
    closed,   \* _closed
    active,   \* _active_sessions: the session under each worker's name, or NoConn
    pooled,   \* keys of _pooled_sessions
    call,     \* where each task is in its client call
    mine,     \* the session a task was given, or is opening or closing itself
    named,    \* workers whose connect was given a session_name
    batch,    \* sessions close_all has still to release
    loaned    \* the copy of _pooled_sessions close_all made

client == <<closed, active, pooled, call, mine, named, batch, loaned>>
clientVars == <<vars, client>>

ClientInit ==
    /\ Init
    /\ closed = FALSE
    /\ active = [n \in Workers |-> NoConn]
    /\ pooled = {}
    /\ call = [t \in Callers |-> "out"]
    /\ mine = [t \in Callers |-> NoConn]
    /\ named = {}
    /\ batch = {} /\ loaned = {}

-----------------------------------------------------------------------------
(* Helpers *)

Enter(t, label) == call' = [call EXCEPT ![t] = label]
Has(t, c)       == mine' = [mine EXCEPT ![t] = c]

\* sessions the client still refers to
Known == {mine[t] : t \in Callers} \cup {active[n] : n \in Workers} \cup pooled \cup batch

\* a release goes back to its caller: close_session or the loop of close_all
Released(t) == Enter(t, IF t = Manager THEN "closeall" ELSE "out")

\* self._active_sessions[session_name] = session
Register(t, c) ==
    active' = IF t \in named THEN [active EXCEPT ![t] = c] ELSE active

-----------------------------------------------------------------------------
(* connect *)

\* mutant: _closed is not looked at
ConnectUnchecked(t) ==
    /\ call[t] = "out" /\ mine[t] = NoConn
    /\ GetCall(t) /\ conn'[t] \notin Known
    /\ named' \in {named \ {t}, named \cup {t}}
    /\ Enter(t, "connect")
    /\ UNCHANGED <<closed, active, pooled, mine, batch, loaned>>

Connect(t) ==
    /\ ~closed
    /\ call[t] = "out" /\ mine[t] = NoConn
    /\ GetCall(t) /\ conn'[t] \notin Known
    /\ named' \in {named \ {t}, named \cup {t}}
    /\ Enter(t, "connect")
    /\ UNCHANGED <<closed, active, pooled, mine, batch, loaned>>

\* use_pool=False
ConnectDirect(t) ==
    /\ Bypass /\ ~closed
    /\ call[t] = "out" /\ mine[t] = NoConn
    /\ named' \in {named \ {t}, named \cup {t}}
    /\ Enter(t, "direct")
    /\ UNCHANGED <<vars, closed, active, pooled, mine, batch, loaned>>

\* get_connection goes on
PoolDials(t) ==
    /\ call[t] = "connect"
    /\ GetCreate(t) \/ ConnectOk(t) \/ ConnectFail(t)
    /\ UNCHANGED client

\* mutant: the session is not entered in _pooled_sessions
PoolLendsUntracked(t) ==
    /\ call[t] = "connect"
    /\ GetReuse(t) \/ Finish(t)
    /\ Register(t, conn'[t]) /\ Has(t, conn'[t]) /\ Enter(t, "out")
    /\ UNCHANGED <<closed, pooled, named, batch, loaned>>

\* get_connection returns; _closed is not looked at again
PoolLends(t) ==
    /\ call[t] = "connect"
    /\ GetReuse(t) \/ Finish(t)
    /\ pooled' = pooled \cup {conn'[t]}
    /\ Register(t, conn'[t])
    /\ Has(t, conn'[t])
    /\ Enter(t, "out")
    /\ UNCHANGED <<closed, named, batch, loaned>>

\* AIOSSHPoolExhaustedError is passed on
PoolFull(t) ==
    /\ call[t] = "connect"
    /\ GetExhausted(t)
    /\ Enter(t, "out")
    /\ UNCHANGED <<closed, active, pooled, mine, named, batch, loaned>>

\* any other exception: a session past the pool
FallBack(t) ==
    /\ call[t] = "connect"
    /\ Rollback(t)
    /\ Enter(t, "direct")
    /\ UNCHANGED <<closed, active, pooled, mine, named, batch, loaned>>

DirectDial(t) ==
    /\ call[t] = "direct" /\ mine[t] = NoConn
    /\ \E c \in Spare \ Known : SetLink(c, "connecting") /\ Has(t, c)
    /\ UNCHANGED <<pc, lockq, conn, pool, current, sweep, needed>>
    /\ UNCHANGED <<closed, active, pooled, call, named, batch, loaned>>

DirectOk(t) ==
    /\ call[t] = "direct" /\ mine[t] # NoConn
    /\ SetLink(mine[t], "open")
    /\ Register(t, mine[t])
    /\ Enter(t, "out")
    /\ UNCHANGED <<pc, lockq, conn, pool, current, sweep, needed>>
    /\ UNCHANGED <<closed, pooled, mine, named, batch, loaned>>

\* Also taken when the bound Conns leaves no object for another session.
DirectFail(t) ==
    /\ call[t] = "direct"
    /\ mine[t] # NoConn \/ Spare \ Known = {}
    /\ link' = [c \in Conns |-> IF c = mine[t] THEN "down" ELSE link[c]]
    /\ Has(t, NoConn) /\ Enter(t, "out")
    /\ UNCHANGED <<pc, lockq, conn, pool, current, sweep, needed>>
    /\ UNCHANGED <<closed, active, pooled, named, batch, loaned>>

-----------------------------------------------------------------------------
(* close_session and _release_session *)

\* `for k, v in items(): if v is session: del ...; break`: one name goes
Unname(c) ==
    IF \E n \in Workers : active[n] = c
    THEN \E n \in Workers : active[n] = c /\ active' = [active EXCEPT ![n] = NoConn]
    ELSE UNCHANGED active

\* Session c is released by t: return_connection if it came from the pool,
\* else session.close().
Discard(t, c, fromPool) ==
    IF fromPool
    THEN /\ Holds(t, c) /\ Goto(t, "ret") /\ Enqueue(t)
         /\ Has(t, NoConn) /\ Enter(t, "release")
    ELSE /\ Holds(t, NoConn) /\ Goto(t, "idle") /\ UNCHANGED lockq
         /\ Has(t, c) /\ Enter(t, "hangup")

\* mutant: the session keeps its name
CloseSessionNamed(t) ==
    /\ t \in Workers /\ call[t] = "out" /\ mine[t] # NoConn
    /\ Discard(t, mine[t], mine[t] \in pooled)
    /\ pooled' = pooled \ {mine[t]}
    /\ UNCHANGED <<link, pool, current, sweep, needed, closed, active, named, batch, loaned>>

\* mutant: looks the session up and forgets it only after the release
CloseSessionKept(t) ==
    /\ t \in Workers /\ call[t] = "out" /\ mine[t] # NoConn
    /\ Discard(t, mine[t], mine[t] \in pooled)
    /\ UNCHANGED <<link, pool, current, sweep, needed, closed, active, pooled, named, batch, loaned>>

CloseSession(t) ==
    /\ t \in Workers /\ call[t] = "out" /\ mine[t] # NoConn
    /\ Discard(t, mine[t], mine[t] \in pooled)
    /\ Unname(mine[t])
    /\ pooled' = pooled \ {mine[t]}
    /\ UNCHANGED <<link, pool, current, sweep, needed, closed, named, batch, loaned>>

\* By name: after close_all the name is gone and nothing happens.
CloseNamed(t) ==
    /\ t \in Workers /\ call[t] = "out"
    /\ active[t] # NoConn
    /\ Discard(t, active[t], active[t] \in pooled)
    /\ active' = [active EXCEPT ![t] = NoConn]
    /\ pooled' = pooled \ {active[t]}
    /\ UNCHANGED <<link, pool, current, sweep, needed, closed, named, batch, loaned>>

\* return_connection goes on
Returning(t) ==
    /\ call[t] = "release"
    /\ RetIdle(t) \/ RetDead(t) \/ RetUnknown(t) \/ RetClosed(t)
    /\ IF pc'[t] = "idle" THEN Released(t) ELSE UNCHANGED call
    /\ UNCHANGED <<closed, active, pooled, mine, named, batch, loaned>>

\* session.close(), once no other close() of the session is under way
HangUp(t) ==
    /\ call[t] = "hangup" /\ Connected(mine[t])
    /\ SetLink(mine[t], "hanging")
    /\ Enter(t, "hungup")
    /\ UNCHANGED <<pc, lockq, conn, pool, current, sweep, needed>>
    /\ UNCHANGED <<closed, active, pooled, mine, named, batch, loaned>>

HungUp(t) ==
    /\ \/ call[t] = "hungup"
       \/ call[t] = "hangup" /\ link[mine[t]] = "down"
    /\ SetLink(mine[t], "down")
    /\ Has(t, NoConn) /\ Released(t)
    /\ UNCHANGED <<pc, lockq, conn, pool, current, sweep, needed>>
    /\ UNCHANGED <<closed, active, pooled, named, batch, loaned>>

-----------------------------------------------------------------------------
(* close_all *)

\* mutant: closing goes by a name without a session, too
CloseAllBlank ==
    /\ call[Manager] = "out" /\ ~closed
    /\ closed' = TRUE
    /\ batch' = {active[n] : n \in Workers}
    /\ active' = [n \in Workers |-> NoConn]
    /\ loaned' = pooled /\ pooled' = {}
    /\ Enter(Manager, "closeall")
    /\ UNCHANGED <<vars, mine, named>>

CloseAll ==
    /\ call[Manager] = "out" /\ ~closed
    /\ closed' = TRUE
    /\ batch' = {active[n] : n \in Workers} \ {NoConn}
    /\ active' = [n \in Workers |-> NoConn]
    /\ loaned' = pooled
    /\ pooled' = {}
    /\ Enter(Manager, "closeall")
    /\ UNCHANGED <<vars, mine, named>>

CloseAllRelease(c) ==
    /\ call[Manager] = "closeall" /\ c \in batch
    /\ batch' = batch \ {c}
    /\ Discard(Manager, c, c \in loaned)
    /\ UNCHANGED <<link, pool, current, sweep, needed, closed, active, pooled, named, loaned>>

\* self._pool.close(), which the pool's Closer carries out
CloseAllPool ==
    /\ call[Manager] = "closeall" /\ batch = {}
    /\ CloseCall
    /\ loaned' = {}
    /\ Enter(Manager, "shutdown")
    /\ UNCHANGED <<closed, active, pooled, mine, named, batch>>

CloseAllEnd ==
    /\ call[Manager] = "shutdown" /\ pc[Closer] = "done"
    /\ Enter(Manager, "out")
    /\ UNCHANGED <<vars, closed, active, pooled, mine, named, batch, loaned>>

-----------------------------------------------------------------------------
(* Specification.  AIOSSH warms nothing up and cancels no caller. *)

TaskStep(t) ==
    \/ PoolDials(t) \/ PoolLends(t) \/ PoolFull(t) \/ FallBack(t)
    \/ DirectDial(t) \/ DirectOk(t) \/ DirectFail(t)
    \/ Returning(t) \/ HangUp(t) \/ HungUp(t)

CloseAllStep == CloseAllPool \/ CloseAllEnd \/ \E c \in Conns : CloseAllRelease(c)

ClientNext ==
    \/ \E t \in Callers : TaskStep(t)
    \/ CloseAllStep
    \/ (CleanerStep \/ CloserStep) /\ UNCHANGED client
    \/ \E t \in Workers : Connect(t) \/ ConnectDirect(t) \/ CloseSession(t) \/ CloseNamed(t)
    \/ CloseAll
    \/ (Start \/ \E c \in Conns : Drop(c)) /\ UNCHANGED client

ClientSpec == ClientInit /\ [][ClientNext]_clientVars

\* As in ConnectionPool: what has been called goes on.  Nobody has to call.
\* A sweep is cut into steps between which the loop runs no other task;
\* close_all, disabled there, has its turn when the sweep waits: strong
\* fairness.
ClientFairness ==
    /\ \A t \in Callers : WF_clientVars(TaskStep(t))
    /\ SF_clientVars(CloseAllStep)
    /\ WF_clientVars(CleanerStep /\ UNCHANGED client)
    /\ WF_clientVars(CloserStep /\ UNCHANGED client)

FairClientSpec == ClientSpec /\ ClientFairness

-----------------------------------------------------------------------------
(* Properties *)

ClientTypeOK ==
    /\ link \in [Conns -> {"down", "connecting", "open", "closing", "hanging"}]
    /\ closed \in BOOLEAN
    /\ active \in [Workers -> Conns \cup {NoConn}]
    /\ call \in [Callers -> {"out", "connect", "direct", "release", "hangup",
                             "hungup", "closeall", "shutdown"}]
    /\ mine \in [Callers -> Conns \cup {NoConn}]
    /\ named \subseteq Workers
    /\ pooled \subseteq Conns /\ batch \subseteq Conns /\ loaned \subseteq Conns

\* Two users of an open client never have the same session, whether from
\* the pool or past it (client.py:96-119, 148-192).
NothingShared ==
    ~closed => \A t, u \in Callers : t # u /\ mine[t] = mine[u] => mine[t] = NoConn

\* "tracks pooled sessions and returns them to the pool" (CHANGELOG.md:273):
\* _pooled_sessions has exactly the pool's sessions that users have.
PooledAreTracked ==
    ~closed => pooled = {mine[t] : t \in {u \in Workers : pc[u] = "using"}}

\* A session goes by at most one name, which the break in close_session
\* relies on, and only while somebody has it (client.py:154-157).
NamesAreCurrent ==
    \A n \in Workers : active[n] # NoConn =>
        /\ \A m \in Workers : active[m] = active[n] => m = n
        /\ mine[n] = active[n]

\* The client gives back to the pool only what the pool has lent and not
\* got back, close_session overtaking close_all included: a second return
\* would count the entry as idle twice (client.py:158-159, 169-173).
ReturnsOnlyLeases ==
    [][\A t \in Callers : call[t] = "release" /\ (RetIdle(t) \/ RetDead(t)) =>
         conn[t] \in inUse]_clientVars

\* The client asks the pool for nothing after it has closed it.  What was lent
\* before may still be given back, and is closed for it; what stays open was
\* opened past the pool and is its user's (client.py:79, 165, 176).
PoolStaysClosed ==
    pc[Closer] = "done" => \A c \in Physical : c \in {mine[t] : t \in Callers} /\ c \notin entries

\* close_all ends, whatever calls it overtakes (client.py:162-176).
CloseAllCompletes == closed ~> (closed /\ call[Manager] = "out")

\* connect ends with a session or an error (client.py:96-119).
ConnectAnswered == \A t \in Workers : call[t] \in {"connect", "direct"} ~> call[t] = "out"

-----------------------------------------------------------------------------
(* What documents and comments say and the code does not do *)

\* "Closes/releases every tracked session and shuts down the connection
\* pool" (README.md:198): once close_all is through, nothing tracked is open.
NothingOpenAfterCloseAll ==
    closed /\ call[Manager] = "out" =>
        \A n \in Workers : active[n] # NoConn => ~Connected(active[n])

===============================================================================
