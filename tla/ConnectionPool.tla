---------------------------- MODULE ConnectionPool ----------------------------
(***************************************************************************)
(* core/pool.py: ConnectionPool, with the part of core/session.py it       *)
(* drives (FastSSHSession.connect, close and is_connected).                *)
(*                                                                         *)
(* asyncio runs one task at a time and switches only at an await, so an    *)
(* action is the code between two suspension points.  Those are: waiting   *)
(* for the pool's lock, connecting, closing a live session, the cleanup    *)
(* task's sleep, and the caller's own use of a session.  A sweep is cut    *)
(* finer, one action per entry, so a sweep or a close visits the entries   *)
(* in every order.                                                         *)
(*                                                                         *)
(* A session and its pool entry are one element of Conns.  An object that  *)
(* is closed, unlisted and unreferenced may be used again as a fresh one   *)
(* (Spare), so the number of calls is not bounded, only the number of      *)
(* sessions alive at a time.                                               *)
(***************************************************************************)
EXTENDS Integers, Sequences, FiniteSets

CONSTANTS
    Callers,         \* tasks that use the pool
    Cleaner,         \* the task of _periodic_cleanup
    Closer,          \* the task that calls close()
    Conns,           \* FastSSHSession objects alive at a time (bound)
    NoConn,          \* "no session"
    KeyOf,           \* KeyOf[c]: _make_key of the SSHConfig session c is built from
    SampleKey,       \* key of the config given to ensure_min_connections
    MaxConnections,  \* PoolConfig.max_connections
    MinConnections,  \* PoolConfig.min_connections
    UseAfterClose,   \* may callers go on asking after close() was called?
    Cancellable,     \* may a caller's task be cancelled while it waits?
    ForeignReturns   \* may a caller hand in a session the pool never made?

Tasks == Callers \cup {Cleaner, Closer}

ASSUME CapacityAssumption ==
    /\ MaxConnections \in Nat \ {0}
    /\ MinConnections \in Nat
    /\ MinConnections <= MaxConnections

ASSUME TaskAssumption ==
    /\ Cleaner \notin Callers
    /\ Closer \notin Callers
    /\ Cleaner # Closer

ASSUME ConnAssumption ==
    /\ NoConn \notin Conns
    /\ IsFiniteSet(Conns)
    /\ KeyOf = [c \in Conns |-> KeyOf[c]]

ASSUME SwitchAssumption ==
    {UseAfterClose, Cancellable, ForeignReturns} \subseteq BOOLEAN

VARIABLES
    pc,         \* where each task is
    lockq,      \* asyncio.Lock: its holder, then the waiters in FIFO order
    conn,       \* the session (and entry) a caller's call refers to
    link,       \* state of each session's SSH connection
    entries,    \* entries listed in _pools
    inUse,      \* listed entries with in_use = True
    total,      \* _total_connections
    idle,       \* _idle_connections
    current,    \* callers whose local `entries` is still the list in _pools
    staleIdle,  \* expired by max_idle_time at the sweep's reading of the clock
    staleLife,  \* expired by max_lifetime at that reading
    todo,       \* entries the sweep or close() in progress has still to visit
    gone,       \* swept entries of a key whose list is not replaced yet
    needed      \* iterations left to ensure_min_connections

pool  == <<entries, inUse, total, idle>>
sweep == <<staleIdle, staleLife, todo, gone>>
vars  == <<pc, lockq, conn, link, entries, inUse, total, idle, current,
           staleIdle, staleLife, todo, gone, needed>>

-----------------------------------------------------------------------------
(* Helpers *)

\* asyncio.Lock is granted in FIFO order; its holder stands at the head.
Owns(t)       == lockq # <<>> /\ Head(lockq) = t
Enqueue(t)    == lockq' = Append(lockq, t)
Release       == lockq' = Tail(lockq)
Queued(t)     == \E i \in 1..Len(lockq) : lockq[i] = t
Without(q, t) == LET i == CHOOSE j \in 1..Len(q) : q[j] = t
                 IN  SubSeq(q, 1, i - 1) \o SubSeq(q, i + 1, Len(q))
Leave(t)      == lockq' = IF Queued(t) THEN Without(lockq, t) ELSE lockq

Goto(t, label) == pc' = [pc EXCEPT ![t] = label]
Holds(t, c)    == conn' = [conn EXCEPT ![t] = c]
SetLink(c, s)  == link' = [link EXCEPT ![c] = s]

\* max(0, m - n)
Minus(m, n) == IF m > n THEN m - n ELSE 0

\* entry.last_used = now: too recent for the clock a waiting sweep has read
Touch(c) == staleIdle' = staleIdle \ {c} /\ UNCHANGED staleLife

\* the entry object is dropped
Forget(c) == staleIdle' = staleIdle \ {c} /\ staleLife' = staleLife \ {c}

\* FastSSHSession.is_connected
Connected(c) == link[c] = "open"

\* session objects that can stand for a freshly built one
Spare == {c \in Conns : /\ link[c] = "down"
                        /\ c \notin entries
                        /\ \A t \in Callers : conn[t] # c}

\* close() keeps no flag: nothing but the callers' discipline stops later calls
Serving == UseAfterClose \/ pc[Closer] = "open"

WarmPc  == {"warm", "warmloop", "warmconn"}
Warming == \E t \in Callers : pc[t] \in WarmPc     \* self._warming

Init ==
    /\ pc = [t \in Tasks |-> IF t \in Callers THEN "idle"
                             ELSE IF t = Cleaner THEN "off" ELSE "open"]
    /\ lockq = <<>>
    /\ conn = [t \in Callers |-> NoConn]
    /\ link = [c \in Conns |-> "down"]
    /\ entries = {} /\ inUse = {}
    /\ total = 0 /\ idle = 0
    /\ current = {}
    /\ staleIdle = {} /\ staleLife = {} /\ todo = {} /\ gone = {}
    /\ needed = 0

-----------------------------------------------------------------------------
(* get_connection *)

\* A rate-limited call raises before anything changes, so it is not a step.
\* The session the call may have to build is chosen here; its key is the
\* key of the caller's config.
GetCall(t) ==
    /\ pc[t] = "idle" /\ Serving
    /\ \E c \in Spare : Holds(t, c)
    /\ Goto(t, "get") /\ Enqueue(t)
    /\ UNCHANGED <<link, pool, current, sweep, needed>>

Reusable(t) == {c \in entries \ inUse : Connected(c) /\ KeyOf[c] = KeyOf[conn[t]]}

\* mutant: in_use is not set on reuse
GetReuseUnmarked(t) ==
    /\ Owns(t) /\ pc[t] = "get"
    /\ \E c \in Reusable(t) : Holds(t, c) /\ Touch(c)
    /\ idle' = idle - 1
    /\ Goto(t, "using") /\ Release
    /\ UNCHANGED <<link, entries, inUse, total, current, todo, gone, needed>>

GetReuse(t) ==
    /\ Owns(t) /\ pc[t] = "get"
    /\ \E c \in Reusable(t) :
         /\ inUse' = inUse \cup {c}
         /\ Holds(t, c)
         /\ Touch(c)
    /\ idle' = idle - 1
    /\ Goto(t, "using") /\ Release
    /\ UNCHANGED <<link, entries, total, current, todo, gone, needed>>

\* mutant: the exhausted call raises without releasing the lock
GetExhaustedLocked(t) ==
    /\ Owns(t) /\ pc[t] = "get"
    /\ Reusable(t) = {} /\ total >= MaxConnections
    /\ Holds(t, NoConn) /\ Goto(t, "idle")
    /\ UNCHANGED <<lockq, link, pool, current, sweep, needed>>

GetExhausted(t) ==
    /\ Owns(t) /\ pc[t] = "get"
    /\ Reusable(t) = {}
    /\ total >= MaxConnections
    /\ Holds(t, NoConn) /\ Goto(t, "idle") /\ Release
    /\ UNCHANGED <<link, pool, current, sweep, needed>>

\* mutant: the slot is not taken before connecting
GetCreateLate(t) ==
    /\ Owns(t) /\ pc[t] = "get"
    /\ Reusable(t) = {} /\ total < MaxConnections
    /\ entries' = entries \cup {conn[t]} /\ inUse' = inUse \cup {conn[t]}
    /\ current' = current \cup {t}
    /\ SetLink(conn[t], "connecting")
    /\ Goto(t, "connect") /\ Release
    /\ UNCHANGED <<conn, total, idle, sweep, needed>>

\* The slot is taken under the lock; connecting goes on without the lock.
GetCreate(t) ==
    /\ Owns(t) /\ pc[t] = "get"
    /\ Reusable(t) = {}
    /\ total < MaxConnections
    /\ entries' = entries \cup {conn[t]}
    /\ inUse' = inUse \cup {conn[t]}
    /\ total' = total + 1
    /\ current' = current \cup {t}
    /\ SetLink(conn[t], "connecting")
    /\ Goto(t, "connect") /\ Release
    /\ UNCHANGED <<conn, idle, sweep, needed>>

ConnectOk(t) ==
    /\ pc[t] = "connect"
    /\ SetLink(conn[t], "open")
    /\ Goto(t, "finish") /\ Enqueue(t)
    /\ UNCHANGED <<conn, pool, current, sweep, needed>>

\* mutant: the session's lock is kept when connecting has failed
ConnectFailLocked(t) ==
    /\ pc[t] = "connect"
    /\ Goto(t, "rollback") /\ Enqueue(t)
    /\ UNCHANGED <<conn, link, pool, current, sweep, needed>>

\* refused, failed authentication, or SSHConfig.timeout expired
ConnectFail(t) ==
    /\ pc[t] = "connect"
    /\ SetLink(conn[t], "down")
    /\ Goto(t, "rollback") /\ Enqueue(t)
    /\ UNCHANGED <<conn, pool, current, sweep, needed>>

Finish(t) ==
    /\ Owns(t) /\ pc[t] = "finish"
    /\ Touch(conn[t])
    /\ current' = current \ {t}
    /\ Goto(t, "using") /\ Release
    /\ UNCHANGED <<conn, link, pool, todo, gone, needed>>

\* mutant: the count drops only when the entry was found
RollbackIfFound(t) ==
    /\ Owns(t) /\ pc[t] = "rollback"
    /\ IF t \in current
       THEN /\ entries' = entries \ {conn[t]} /\ inUse' = inUse \ {conn[t]}
            /\ total' = Minus(total, 1)
       ELSE UNCHANGED <<entries, inUse, total>>
    /\ Forget(conn[t]) /\ current' = current \ {t}
    /\ Holds(t, NoConn) /\ Goto(t, "idle") /\ Release
    /\ UNCHANGED <<link, idle, todo, gone, needed>>

\* mutant: the slot is given back twice
RollbackTwice(t) ==
    /\ Owns(t) /\ pc[t] = "rollback"
    /\ entries' = entries \ {conn[t]} /\ inUse' = inUse \ {conn[t]}
    /\ total' = Minus(total, 2)
    /\ Forget(conn[t]) /\ current' = current \ {t}
    /\ Holds(t, NoConn) /\ Goto(t, "idle") /\ Release
    /\ UNCHANGED <<link, idle, todo, gone, needed>>

\* The entry is removed from the list the call looked up before connecting,
\* which a sweep may have replaced in _pools since.
Rollback(t) ==
    /\ Owns(t) /\ pc[t] = "rollback"
    /\ IF t \in current
       THEN /\ entries' = entries \ {conn[t]}
            /\ inUse' = inUse \ {conn[t]}
       ELSE UNCHANGED <<entries, inUse>>
    /\ total' = Minus(total, 1)
    /\ Forget(conn[t])
    /\ current' = current \ {t}
    /\ Holds(t, NoConn) /\ Goto(t, "idle") /\ Release
    /\ UNCHANGED <<link, idle, todo, gone, needed>>

-----------------------------------------------------------------------------
(* return_connection.  notify_all is left out: nothing waits on the Condition. *)

RetCall(t) ==
    /\ pc[t] = "using"
    /\ Goto(t, "ret") /\ Enqueue(t)
    /\ UNCHANGED <<conn, link, pool, current, sweep, needed>>

RetIdle(t) ==
    /\ Owns(t) /\ pc[t] = "ret"
    /\ conn[t] \in entries /\ Connected(conn[t])
    /\ inUse' = inUse \ {conn[t]}
    /\ idle' = idle + 1
    /\ Touch(conn[t])
    /\ Holds(t, NoConn) /\ Goto(t, "idle") /\ Release
    /\ UNCHANGED <<link, entries, total, current, todo, gone, needed>>

RetDead(t) ==
    /\ Owns(t) /\ pc[t] = "ret"
    /\ conn[t] \in entries /\ ~Connected(conn[t])
    /\ entries' = entries \ {conn[t]}
    /\ inUse' = inUse \ {conn[t]}
    /\ total' = Minus(total, 1)
    /\ idle' = IF conn[t] \in inUse THEN idle ELSE Minus(idle, 1)
    /\ Forget(conn[t])
    /\ Holds(t, NoConn) /\ Goto(t, "idle") /\ Release
    /\ UNCHANGED <<link, current, todo, gone, needed>>

\* Not listed, under its key or at all: the count drops and the session is
\* closed while the lock is held.
RetUnknown(t) ==
    /\ Owns(t) /\ pc[t] = "ret"
    /\ conn[t] \notin entries
    /\ total' = Minus(total, 1)
    /\ IF Connected(conn[t])
       THEN /\ SetLink(conn[t], "closing")
            /\ Goto(t, "retclose")
            /\ UNCHANGED <<conn, lockq>>
       ELSE /\ Holds(t, NoConn) /\ Goto(t, "idle") /\ Release
            /\ UNCHANGED link
    /\ UNCHANGED <<entries, inUse, idle, current, sweep, needed>>

RetClosed(t) ==
    /\ pc[t] = "retclose"
    /\ SetLink(conn[t], "down")
    /\ Holds(t, NoConn) /\ Goto(t, "idle") /\ Release
    /\ UNCHANGED <<pool, current, sweep, needed>>

-----------------------------------------------------------------------------
(* ensure_min_connections: the lock is held from the count to the last connect *)

WarmCall(t) ==
    /\ pc[t] = "idle" /\ Serving
    /\ MinConnections > 0 /\ ~Warming
    /\ Goto(t, "warm") /\ Enqueue(t)
    /\ UNCHANGED <<conn, link, pool, current, sweep, needed>>

WarmBegin(t) ==
    /\ Owns(t) /\ pc[t] = "warm"
    /\ needed' = Minus(MinConnections, idle)
    /\ Goto(t, "warmloop")
    /\ UNCHANGED <<lockq, conn, link, pool, current, sweep>>

WarmSpare == {c \in Spare : KeyOf[c] = SampleKey}

WarmDial(t) ==
    /\ pc[t] = "warmloop"
    /\ needed > 0 /\ total < MaxConnections
    /\ \E c \in WarmSpare : Holds(t, c) /\ SetLink(c, "connecting")
    /\ Goto(t, "warmconn")
    /\ UNCHANGED <<lockq, pool, current, sweep, needed>>

WarmOk(t) ==
    /\ pc[t] = "warmconn"
    /\ SetLink(conn[t], "open")
    /\ entries' = entries \cup {conn[t]}
    /\ total' = total + 1
    /\ idle' = idle + 1
    /\ needed' = needed - 1
    /\ Holds(t, NoConn) /\ Goto(t, "warmloop")
    /\ UNCHANGED <<lockq, inUse, current, sweep>>

\* mutant: a failed warm-up leaves the lock held
WarmFailLocked(t) ==
    /\ pc[t] = "warmconn"
    /\ SetLink(conn[t], "down") /\ needed' = 0 /\ Forget(conn[t])
    /\ Holds(t, NoConn) /\ Goto(t, "idle")
    /\ UNCHANGED <<lockq, pool, current, todo, gone>>

\* "Best effort warm-up": the first failure ends the loop.
WarmFail(t) ==
    /\ pc[t] = "warmconn"
    /\ SetLink(conn[t], "down")
    /\ needed' = 0 /\ Forget(conn[t])
    /\ Holds(t, NoConn) /\ Goto(t, "idle") /\ Release
    /\ UNCHANGED <<pool, current, todo, gone>>

\* Also taken when the bound Conns leaves no object for another session.
WarmEnd(t) ==
    /\ pc[t] = "warmloop"
    /\ \/ needed = 0
       \/ total >= MaxConnections
       \/ WarmSpare = {}
    /\ needed' = 0
    /\ Goto(t, "idle") /\ Release
    /\ UNCHANGED <<conn, link, pool, current, sweep>>

-----------------------------------------------------------------------------
(* start, _periodic_cleanup, _cleanup_expired, _should_remove *)

Start ==
    /\ pc[Cleaner] = "off" /\ pc[Closer] = "open"
    /\ Goto(Cleaner, "sleep")
    /\ UNCHANGED <<lockq, conn, link, pool, current, sweep, needed>>

\* An entry of the warm-up has its times before it connects and is listed.
WarmingUp == {conn[t] : t \in {u \in Callers : pc[u] = "warmconn"}}

\* The sleep ends: the clock is read before the lock is awaited.
CleanWake ==
    /\ pc[Cleaner] = "sleep"
    /\ \E I \in SUBSET ((WarmingUp \cup entries) \ inUse), L \in SUBSET (WarmingUp \cup entries) :
         staleIdle' = I /\ staleLife' = L
    /\ Goto(Cleaner, "clean") /\ Enqueue(Cleaner)
    /\ UNCHANGED <<conn, link, pool, current, todo, gone, needed>>

CleanBegin ==
    /\ Owns(Cleaner) /\ pc[Cleaner] = "clean"
    /\ todo' = entries
    /\ Goto(Cleaner, "sweep")
    /\ UNCHANGED <<lockq, conn, link, pool, current, staleIdle, staleLife, gone, needed>>

\* mutant: is_connected is not looked at
ShouldRemoveByAge(c) == c \in staleIdle \/ c \in staleLife

\* mutant: the lifetime is not looked at
ShouldRemoveByIdleness(c) == ~Connected(c) \/ c \in staleIdle

\* staleIdle has lost every entry used since the clock was read
ShouldRemove(c) == ~Connected(c) \/ c \in staleIdle \/ c \in staleLife

\* mutant: in_use is not looked at
DoomedInUse(c) == ShouldRemove(c)

Doomed(c)       == ShouldRemove(c) /\ c \notin inUse

SameKey(c) == {d \in entries : KeyOf[d] = KeyOf[c]}

\* One key after the other: another key is not half visited.
InOrder(c) == \A d \in todo : KeyOf[d] # KeyOf[c] => SameKey(d) \subseteq todo

\* Entry c has been dealt with.  After the last entry of its key the key's
\* list is replaced by a new one without the removed entries.
Visited(c, removed) ==
    LET drop == IF removed THEN gone \cup {c} ELSE gone
    IN  /\ todo' = todo \ {c}
        /\ IF SameKey(c) \cap todo = {c}
           THEN /\ entries' = entries \ drop
                /\ gone' = {}
                /\ current' = {t \in current : KeyOf[conn[t]] # KeyOf[c]}
           ELSE /\ gone' = drop
                /\ UNCHANGED <<entries, current>>

CleanKeep(c) ==
    /\ pc[Cleaner] = "sweep" /\ c \in todo /\ InOrder(c)
    /\ ~Doomed(c)
    /\ Visited(c, FALSE)
    /\ UNCHANGED <<pc, lockq, conn, link, inUse, total, idle, staleIdle, staleLife, needed>>

\* A session that is not connected closes without suspending the sweep.
CleanRemove(c) ==
    /\ pc[Cleaner] = "sweep" /\ c \in todo /\ InOrder(c)
    /\ Doomed(c) /\ link[c] = "down"
    /\ total' = Minus(total, 1)
    /\ Visited(c, TRUE)
    /\ UNCHANGED <<pc, lockq, conn, link, inUse, idle, staleIdle, staleLife, needed>>

CleanClose(c) ==
    /\ pc[Cleaner] = "sweep" /\ c \in todo /\ InOrder(c)
    /\ Doomed(c) /\ Connected(c)
    /\ SetLink(c, "closing")
    /\ Goto(Cleaner, "sweepwait")
    /\ UNCHANGED <<lockq, conn, pool, current, sweep, needed>>

CleanClosed(c) ==
    /\ pc[Cleaner] = "sweepwait" /\ c \in todo /\ link[c] = "closing"
    /\ SetLink(c, "down")
    /\ total' = Minus(total, 1)
    /\ Visited(c, TRUE)
    /\ Goto(Cleaner, "sweep")
    /\ UNCHANGED <<lockq, conn, inUse, idle, staleIdle, staleLife, needed>>

\* mutant: idle is not counted again after the sweep
CleanEndNoRecount ==
    /\ pc[Cleaner] = "sweep" /\ todo = {}
    /\ staleIdle' = {} /\ staleLife' = {}
    /\ Goto(Cleaner, "sleep") /\ Release
    /\ UNCHANGED <<conn, link, pool, current, todo, gone, needed>>

CleanEnd ==
    /\ pc[Cleaner] = "sweep" /\ todo = {}
    /\ idle' = Cardinality({c \in entries \ inUse : Connected(c)})
    /\ staleIdle' = {} /\ staleLife' = {}
    /\ Goto(Cleaner, "sleep") /\ Release
    /\ UNCHANGED <<conn, link, entries, inUse, total, current, todo, gone, needed>>

-----------------------------------------------------------------------------
(* close *)

\* The sweep is at a session that somebody else is closing, and waits for the
\* session's own lock; else "sweep" is not a suspension point.
SweepWaits == \E c \in todo : InOrder(c) /\ Doomed(c) /\ link[c] \notin {"down", "open"}

\* The cleanup task is cancelled where it waits and ends; a sweep stops in
\* the middle, the session it was closing is closed but still listed.
CloseCall ==
    /\ pc[Closer] = "open"
    /\ pc[Cleaner] = "sweep" => SweepWaits
    /\ pc' = [pc EXCEPT ![Closer] = "stopping", ![Cleaner] = "off"]
    /\ Leave(Cleaner)
    /\ link' = [c \in Conns |->
                  IF pc[Cleaner] = "sweepwait" /\ c \in todo /\ link[c] = "closing"
                  THEN "down" ELSE link[c]]
    /\ todo' = {} /\ staleIdle' = {} /\ staleLife' = {}
    /\ UNCHANGED <<conn, pool, current, gone, needed>>

CloseQueue ==
    /\ pc[Closer] = "stopping"
    /\ Goto(Closer, "close") /\ Enqueue(Closer)
    /\ UNCHANGED <<conn, link, pool, current, sweep, needed>>

CloseBegin ==
    /\ Owns(Closer) /\ pc[Closer] = "close"
    /\ todo' = entries
    /\ Goto(Closer, "closing")
    /\ UNCHANGED <<lockq, conn, link, pool, current, staleIdle, staleLife, gone, needed>>

\* close() of a session that is still connecting waits for the session's own
\* lock, which connect() holds: no step here until link[c] has settled.
CloseEntry(c) ==
    /\ pc[Closer] = "closing" /\ c \in todo
    /\ Connected(c)
    /\ SetLink(c, "closing")
    /\ Goto(Closer, "closewait")
    /\ UNCHANGED <<lockq, conn, pool, current, sweep, needed>>

\* mutant: close() does not wait for a session that is connecting
CloseEntryUnlocked(c) ==
    /\ pc[Closer] = "closing" /\ c \in todo
    /\ link[c] \in {"down", "connecting"}
    /\ todo' = todo \ {c}
    /\ UNCHANGED <<pc, lockq, conn, link, pool, current, staleIdle, staleLife, gone, needed>>

CloseEntryDead(c) ==
    /\ pc[Closer] = "closing" /\ c \in todo
    /\ link[c] = "down"
    /\ todo' = todo \ {c}
    /\ UNCHANGED <<pc, lockq, conn, link, pool, current, staleIdle, staleLife, gone, needed>>

CloseEntryDone(c) ==
    /\ pc[Closer] = "closewait" /\ c \in todo /\ link[c] = "closing"
    /\ SetLink(c, "down")
    /\ todo' = todo \ {c}
    /\ Goto(Closer, "closing")
    /\ UNCHANGED <<lockq, conn, pool, current, staleIdle, staleLife, gone, needed>>

\* Every key is deleted and the counters are reset.
CloseEnd ==
    /\ pc[Closer] = "closing" /\ todo = {}
    /\ entries' = {} /\ inUse' = {} /\ gone' = {}
    /\ total' = 0 /\ idle' = 0
    /\ Goto(Closer, "done") /\ Release
    /\ UNCHANGED <<conn, link, current, staleIdle, staleLife, todo, needed>>

-----------------------------------------------------------------------------
(* Environment *)

\* The server, the network or a keepalive timeout ends a connection.
Drop(c) ==
    /\ Connected(c)
    /\ SetLink(c, "down")
    /\ UNCHANGED <<pc, lockq, conn, pool, current, sweep, needed>>

\* A caller opens a session by itself and will hand it to return_connection.
Adopt(t) ==
    /\ ForeignReturns
    /\ pc[t] = "idle"
    /\ \E c \in Spare : Holds(t, c) /\ SetLink(c, "open")
    /\ Goto(t, "using")
    /\ UNCHANGED <<lockq, pool, current, sweep, needed>>

\* CancelledError at the await a call is suspended in.  `except Exception`
\* does not catch it, so get_connection rolls nothing back; the lock is left
\* by async with.  A cancelled return leaves the session with its caller.
CancelPc == {"get", "connect", "finish", "rollback", "ret", "retclose", "warm", "warmconn"}

Cancel(t) ==
    /\ Cancellable
    /\ pc[t] \in CancelPc
    /\ IF pc[t] = "ret"
       THEN Goto(t, "using") /\ UNCHANGED conn
       ELSE Goto(t, "idle") /\ Holds(t, NoConn)
    /\ IF pc[t] \in {"connect", "retclose", "warmconn"}
       THEN SetLink(conn[t], "down")
       ELSE UNCHANGED link
    /\ IF pc[t] = "warmconn"
       THEN needed' = 0 /\ Forget(conn[t])
       ELSE UNCHANGED <<needed, staleIdle, staleLife>>
    /\ current' = current \ {t}
    /\ Leave(t)
    /\ UNCHANGED <<pool, todo, gone>>

-----------------------------------------------------------------------------
(* Steps a caller's task takes once it has called, and those of the others *)

CallerStep(t) ==
    \/ GetReuse(t) \/ GetExhausted(t) \/ GetCreate(t)
    \/ ConnectOk(t) \/ ConnectFail(t) \/ Finish(t) \/ Rollback(t)
    \/ RetIdle(t) \/ RetDead(t) \/ RetUnknown(t) \/ RetClosed(t)
    \/ WarmBegin(t) \/ WarmDial(t) \/ WarmOk(t) \/ WarmFail(t) \/ WarmEnd(t)

CleanerStep ==
    \/ CleanWake \/ CleanBegin \/ CleanEnd
    \/ \E c \in Conns : \/ CleanKeep(c) \/ CleanRemove(c)
                        \/ CleanClose(c) \/ CleanClosed(c)

CloserStep ==
    \/ CloseQueue \/ CloseBegin \/ CloseEnd
    \/ \E c \in Conns : CloseEntry(c) \/ CloseEntryDead(c) \/ CloseEntryDone(c)

Environment ==
    \/ Start \/ CloseCall
    \/ \E t \in Callers : GetCall(t) \/ RetCall(t) \/ WarmCall(t) \/ Adopt(t) \/ Cancel(t)
    \/ \E c \in Conns : Drop(c)

Next ==
    \/ \E t \in Callers : CallerStep(t)
    \/ CleanerStep
    \/ CloserStep
    \/ Environment

Spec == Init /\ [][Next]_vars

\* The event loop runs every task that can go on; connecting ends by
\* SSHConfig.timeout, closing by its 5 s timeout and abort(), the cleanup's
\* sleep by cleanup_interval.  Nothing obliges callers to call or to return,
\* connections to drop, or anyone to close the pool.
Fairness ==
    /\ \A t \in Callers : WF_vars(CallerStep(t))
    /\ WF_vars(CleanerStep)
    /\ WF_vars(CloserStep)

FairSpec == Spec /\ Fairness

-----------------------------------------------------------------------------
(* Properties *)

CallerPc  == {"idle", "get", "connect", "finish", "rollback", "using",
              "ret", "retclose"} \cup WarmPc
CleanerPc == {"off", "sleep", "clean", "sweep", "sweepwait"}
CloserPc  == {"open", "stopping", "close", "closing", "closewait", "done"}

\* The type invariant.
TypeOK ==
    /\ pc \in [Tasks -> CallerPc \cup CleanerPc \cup CloserPc]
    /\ \A t \in Callers : pc[t] \in CallerPc
    /\ pc[Cleaner] \in CleanerPc /\ pc[Closer] \in CloserPc
    /\ lockq \in Seq(Tasks)
    /\ conn \in [Callers -> Conns \cup {NoConn}]
    /\ link \in [Conns -> {"down", "connecting", "open", "closing"}]
    /\ entries \subseteq Conns /\ inUse \subseteq entries
    /\ total \in Nat /\ idle \in Int /\ needed \in Nat
    /\ current \subseteq Callers
    /\ staleIdle \subseteq Conns /\ staleLife \subseteq Conns
    /\ todo \subseteq Conns /\ gone \subseteq entries

\* Places where a caller has a session that is, or will be, its own.
HoldPc   == {"connect", "finish", "rollback", "using", "ret", "retclose"}
Leased   == {conn[t] : t \in {u \in Callers : pc[u] \in HoldPc}}
Physical == {c \in Conns : link[c] # "down"}

\* Two callers never share a session, across creation, reuse, failed
\* connects, returns, warm-up, sweeps and close (pool.py:148-172, 213-226).
Exclusive ==
    \A t, u \in Callers :
        t # u /\ pc[t] \in HoldPc /\ pc[u] \in HoldPc => conn[t] # conn[u]

\* The sweep closes only sessions in nobody's hands: a session handed out
\* while the sweep waits for the lock or for another close stays open
\* (pool.py:263-265).
SweepSparesLeases ==
    pc[Cleaner] = "sweepwait" => \A c \in Leased : link[c] # "closing"

\* "Absolute maximum number of concurrent connections" (pool.py:26): SSH
\* connections being opened, open or being closed never exceed the maximum,
\* although connecting runs outside the lock (pool.py:157-176).
CapacityRespected == Cardinality(Physical) <= MaxConnections

\* Entries that are in use but that no caller knows any more.
Orphans == {c \in inUse : \A t \in Callers : conn[t] # c}

\* _total_connections counts each entry that somebody can still use, return,
\* roll back or sweep, once: no failed attempt is left counted and none is
\* subtracted twice (pool.py:172, 182, 205, 222, 229, 268, 313).
TotalIsExact == total = Cardinality(entries \ (Orphans \cup gone))

\* _idle_connections lies between the idle sessions that work and all that
\* are idle, so reuse never makes it negative and stats never reports fewer
\* sessions in use than there are (pool.py:153, 218, 224, 279-283, 322).
IdleIsBounded ==
    pc[Cleaner] \notin {"sweep", "sweepwait"} /\ pc[Closer] \in {"open", "done"} =>
        /\ Cardinality({c \in entries \ inUse : Connected(c)}) <= idle
        /\ idle <= Cardinality(entries \ inUse)

\* "Stops the cleanup task and closes every pooled connection"
\* (README.md:259): once close() is through, calls it overtook included,
\* nothing is open and nothing opens again (pool.py:293-314).
ClosedMeansNoneOpen == pc[Closer] = "done" => Physical = {}

\* A finished sweep leaves an entry past its limits only to a caller who had
\* it in use: one that became idle while the sweep waited for the lock is
\* judged by its state then (pool.py:252-271, 285-291).
SweepEnforcesIdleLimits ==
    [][CleanEnd => entries' \cap (staleIdle \cup staleLife) \subseteq inUse]_vars

\* A caller waiting for get_connection gets a session or an error, although
\* sweeps, warm-ups and close() hold the lock while they wait for the network.
CallAnswered == \A t \in Callers : pc[t] = "get" ~> pc[t] \in {"using", "idle"}

\* A return finishes and its session is no longer the caller's.
ReturnCompletes == \A t \in Callers : pc[t] = "ret" ~> pc[t] = "idle"

\* close() finishes: it waits for the session locks of connecting sessions
\* while it holds the pool lock their callers queue for (pool.py:303-311).
CloseCompletes == pc[Closer] = "stopping" ~> pc[Closer] = "done"

\* A dead idle session, which blocks a slot of max_connections, loses it by
\* sweep or close once the cleanup task runs (pool.py:236-271).
DeadIdleFreed ==
    \A c \in Conns :
        (pc[Cleaner] # "off" /\ c \in entries \ inUse /\ link[c] = "down")
            ~> (c \notin entries)

-----------------------------------------------------------------------------
(* What documents and comments say and the code does not do *)

\* "with the pool's accounting rolled back if the attempt fails"
\* (CHANGELOG.md:244-245): every entry in use belongs to a caller.
NoOrphanEntries == Orphans = {}

-----------------------------------------------------------------------------
(* The inductive invariant behind Exclusive and SweepSparesLeases *)

\* Places where a task runs, or waits for the network, with the lock held.
CriticalPc == {"retclose", "warmloop", "warmconn", "sweep", "sweepwait",
               "closing", "closewait"}

LockInv == \A t \in Tasks : pc[t] \in CriticalPc => Owns(t)

ConnInv ==
    /\ \A t \in Callers : conn[t] = NoConn <=> pc[t] \in {"idle", "warm", "warmloop"}
    /\ \A t, u \in Callers : t # u /\ conn[t] = conn[u] => conn[t] = NoConn

\* What a caller holds is in use if it is listed; what it has merely set
\* aside for a new session is not listed.
EntryInv ==
    \A t \in Callers :
        /\ pc[t] \in HoldPc /\ conn[t] \in entries => conn[t] \in inUse
        /\ pc[t] \in {"get", "warmconn"} => conn[t] \notin entries

LinkInv ==
    /\ \A t \in Callers : pc[t] \in {"connect", "warmconn"} => link[conn[t]] = "connecting"
    /\ \A t \in Callers : pc[t] = "warmconn" => needed > 0
    /\ \A c \in gone : ~Connected(c) /\ c \notin inUse

\* The cleanup task is gone before close() asks for the lock.
StopInv == pc[Closer] # "open" => pc[Cleaner] = "off"

SweepPc == {"sweep", "sweepwait"}

SweepInv ==
    /\ pc[Cleaner] \in SweepPc => todo \subseteq entries \ gone
    /\ pc[Closer] = "open" =>
         \A c \in gone : pc[Cleaner] \in SweepPc /\ \E d \in todo : KeyOf[d] = KeyOf[c]

\* One session at a time is being closed, by the task that has the lock.
ClosingInv ==
    /\ \A c, d \in Conns : link[c] = "closing" /\ link[d] = "closing" => c = d
    /\ \A c \in Conns : link[c] = "closing" =>
         \/ pc[Cleaner] = "sweepwait" /\ c \in todo /\ c \in entries \ inUse
         \/ pc[Closer] = "closewait"
         \/ \E t \in Callers : pc[t] = "retclose" /\ conn[t] = c

\* For every setting of the switches (pool.py:142-234, 252-276, 303-314).
PoolInv ==
    /\ TypeOK /\ LockInv /\ ConnInv /\ EntryInv
    /\ LinkInv /\ StopInv /\ SweepInv /\ ClosingInv

=============================================================================
