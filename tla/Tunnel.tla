--------------------------------- MODULE Tunnel ---------------------------------
(***************************************************************************)
(* integrations/proxy.py: a create_tunnel, with tasks that add forwards    *)
(* and call close_all once it has yielded, while others are still at it.   *)
(*                                                                         *)
(* Listeners 1 .. Forwards are those of the ProxyConfig, which             *)
(* create_tunnel starts one after the other; the rest are added later.     *)
(* wait_closed() is taken to end when the listener has released its port.  *)
(***************************************************************************)
EXTENDS Naturals, Sequences

CONSTANTS
    Forwards,   \* listeners of the ProxyConfig, the SOCKS proxy included
    Added,      \* listeners added by tasks of their own
    Closers,    \* tasks that call close_all
    Exit        \* the close_all of create_tunnel's `finally`

ASSUME TunnelAssumption == Forwards \in Nat \ {0} /\ Added \in Nat /\ Exit \notin Closers

Own       == 1 .. Forwards
Listeners == 1 .. Forwards + Added
Calls     == Closers \cup {Exit}

VARIABLES
    listeners,    \* _listeners
    socket,       \* of each listener: "none", "opening", "failed", "open",
                  \* "closing", "closed"
    body,         \* create_tunnel: "running", "raising", "leaving", "over"
    at, waits,    \* of each close_all: its place in the list, the listener it waits for
    overlapped    \* history: a close_all began while another was busy

vars == <<listeners, socket, body, at, waits, overlapped>>

Init ==
    /\ listeners = <<>> /\ body = "running"
    /\ socket = [l \in Listeners |-> IF l = 1 THEN "opening" ELSE "none"]
    /\ at = [k \in Calls |-> 0] /\ waits = [k \in Calls |-> 0]
    /\ overlapped = FALSE

-----------------------------------------------------------------------------
(* close_all: it goes through the live list and clears it *)

Busy(k) == waits[k] # 0
Yielded == \A l \in Own : socket[l] \in {"open", "closing", "closed"}

\* mutant: the list is shortened while it is gone through
VisitRemoving(k, i) ==
    IF i <= Len(listeners)
    THEN /\ socket' = [socket EXCEPT ![listeners[i]] = IF @ = "open" THEN "closing" ELSE @]
         /\ at' = [at EXCEPT ![k] = i] /\ waits' = [waits EXCEPT ![k] = listeners[i]]
         /\ listeners' = SelectSeq(listeners, LAMBDA l : l # listeners[i])
    ELSE /\ listeners' = <<>> /\ at' = [at EXCEPT ![k] = 0]
         /\ waits' = [waits EXCEPT ![k] = 0] /\ UNCHANGED socket
Visit(k, i) ==
    IF i <= Len(listeners)
    THEN /\ socket' = [socket EXCEPT ![listeners[i]] = IF @ = "open" THEN "closing" ELSE @]
         /\ at' = [at EXCEPT ![k] = i] /\ waits' = [waits EXCEPT ![k] = listeners[i]]
         /\ UNCHANGED listeners
    ELSE /\ listeners' = <<>> /\ at' = [at EXCEPT ![k] = 0]
         /\ waits' = [waits EXCEPT ![k] = 0] /\ UNCHANGED socket

Begin(k) ==
    /\ Visit(k, 1)
    /\ overlapped' = (overlapped \/ \E j \in Calls : Busy(j))

CloseAll(k) ==
    /\ Yielded /\ ~Busy(k)
    /\ Begin(k)
    /\ UNCHANGED body

\* wait_closed() is over; mutant: from the start of the list again
ResumeAgain(k) ==
    /\ Busy(k) /\ socket[waits[k]] = "closed"
    /\ Visit(k, IF at[k] < Len(listeners) THEN 1 ELSE at[k] + 1)
    /\ body' = IF k = Exit /\ waits'[k] = 0 THEN "over" ELSE body
    /\ UNCHANGED overlapped
\* mutant: the listener is closed but not waited for
ResumeAtOnce(k) ==
    /\ Busy(k)
    /\ Visit(k, at[k] + 1)
    /\ body' = IF k = Exit /\ waits'[k] = 0 THEN "over" ELSE body
    /\ UNCHANGED overlapped
Resume(k) ==
    /\ Busy(k) /\ socket[waits[k]] = "closed"
    /\ Visit(k, at[k] + 1)
    /\ body' = IF k = Exit /\ waits'[k] = 0 THEN "over" ELSE body
    /\ UNCHANGED overlapped

Released(l) ==
    /\ socket[l] = "closing" /\ socket' = [socket EXCEPT ![l] = "closed"]
    /\ UNCHANGED <<listeners, body, at, waits, overlapped>>

-----------------------------------------------------------------------------
(* start_socks_proxy and add_local_forward, create_tunnel *)

Add(l) ==
    /\ Yielded /\ socket[l] = "none"
    /\ socket' = [socket EXCEPT ![l] = "opening"]
    /\ UNCHANGED <<listeners, body, at, waits, overlapped>>

\* create_tunnel goes on to the next of its own.
Onwards(l) == socket' = [s \in Listeners |-> IF s = l THEN "open"
                                            ELSE IF s = l + 1 /\ s \in Own THEN "opening"
                                            ELSE socket[s]]

\* The listener is there
Opened(l) ==
    /\ socket[l] = "opening" /\ Onwards(l)
    /\ listeners' = Append(listeners, l)
    /\ UNCHANGED <<body, at, waits, overlapped>>

OpenFails(l) ==
    /\ socket[l] = "opening"
    /\ socket' = [socket EXCEPT ![l] = "failed"]
    /\ body' = IF l \in Own THEN "raising" ELSE body
    /\ UNCHANGED <<listeners, at, waits, overlapped>>

\* `finally`, after an exception or when the body ends
Leave ==
    /\ body = "raising" \/ (body = "running" /\ Yielded)
    /\ Begin(Exit)
    /\ body' = IF listeners = <<>> THEN "over" ELSE "leaving"

-----------------------------------------------------------------------------
Next ==
    \/ Leave
    \/ \E k \in Closers : CloseAll(k)
    \/ \E k \in Calls : Resume(k)
    \/ \E l \in Listeners : Add(l) \/ Opened(l) \/ OpenFails(l) \/ Released(l)

Spec == Init /\ [][Next]_vars

\* The loop goes on with each close_all, and a closed port is released; a
\* create_tunnel that raises does not wait for its caller.
FairSpec ==
    /\ Spec
    /\ \A k \in Calls : WF_vars(Resume(k))
    /\ \A l \in Listeners : WF_vars(Released(l))
    /\ WF_vars(body = "raising" /\ Leave)

-----------------------------------------------------------------------------
(* Properties *)

TypeOK ==
    /\ listeners \in Seq(Listeners)
    /\ socket \in [Listeners -> {"none", "opening", "failed", "open", "closing", "closed"}]
    /\ body \in {"running", "raising", "leaving", "over"}
    /\ at \in [Calls -> Nat] /\ waits \in [Calls -> {0} \cup Listeners]
    /\ overlapped \in BOOLEAN

\* An open listener is in the list, so that close_all can still reach it, one
\* added while close_all waits included; but two overlapping close_alls may
\* clear the list of one that neither has closed (proxy.py:54-62).
NothingForgotten ==
    ~overlapped => \A l \in Listeners :
        socket[l] = "open" => \E i \in DOMAIN listeners : listeners[i] = l

\* When create_tunnel is over, its own listeners have released their ports,
\* even if others closed and cleared the list under it (proxy.py:54-79).
TornDown == body = "over" => \A l \in Own : socket[l] \in {"none", "failed", "closed"}

\* A create_tunnel that cannot open all it is to open, or whose body is over,
\* ends, although the list may grow while it is closed (proxy.py:54-79).
TunnelEnds == body \in {"raising", "leaving"} ~> body = "over"
===============================================================================
