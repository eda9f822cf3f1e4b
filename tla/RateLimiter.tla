----------------------------- MODULE RateLimiter -----------------------------
(***************************************************************************)
(* security/config.py: RateLimiter, the sliding window that               *)
(* get_connection and AIOSSH.connect and execute_command ask first.        *)
(* acquire() holds an asyncio.Lock it never waits under and current_rate   *)
(* is synchronous, so on the event loop each is one action.                *)
(*                                                                         *)
(* log is the history of all granted requests.  The deque _requests is its *)
(* end, log[lo] .. log[Len(log)]: append extends log, popleft raises lo.   *)
(***************************************************************************)
EXTENDS Integers, Sequences, FiniteSets

CONSTANTS
    MaxRequests,   \* max_requests
    Window,        \* window_seconds, in ticks of the clock
    Horizon        \* the clock stops here (bound)

ASSUME RateAssumption ==
    /\ MaxRequests \in Nat \ {0}
    /\ Window \in Nat \ {0}
    /\ Horizon \in Nat

VARIABLES
    now,   \* time.monotonic()
    log,   \* times of all granted requests
    lo     \* where the deque begins in log

vars == <<now, log, lo>>

Init == now = 0 /\ log = <<>> /\ lo = 1

\* mutant: an entry goes as soon as it is a window old
ExpiredEarly(i) == now - log[i] >= Window

\* mutant: an entry stays one tick longer
ExpiredLate(i) == now - log[i] > Window + 1

Expired(i) == now - log[i] > Window

\* popleft while the leftmost entry has expired: k is the new left end.
Pruned(k) ==
    /\ k \in lo..(Len(log) + 1)
    /\ \A i \in lo..(k - 1) : Expired(i)
    /\ k <= Len(log) => ~Expired(k)

\* len(self._requests) >= self.max_requests, the deque beginning at k
Full(k) == Len(log) + 1 - k >= MaxRequests

Tick == now < Horizon /\ now' = now + 1 /\ UNCHANGED <<log, lo>>

\* mutant: one request too many
GrantOneMore ==
    \E k \in lo..(Len(log) + 1) :
        /\ Pruned(k) /\ Len(log) + 1 - k <= MaxRequests
        /\ lo' = k /\ log' = Append(log, now)
        /\ UNCHANGED now

\* acquire() returns True
Grant ==
    \E k \in lo..(Len(log) + 1) :
        /\ Pruned(k)
        /\ ~Full(k)
        /\ lo' = k
        /\ log' = Append(log, now)
        /\ UNCHANGED now

\* acquire() returns False
Refuse ==
    \E k \in lo..(Len(log) + 1) :
        /\ Pruned(k)
        /\ Full(k)
        /\ lo' = k
        /\ UNCHANGED <<now, log>>

\* current_rate prunes as well; the number it returns is not modelled.
CurrentRate ==
    \E k \in lo..(Len(log) + 1) :
        /\ Pruned(k)
        /\ lo' = k
        /\ UNCHANGED <<now, log>>

Next == Tick \/ Grant \/ Refuse \/ CurrentRate

Spec == Init /\ [][Next]_vars

-----------------------------------------------------------------------------
(* Properties *)

TypeOK ==
    /\ now \in Nat
    /\ log \in Seq(Nat)
    /\ lo \in 1..(Len(log) + 1)

\* No interval of window_seconds, both ends included and wherever it begins,
\* holds more than max_requests granted requests: the request max_requests
\* places later comes strictly more than a window later, whatever calls of
\* acquire and current_rate pruned the deque (config.py:62-66, 82-86).
WindowRespected ==
    \A i \in 1..Len(log) :
        i + MaxRequests <= Len(log) => log[i + MaxRequests] - log[i] > Window

\* A request is refused only if max_requests were granted in the window
\* before it: entries that expired never count, whichever call pruned the
\* deque, and an entry that is pruned is not missed (config.py:62-65, 82-86).
RefusalJustified ==
    (\E k \in lo..(Len(log) + 1) : Pruned(k) /\ Full(k)) =>
        Cardinality({i \in 1..Len(log) : now - log[i] <= Window}) >= MaxRequests

\* The inductive invariant: what was dropped from the deque has expired,
\* what is in it is in order, and no more than max_requests.
RateInv ==
    /\ TypeOK
    /\ \A i \in 1..Len(log) : log[i] <= now
    /\ \A i, j \in 1..Len(log) : i <= j => log[i] <= log[j]
    /\ \A i \in 1..(lo - 1) : Expired(i)
    /\ Len(log) + 1 - lo <= MaxRequests
    /\ WindowRespected
=============================================================================
