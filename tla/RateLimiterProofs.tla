--------------------------- MODULE RateLimiterProofs ---------------------------
(***************************************************************************)
(* Whatever max_requests, window_seconds and the calls are, acquire()      *)
(* grants at most max_requests in a window, and refuses none without       *)
(* cause.                                                                  *)
(***************************************************************************)
EXTENDS RateLimiter, FiniteSetTheorems, TLAPS

\* The next deque after pruning: what was cut off has expired.
LEMMA PruneLemma ==
    ASSUME RateInv, NEW k \in lo..(Len(log) + 1), Pruned(k)
    PROVE  /\ k \in 1..(Len(log) + 1)
           /\ \A i \in 1..(k - 1) : Expired(i)
           /\ Len(log) + 1 - k <= MaxRequests
  BY RateAssumption DEF RateInv, TypeOK, Pruned

\* Granting keeps the window: the request max_requests places back has been
\* cut off, so it has expired.
LEMMA GrantInv ==
    ASSUME RateInv, Grant
    PROVE  RateInv'
  <1>1. PICK k \in lo..(Len(log) + 1) :
            /\ Pruned(k)
            /\ Len(log) + 1 - k < MaxRequests
            /\ lo' = k /\ log' = Append(log, now) /\ now' = now
    BY RateAssumption DEF Grant, Full, RateInv, TypeOK
  <1>2. /\ k \in 1..(Len(log) + 1)
        /\ \A i \in 1..(k - 1) : Expired(i)
    BY <1>1, PruneLemma
  <1>3. /\ log' \in Seq(Nat) /\ Len(log') = Len(log) + 1
        /\ \A i \in 1..Len(log) : log'[i] = log[i]
        /\ log'[Len(log) + 1] = now
    BY <1>1 DEF RateInv, TypeOK
  <1>4. TypeOK'
    BY <1>1, <1>2, <1>3 DEF RateInv, TypeOK
  <1>5. \A i \in 1..Len(log') : log'[i] <= now'
    BY <1>1, <1>3 DEF RateInv, TypeOK
  <1>6. \A i, j \in 1..Len(log') : i <= j => log'[i] <= log'[j]
    BY <1>1, <1>3 DEF RateInv, TypeOK
  <1>7. \A i \in 1..(lo' - 1) : Expired(i)'
    BY <1>1, <1>2, <1>3 DEF Expired, RateInv, TypeOK
  <1>8. Len(log') + 1 - lo' <= MaxRequests
    BY <1>1, <1>2, <1>3, RateAssumption DEF RateInv, TypeOK
  <1>9. WindowRespected'
    <2> SUFFICES ASSUME NEW i \in 1..Len(log'), i + MaxRequests <= Len(log')
                 PROVE  log'[i + MaxRequests] - log'[i] > Window
      BY DEF WindowRespected
    <2>1. CASE i + MaxRequests <= Len(log)
      <3>1. i \in 1..Len(log) /\ i + MaxRequests \in 1..Len(log)
        BY <2>1, <1>3, RateAssumption DEF RateInv, TypeOK
      <3>2. log[i + MaxRequests] - log[i] > Window
        BY <2>1, <3>1 DEF RateInv, WindowRespected
      <3> QED BY <3>1, <3>2, <1>3
    <2>2. CASE i + MaxRequests = Len(log) + 1
      <3>1. i \in 1..(k - 1)
        BY <2>2, <1>1, <1>2, <1>3, RateAssumption DEF RateInv, TypeOK
      <3>2. now - log[i] > Window
        BY <3>1, <1>2 DEF Expired
      <3>3. i \in 1..Len(log)
        BY <2>2, RateAssumption DEF RateInv, TypeOK
      <3> QED BY <2>2, <3>2, <3>3, <1>3
    <2> QED BY <2>1, <2>2, <1>3, RateAssumption DEF RateInv, TypeOK
  <1> QED BY <1>4, <1>5, <1>6, <1>7, <1>8, <1>9 DEF RateInv

\* Refusing and reading current_rate only prune.
LEMMA PruneInv ==
    ASSUME RateInv, Refuse \/ CurrentRate
    PROVE  RateInv'
  <1>1. PICK k \in lo..(Len(log) + 1) :
            Pruned(k) /\ lo' = k /\ UNCHANGED <<now, log>>
    BY DEF Refuse, CurrentRate
  <1> QED BY <1>1, PruneLemma DEF RateInv, TypeOK, WindowRespected, Expired

\* Time only makes more entries expire.
LEMMA TickInv ==
    ASSUME RateInv, Tick
    PROVE  RateInv'
  BY RateAssumption DEF RateInv, TypeOK, WindowRespected, Expired, Tick

\* RateInv is an invariant of the limiter for every limit, window and
\* sequence of acquire and current_rate calls.
THEOREM RateInvariant == Spec => []RateInv
  <1>1. Init => RateInv
    BY RateAssumption DEF Init, RateInv, TypeOK, WindowRespected
  <1>2. RateInv /\ [Next]_vars => RateInv'
    <2> SUFFICES ASSUME RateInv, [Next]_vars PROVE RateInv'
      OBVIOUS
    <2>1. CASE UNCHANGED vars
      BY <2>1 DEF vars, RateInv, TypeOK, WindowRespected, Expired
    <2> QED BY <2>1, GrantInv, PruneInv, TickInv DEF Next
  <1> QED BY <1>1, <1>2, PTL DEF Spec

\* max_requests in any window_seconds is never exceeded on the event loop
\* (config.py:59-67).
THEOREM WindowTheorem == Spec => []WindowRespected
  <1>1. RateInv => WindowRespected
    BY DEF RateInv
  <1> QED BY <1>1, RateInvariant, PTL
\* No request is refused while fewer than max_requests were granted in the
\* window before it: the deque is in order, so all of it is in the window
\* once its leftmost entry is (config.py:61-65).
THEOREM RefusalTheorem == Spec => []RefusalJustified
  <1>1. RateInv => RefusalJustified
    <2> SUFFICES ASSUME RateInv, NEW k \in lo..(Len(log) + 1), Pruned(k), Full(k)
                 PROVE  Cardinality({i \in 1..Len(log) : now - log[i] <= Window})
                            >= MaxRequests
      BY DEF RefusalJustified
    <2> DEFINE recent == {i \in 1..Len(log) : now - log[i] <= Window}
    <2>1. k \in 1..Len(log) /\ ~Expired(k)
      BY RateAssumption DEF RateInv, TypeOK, Pruned, Full
    <2>2. k..Len(log) \subseteq recent
      BY <2>1, RateAssumption DEF RateInv, TypeOK, Expired
    <2>3. Cardinality(k..Len(log)) = Len(log) - k + 1
      BY <2>1, FS_Interval DEF RateInv, TypeOK
    <2>4. IsFiniteSet(recent)
      <3>1. IsFiniteSet(1..Len(log))
        BY FS_Interval DEF RateInv, TypeOK
      <3>2. recent \subseteq 1..Len(log)
        OBVIOUS
      <3> QED BY <3>1, <3>2, FS_Subset
    <2>5. Cardinality(k..Len(log)) <= Cardinality(recent)
      BY <2>2, <2>4, FS_Subset
    <2>6. Cardinality(recent) \in Nat
      BY <2>4, FS_CardinalityType
    <2> HIDE DEF recent
    <2>7. Cardinality(recent) >= MaxRequests
      BY <2>1, <2>3, <2>5, <2>6, RateAssumption DEF Full, RateInv, TypeOK
    <2> QED BY <2>7 DEF recent
  <1> QED BY <1>1, RateInvariant, PTL
================================================================================
