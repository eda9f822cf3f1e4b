---------------------- MODULE ConnectionPoolProofs ----------------------
(***************************************************************************)
(* Theorems about ConnectionPool, for every set of callers and sessions,   *)
(* every capacity and every setting of the switches.  PoolInv, defined     *)
(* beside the properties, is the inductive invariant: who has the lock,    *)
(* who holds which session, and which single task is closing one.  One     *)
(* lemma per action shows that a step keeps it.  SweptInv and IdleInv are  *)
(* inductive together with it: what a sweep in progress has kept, and what *)
(* the idle count lies between.  The theorems are at the end.              *)
(***************************************************************************)
EXTENDS ConnectionPool, FiniteSetTheorems, SequenceTheorems, TLAPS

USE DEF Goto, Holds, SetLink, Touch, Forget, pool, sweep

-----------------------------------------------------------------------------
(* The lock's queue *)

\* A task that joins the queue does not disturb the lock's holder.
LEMMA EnqueueLemma ==
    ASSUME lockq \in Seq(Tasks), NEW t \in Tasks, Enqueue(t)
    PROVE  /\ lockq' \in Seq(Tasks)
           /\ \A u \in Tasks : Owns(u) => Owns(u)'
  BY DEF Enqueue, Owns

\* Releasing leaves a queue of tasks.
LEMMA ReleaseLemma ==
    ASSUME lockq \in Seq(Tasks), NEW t \in Tasks, Owns(t), Release
    PROVE  lockq' \in Seq(Tasks)
  BY DEF Release, Owns

\* A task that leaves the queue does not disturb another one's holding it.
LEMMA LeaveLemma ==
    ASSUME lockq \in Seq(Tasks), NEW t \in Tasks, Leave(t)
    PROVE  /\ lockq' \in Seq(Tasks)
           /\ \A u \in Tasks : u # t /\ Owns(u) => Owns(u)'
  <1>1. CASE ~Queued(t)
    BY <1>1 DEF Leave, Owns
  <1>2. CASE Queued(t)
    <2> DEFINE i == CHOOSE j \in 1..Len(lockq) : lockq[j] = t
               a == SubSeq(lockq, 1, i - 1)
               b == SubSeq(lockq, i + 1, Len(lockq))
    <2>1. i \in 1..Len(lockq) /\ lockq[i] = t
      BY <1>2 DEF Queued
    <2>2. lockq' = a \o b
      BY <1>2 DEF Leave, Without
    <2>3. a \in Seq(Tasks) /\ b \in Seq(Tasks)
      BY <2>1, SubSeqProperties
    <2>4. a \o b \in Seq(Tasks)
      BY <2>3, ConcatProperties
    <2>5. ASSUME NEW u \in Tasks, u # t, Owns(u)
          PROVE  Owns(u)'
      <3>1. i > 1
        BY <2>1, <2>5 DEF Owns
      <3>2. Len(a) = i - 1 /\ a[1] = lockq[1]
        BY <2>1, <3>1, SubSeqProperties
      <3> HIDE DEF a, b
      <3>3. Len(a \o b) >= 1 /\ (a \o b)[1] = lockq[1]
        BY <2>1, <2>3, <3>1, <3>2, ConcatProperties
      <3> QED BY <2>2, <2>4, <2>5, <3>3 DEF Owns
    <2> QED BY <2>2, <2>4, <2>5
  <1> QED BY <1>1, <1>2

\* The lock's queue has a task more.
LEMMA Joined ==
    ASSUME lockq \in Seq(Tasks), NEW t \in Tasks, Enqueue(t)
    PROVE  /\ Len(lockq') = Len(lockq) + 1 /\ lockq'[Len(lockq) + 1] = t
           /\ \A i \in 1 .. Len(lockq) : lockq'[i] = lockq[i]
  BY AppendProperties DEF Enqueue

\* Its holder has left it, and the others have moved up.
LEMMA MovedUp ==
    ASSUME lockq \in Seq(Tasks), NEW t \in Tasks, Owns(t), Release
    PROVE  /\ Len(lockq) >= 1 /\ lockq[1] = t /\ Len(lockq') = Len(lockq) - 1
           /\ \A i \in 1 .. Len(lockq) - 1 : lockq'[i] = lockq[i + 1]
  BY HeadTailProperties DEF Release, Owns

\* A task that waits has left it, and those behind it have moved up.
LEMMA LeftOut ==
    ASSUME lockq \in Seq(Tasks), NEW t \in Tasks, Leave(t), Queued(t)
    PROVE  \E i \in 1 .. Len(lockq) :
              /\ lockq[i] = t /\ Len(lockq') = Len(lockq) - 1
              /\ \A n \in 1 .. i - 1 : lockq'[n] = lockq[n]
              /\ \A n \in i .. Len(lockq) - 1 : lockq'[n] = lockq[n + 1]
  <1> DEFINE i == CHOOSE j \in 1 .. Len(lockq) : lockq[j] = t
             a == SubSeq(lockq, 1, i - 1)
             b == SubSeq(lockq, i + 1, Len(lockq))
  <1>1. i \in 1 .. Len(lockq) /\ lockq[i] = t /\ Len(lockq) \in Nat
    BY DEF Queued
  <1>2. lockq' = a \o b
    BY DEF Leave, Without
  <1>3. /\ a \in Seq(Tasks) /\ Len(a) = i - 1
        /\ \A n \in 1 .. i - 1 : a[n] = lockq[n]
    BY <1>1, SubSeqProperties
  <1>4. /\ b \in Seq(Tasks) /\ Len(b) = Len(lockq) - i
        /\ \A n \in 1 .. Len(lockq) - i : b[n] = lockq[i + n]
    BY <1>1, SubSeqProperties
  <1> HIDE DEF i, a, b
  <1>5. /\ Len(a \o b) = Len(a) + Len(b)
        /\ \A n \in 1 .. Len(a) + Len(b) :
              (a \o b)[n] = IF n <= Len(a) THEN a[n] ELSE b[n - Len(a)]
    BY <1>3, <1>4, ConcatProperties
  <1>6. Len(a) = i - 1 /\ Len(b) = Len(lockq) - i /\ Len(a) + Len(b) = Len(lockq) - 1
    BY <1>1, <1>3, <1>4
  <1>7. ASSUME NEW n \in 1 .. i - 1
        PROVE  lockq'[n] = lockq[n]
    BY <1>1, <1>2, <1>3, <1>5, <1>6
  <1>8. ASSUME NEW n \in i .. Len(lockq) - 1
        PROVE  lockq'[n] = lockq[n + 1]
    <2>1. /\ n \in 1 .. Len(a) + Len(b) /\ ~(n <= Len(a))
          /\ n - Len(a) \in 1 .. Len(lockq) - i /\ i + (n - Len(a)) = n + 1
      BY <1>1, <1>6
    <2>2. lockq'[n] = b[n - Len(a)]
      BY <1>2, <1>5, <2>1
    <2>3. b[n - Len(a)] = lockq[i + (n - Len(a))]
      BY <1>4, <2>1
    <2> QED BY <2>1, <2>2, <2>3
  <1> QED BY <1>1, <1>2, <1>5, <1>6, <1>7, <1>8

\* A task that leaves the queue takes nobody out of it, and nobody in.
LEMMA QueuedLemma ==
    ASSUME lockq \in Seq(Tasks), NEW t \in Tasks, Leave(t), NEW u \in Tasks, u # t
    PROVE  Queued(u)' <=> Queued(u)
  <1>1. CASE ~Queued(t)
    BY <1>1 DEF Leave, Queued
  <1>2. CASE Queued(t)
    <2>1. PICK i \in 1 .. Len(lockq) :
             /\ lockq[i] = t /\ Len(lockq') = Len(lockq) - 1
             /\ \A n \in 1 .. i - 1 : lockq'[n] = lockq[n]
             /\ \A n \in i .. Len(lockq) - 1 : lockq'[n] = lockq[n + 1]
      BY <1>2, LeftOut
    <2>2. ASSUME Queued(u)
          PROVE  Queued(u)'
      <3>1. PICK n \in 1 .. Len(lockq) : lockq[n] = u
        BY <2>2 DEF Queued
      <3>2. CASE n < i
        BY <2>1, <3>1, <3>2 DEF Queued
      <3>3. CASE n > i
        <4>1. n - 1 \in i .. Len(lockq) - 1 /\ lockq'[n - 1] = u
          BY <2>1, <3>1, <3>3
        <4> QED BY <2>1, <4>1 DEF Queued
      <3> QED BY <2>1, <3>1, <3>2, <3>3
    <2>3. ASSUME Queued(u)'
          PROVE  Queued(u)
      <3>1. PICK n \in 1 .. Len(lockq') : lockq'[n] = u
        BY <2>3 DEF Queued
      <3>2. CASE n < i
        BY <2>1, <3>1, <3>2 DEF Queued
      <3>3. CASE n >= i
        <4>1. n + 1 \in 1 .. Len(lockq) /\ lockq[n + 1] = u
          BY <2>1, <3>1, <3>3
        <4> QED BY <4>1 DEF Queued
      <3> QED BY <2>1, <3>1, <3>2, <3>3
    <2> QED BY <2>2, <2>3
  <1> QED BY <1>1, <1>2

\* At most one task has the lock.
LEMMA OneOwner ==
    ASSUME NEW t, NEW u, Owns(t), Owns(u)
    PROVE  t = u
  BY DEF Owns

-----------------------------------------------------------------------------
(* Every step preserves PoolInv *)

\* A call of get_connection queues for the lock and changes nothing else.
LEMMA GetCallInv ==
    ASSUME PoolInv, NEW t \in Callers, GetCall(t)
    PROVE  PoolInv'
  <1> USE DEF PoolInv, TypeOK, GetCall
  <1>1. t \in Tasks
    BY DEF Tasks
  <1>2. lockq' \in Seq(Tasks)
    BY <1>1, EnqueueLemma
  <1>3. TypeOK'
    BY <1>2 DEF Tasks, Spare, CallerPc, CleanerPc, CloserPc
  <1>4. LockInv'
    BY EnqueueLemma DEF LockInv, CriticalPc, Tasks
  <1>5. ConnInv' /\ EntryInv'
    BY DEF ConnInv, EntryInv, Tasks, Spare
  <1>6. LinkInv'
    BY DEF LinkInv, Connected
  <1>7. StopInv' /\ SweepInv'
    BY DEF SweepInv, SweepPc, StopInv
  <1>8. ClosingInv'
    BY DEF ClosingInv, EntryInv
  <1> QED BY <1>3, <1>4, <1>5, <1>6, <1>7, <1>8

\* The session a call takes over is an entry nobody held.
LEMMA GetReuseInv ==
    ASSUME PoolInv, NEW t \in Callers, GetReuse(t)
    PROVE  PoolInv'
  <1> USE DEF PoolInv, TypeOK, GetReuse
  <1>1. t \in Tasks
    BY DEF Tasks
  <1>2. lockq' \in Seq(Tasks)
    BY <1>1, ReleaseLemma
  <1>3. TypeOK'
    BY <1>2 DEF Tasks, Reusable, CallerPc, CleanerPc, CloserPc
  <1>4. LockInv'
    BY OneOwner DEF LockInv, CriticalPc
  <1>5. ConnInv'
    <2>1. PICK c \in Reusable(t) : /\ inUse' = inUse \cup {c}
                                   /\ conn' = [conn EXCEPT ![t] = c]
      OBVIOUS
    <2>2. c \in Conns /\ c \in entries \ inUse
      BY DEF Reusable
    <2>3. \A u \in Callers : conn[u] # c
      BY <2>2, ConnAssumption DEF EntryInv, ConnInv, HoldPc, CallerPc, WarmPc
    <2> QED BY <2>1, <2>2, <2>3, ConnAssumption, TaskAssumption DEF ConnInv, Tasks
  <1>6. EntryInv'
    BY DEF EntryInv, Tasks
  <1>7. LinkInv'
    BY DEF LinkInv, Reusable, Connected
  <1>8. StopInv' /\ SweepInv'
    BY DEF SweepInv, SweepPc, StopInv
  <1>9. ClosingInv'
    BY DEF ClosingInv, Connected, Reusable
  <1> QED BY <1>3, <1>4, <1>5, <1>6, <1>7, <1>8, <1>9

\* A call that finds its key exhausted leaves empty-handed.
LEMMA GetExhaustedInv ==
    ASSUME PoolInv, NEW t \in Callers, GetExhausted(t)
    PROVE  PoolInv'
  <1> USE DEF PoolInv, TypeOK, GetExhausted
  <1>1. t \in Tasks
    BY DEF Tasks
  <1>2. lockq' \in Seq(Tasks)
    BY <1>1, ReleaseLemma
  <1>3. TypeOK'
    BY <1>2 DEF Tasks, CallerPc, CleanerPc, CloserPc
  <1>4. LockInv'
    BY OneOwner DEF LockInv, CriticalPc
  <1>5. ConnInv' /\ EntryInv'
    BY DEF ConnInv, EntryInv, HoldPc, Tasks
  <1>6. LinkInv'
    BY DEF LinkInv, Connected
  <1>7. StopInv' /\ SweepInv'
    BY DEF SweepInv, SweepPc, StopInv
  <1>8. ClosingInv'
    BY DEF ClosingInv, LockInv
  <1> QED BY <1>3, <1>4, <1>5, <1>6, <1>7, <1>8

\* A call that reserves room takes a session nobody had.
LEMMA GetCreateInv ==
    ASSUME PoolInv, NEW t \in Callers, GetCreate(t)
    PROVE  PoolInv'
  <1> USE DEF PoolInv, TypeOK, GetCreate
  <1>1. t \in Tasks
    BY DEF Tasks
  <1>2. lockq' \in Seq(Tasks)
    BY <1>1, ReleaseLemma
  <1>3. TypeOK'
    BY <1>2, TaskAssumption DEF Tasks, CallerPc, ConnInv
  <1>4. LockInv'
    BY OneOwner DEF LockInv, CriticalPc
  <1>5. ConnInv' /\ EntryInv'
    BY DEF ConnInv, EntryInv, Tasks
  <1>6. LinkInv'
    BY DEF ConnInv, EntryInv, LinkInv, Connected
  <1>7. StopInv' /\ SweepInv'
    BY DEF SweepInv, SweepPc, StopInv
  <1>8. ClosingInv'
    BY DEF ClosingInv
  <1> QED BY <1>3, <1>4, <1>5, <1>6, <1>7, <1>8

\* A dialled session is still the caller's alone when it joins the pool.
LEMMA ConnectOkInv ==
    ASSUME PoolInv, NEW t \in Callers, ConnectOk(t)
    PROVE  PoolInv'
  <1> USE DEF PoolInv, TypeOK, ConnectOk
  <1>1. t \in Tasks
    BY DEF Tasks
  <1>2. lockq' \in Seq(Tasks)
    BY <1>1, EnqueueLemma
  <1>3. TypeOK'
    BY <1>2 DEF Tasks, CallerPc, CleanerPc, CloserPc, ConnInv
  <1>4. LockInv'
    BY EnqueueLemma DEF LockInv, CriticalPc, Tasks
  <1>5. ConnInv' /\ EntryInv'
    BY DEF ConnInv, EntryInv, HoldPc
  <1>6. LinkInv'
    BY DEF ConnInv, EntryInv, LinkInv, HoldPc, Connected, Tasks
  <1>7. StopInv' /\ SweepInv'
    BY DEF SweepInv, SweepPc, StopInv
  <1>8. ClosingInv'
    BY DEF ClosingInv
  <1> QED BY <1>3, <1>4, <1>5, <1>6, <1>7, <1>8

\* A failed dial leaves a session that is down and in no entry.
LEMMA ConnectFailInv ==
    ASSUME PoolInv, NEW t \in Callers, ConnectFail(t)
    PROVE  PoolInv'
  <1> USE DEF PoolInv, TypeOK, ConnectFail
  <1>1. t \in Tasks
    BY DEF Tasks
  <1>2. lockq' \in Seq(Tasks)
    BY <1>1, EnqueueLemma
  <1>3. TypeOK'
    BY <1>2 DEF Tasks, CallerPc, CleanerPc, CloserPc, ConnInv
  <1>4. LockInv'
    BY EnqueueLemma DEF LockInv, CriticalPc, Tasks
  <1>5. ConnInv' /\ EntryInv'
    BY DEF ConnInv, EntryInv, HoldPc
  <1>6. LinkInv'
    BY DEF ConnInv, LinkInv, Connected, Tasks
  <1>7. StopInv' /\ SweepInv'
    BY DEF SweepInv, SweepPc, StopInv
  <1>8. ClosingInv'
    BY DEF ClosingInv
  <1> QED BY <1>3, <1>4, <1>5, <1>6, <1>7, <1>8

\* The session that is published was its caller's and in no entry.
LEMMA FinishInv ==
    ASSUME PoolInv, NEW t \in Callers, Finish(t)
    PROVE  PoolInv'
  <1> USE DEF PoolInv, TypeOK, Finish
  <1>1. t \in Tasks
    BY DEF Tasks
  <1>2. lockq' \in Seq(Tasks)
    BY <1>1, ReleaseLemma
  <1>3. TypeOK'
    BY <1>2 DEF Tasks, CallerPc, CleanerPc, CloserPc
  <1>4. LockInv'
    BY OneOwner DEF LockInv, CriticalPc
  <1>5. ConnInv' /\ EntryInv'
    BY DEF ConnInv, EntryInv, HoldPc
  <1>6. LinkInv'
    BY DEF LinkInv, Connected
  <1>7. StopInv' /\ SweepInv'
    BY DEF SweepInv, SweepPc, StopInv
  <1>8. ClosingInv'
    BY DEF ClosingInv, EntryInv, HoldPc
  <1> QED BY <1>3, <1>4, <1>5, <1>6, <1>7, <1>8

\* The sweep cannot be counting while the reservation is given back.
LEMMA RollbackInv ==
    ASSUME PoolInv, NEW t \in Callers, Rollback(t)
    PROVE  PoolInv'
  <1> USE DEF PoolInv, TypeOK, Rollback
  <1>1. t \in Tasks
    BY DEF Tasks
  <1>2. lockq' \in Seq(Tasks)
    BY <1>1, ReleaseLemma
  <1>3. TypeOK'
    BY <1>2 DEF Tasks, CallerPc, CleanerPc, CloserPc, Minus, EntryInv, LinkInv, HoldPc
  <1>4. LockInv'
    BY OneOwner DEF LockInv, CriticalPc
  <1>5. ConnInv' /\ EntryInv'
    BY DEF ConnInv, EntryInv, HoldPc, Tasks
  <1>6. LinkInv'
    BY DEF LinkInv, Connected
  <1>7. StopInv' /\ SweepInv'
    BY OneOwner DEF SweepInv, SweepPc, LockInv, CriticalPc, Tasks, StopInv
  <1>8. ClosingInv'
    BY DEF ClosingInv, EntryInv, HoldPc
  <1> QED BY <1>3, <1>4, <1>5, <1>6, <1>7, <1>8

\* A return queues for the lock with the session still the caller's.
LEMMA RetCallInv ==
    ASSUME PoolInv, NEW t \in Callers, RetCall(t)
    PROVE  PoolInv'
  <1> USE DEF PoolInv, TypeOK, RetCall
  <1>1. t \in Tasks
    BY DEF Tasks
  <1>2. lockq' \in Seq(Tasks)
    BY <1>1, EnqueueLemma
  <1>3. TypeOK'
    BY <1>2 DEF Tasks, CallerPc, CleanerPc, CloserPc
  <1>4. LockInv'
    BY EnqueueLemma DEF LockInv, CriticalPc, Tasks
  <1>5. ConnInv' /\ EntryInv'
    BY DEF ConnInv, EntryInv, HoldPc
  <1>6. LinkInv'
    BY DEF LinkInv, Connected
  <1>7. StopInv' /\ SweepInv'
    BY DEF SweepInv, SweepPc, StopInv
  <1>8. ClosingInv'
    BY DEF ClosingInv, EntryInv, HoldPc
  <1> QED BY <1>3, <1>4, <1>5, <1>6, <1>7, <1>8

\* A session put back is an entry in nobody's hands.
LEMMA RetIdleInv ==
    ASSUME PoolInv, NEW t \in Callers, RetIdle(t)
    PROVE  PoolInv'
  <1> USE DEF PoolInv, TypeOK, RetIdle
  <1>1. t \in Tasks
    BY DEF Tasks
  <1>2. lockq' \in Seq(Tasks)
    BY <1>1, ReleaseLemma
  <1>3. TypeOK'
    BY <1>2 DEF Tasks, CallerPc, CleanerPc, CloserPc
  <1>4. LockInv'
    BY OneOwner DEF LockInv, CriticalPc
  <1>5. ConnInv' /\ EntryInv'
    BY DEF ConnInv, EntryInv, HoldPc, Tasks
  <1>6. LinkInv'
    BY DEF LinkInv, Connected
  <1>7. StopInv' /\ SweepInv'
    BY DEF SweepInv, SweepPc, StopInv
  <1>8. ClosingInv'
    BY DEF ClosingInv, LockInv
  <1> QED BY <1>3, <1>4, <1>5, <1>6, <1>7, <1>8

\* A dead session that comes back leaves the entries and the count.
LEMMA RetDeadInv ==
    ASSUME PoolInv, NEW t \in Callers, RetDead(t)
    PROVE  PoolInv'
  <1> USE DEF PoolInv, TypeOK, RetDead
  <1>1. t \in Tasks
    BY DEF Tasks
  <1>2. lockq' \in Seq(Tasks)
    BY <1>1, ReleaseLemma
  <1>3. TypeOK'
    BY <1>2 DEF Tasks, CallerPc, CleanerPc, CloserPc, Minus, EntryInv, LinkInv, HoldPc
  <1>4. LockInv'
    BY OneOwner DEF LockInv, CriticalPc
  <1>5. ConnInv' /\ EntryInv'
    BY DEF ConnInv, EntryInv, HoldPc, Tasks
  <1>6. LinkInv'
    BY DEF LinkInv, Connected
  <1>7. StopInv' /\ SweepInv'
    BY OneOwner DEF SweepInv, SweepPc, LockInv, CriticalPc, Tasks, StopInv
  <1>8. ClosingInv'
    BY DEF ClosingInv, EntryInv, HoldPc
  <1> QED BY <1>3, <1>4, <1>5, <1>6, <1>7, <1>8

\* A session the pool does not list is hung up by its return.
LEMMA RetUnknownInv ==
    ASSUME PoolInv, NEW t \in Callers, RetUnknown(t)
    PROVE  PoolInv'
  <1> USE DEF PoolInv, TypeOK, RetUnknown
  <1>1. t \in Tasks
    BY DEF Tasks
  <1>2. lockq' \in Seq(Tasks)
    BY <1>1, ReleaseLemma
  <1>3. TypeOK'
    <2>1. pc' \in [Tasks -> CallerPc \cup CleanerPc \cup CloserPc]
      BY DEF CallerPc
    <2>2. /\ \A u \in Callers : pc'[u] \in CallerPc
          /\ pc'[Cleaner] \in CleanerPc /\ pc'[Closer] \in CloserPc
      BY TaskAssumption DEF CallerPc, Tasks
    <2>3. conn' \in [Callers -> Conns \cup {NoConn}]
      OBVIOUS
    <2>4. link' \in [Conns -> {"down", "connecting", "open", "closing"}]
      OBVIOUS
    <2>5. total' \in Nat
      BY DEF Minus
    <2>6. lockq' \in Seq(Tasks)
      BY <1>2
    <2> QED BY <2>1, <2>2, <2>3, <2>4, <2>5, <2>6
  <1>4. LockInv'
    BY DEF LockInv, CriticalPc, Owns
  <1>5. ConnInv' /\ EntryInv'
    BY DEF ConnInv, EntryInv, HoldPc, Tasks
  <1>6. LinkInv'
    BY DEF ConnInv, LinkInv, LockInv, Connected, Tasks
  <1>7. StopInv' /\ SweepInv'
    BY DEF SweepInv, SweepPc, Tasks, StopInv
  <1>8. ClosingInv'
    BY OneOwner DEF ClosingInv, Tasks, LockInv, CriticalPc
  <1> QED BY <1>3, <1>4, <1>5, <1>6, <1>7, <1>8

\* The return that has hung up its session holds nothing.
LEMMA RetClosedInv ==
    ASSUME PoolInv, NEW t \in Callers, RetClosed(t)
    PROVE  PoolInv'
  <1> USE DEF PoolInv, TypeOK, RetClosed
  <1>1. t \in Tasks
    BY DEF Tasks
  <1>2. lockq' \in Seq(Tasks)
    BY <1>1, ReleaseLemma DEF LockInv, CriticalPc
  <1>3. TypeOK'
    BY <1>2 DEF Tasks, CallerPc, WarmPc, CleanerPc, CloserPc, ConnInv
  <1>4. LockInv'
    BY OneOwner DEF LockInv, CriticalPc, Tasks
  <1>5. ConnInv' /\ EntryInv'
    BY DEF ConnInv, EntryInv, HoldPc, Tasks
  <1>6. LinkInv'
    BY DEF ConnInv, LinkInv, Connected
  <1>7. StopInv' /\ SweepInv'
    BY DEF SweepInv, SweepPc, StopInv
  <1>8. ClosingInv'
    BY DEF ClosingInv
  <1> QED BY <1>3, <1>4, <1>5, <1>6, <1>7, <1>8

\* A call of warm_up queues for the lock and touches no session.
LEMMA WarmCallInv ==
    ASSUME PoolInv, NEW t \in Callers, WarmCall(t)
    PROVE  PoolInv'
  <1> USE DEF PoolInv, TypeOK, WarmCall
  <1>1. t \in Tasks
    BY DEF Tasks
  <1>2. lockq' \in Seq(Tasks)
    BY <1>1, EnqueueLemma
  <1>3. TypeOK'
    BY <1>2 DEF Tasks, CallerPc, WarmPc, CleanerPc, CloserPc
  <1>4. LockInv'
    BY EnqueueLemma DEF LockInv, CriticalPc, Tasks
  <1>5. ConnInv' /\ EntryInv'
    BY DEF ConnInv, EntryInv, HoldPc
  <1>6. LinkInv'
    BY DEF LinkInv, Connected
  <1>7. StopInv' /\ SweepInv'
    BY DEF SweepInv, SweepPc, StopInv
  <1>8. ClosingInv'
    BY DEF ClosingInv
  <1> QED BY <1>3, <1>4, <1>5, <1>6, <1>7, <1>8

\* A warm-up begins with no session of its own.
LEMMA WarmBeginInv ==
    ASSUME PoolInv, NEW t \in Callers, WarmBegin(t)
    PROVE  PoolInv'
  <1> USE DEF PoolInv, TypeOK, WarmBegin
  <1>1. TypeOK'
    BY CapacityAssumption DEF Tasks, CallerPc, WarmPc, CleanerPc, CloserPc, Minus
  <1>2. LockInv'
    BY DEF LockInv, Owns
  <1>3. ConnInv' /\ EntryInv'
    BY DEF ConnInv, EntryInv, HoldPc
  <1>4. LinkInv'
    BY OneOwner DEF LinkInv, LockInv, CriticalPc, Connected, Tasks
  <1>5. StopInv' /\ SweepInv'
    BY DEF SweepInv, SweepPc, StopInv
  <1>6. ClosingInv'
    BY DEF ClosingInv
  <1> QED BY <1>1, <1>2, <1>3, <1>4, <1>5, <1>6

\* A warm-up dials a session nobody had.
LEMMA WarmDialInv ==
    ASSUME PoolInv, NEW t \in Callers, WarmDial(t)
    PROVE  PoolInv'
  <1> USE DEF PoolInv, TypeOK, WarmDial
  <1>1. TypeOK'
    BY DEF Tasks, WarmSpare, Spare, CallerPc, WarmPc, CleanerPc, CloserPc
  <1>2. LockInv'
    BY DEF LockInv, CriticalPc, Owns
  <1>3. ConnInv' /\ EntryInv'
    BY DEF ConnInv, EntryInv, Tasks, WarmSpare, Spare
  <1>4. LinkInv'
    BY DEF LinkInv, Connected, WarmSpare, Spare
  <1>5. StopInv' /\ SweepInv'
    BY DEF SweepInv, SweepPc, StopInv
  <1>6. ClosingInv'
    BY DEF ClosingInv
  <1> QED BY <1>1, <1>2, <1>3, <1>4, <1>5, <1>6

\* A warm session becomes an entry that is not in use.
LEMMA WarmOkInv ==
    ASSUME PoolInv, NEW t \in Callers, WarmOk(t)
    PROVE  PoolInv'
  <1> USE DEF PoolInv, TypeOK, WarmOk
  <1>1. TypeOK'
    BY DEF Tasks, CallerPc, WarmPc, CleanerPc, CloserPc, ConnInv, LinkInv
  <1>2. LockInv'
    BY DEF LockInv, CriticalPc, Owns
  <1>3. ConnInv' /\ EntryInv'
    BY DEF ConnInv, EntryInv, HoldPc, Tasks
  <1>4. LinkInv'
    BY OneOwner DEF ConnInv, EntryInv, LinkInv, LockInv, CriticalPc, Connected, Tasks
  <1>5. StopInv' /\ SweepInv'
    BY DEF SweepInv, SweepPc, StopInv
  <1>6. ClosingInv'
    BY DEF ClosingInv
  <1> QED BY <1>1, <1>2, <1>3, <1>4, <1>5, <1>6

\* A failed warm dial leaves no session behind.
LEMMA WarmFailInv ==
    ASSUME PoolInv, NEW t \in Callers, WarmFail(t)
    PROVE  PoolInv'
  <1> USE DEF PoolInv, TypeOK, WarmFail
  <1>1. t \in Tasks
    BY DEF Tasks
  <1>2. lockq' \in Seq(Tasks)
    BY <1>1, ReleaseLemma DEF LockInv, CriticalPc
  <1>3. TypeOK'
    BY <1>2 DEF Tasks, CallerPc, CleanerPc, CloserPc, ConnInv
  <1>4. LockInv'
    BY OneOwner DEF LockInv, CriticalPc, Tasks
  <1>5. ConnInv' /\ EntryInv'
    BY DEF ConnInv, EntryInv, HoldPc, Tasks
  <1>6. LinkInv'
    BY OneOwner DEF ConnInv, LinkInv, LockInv, CriticalPc, Connected, Tasks
  <1>7. StopInv' /\ SweepInv'
    BY DEF SweepInv, SweepPc, StopInv
  <1>8. ClosingInv'
    BY DEF ClosingInv
  <1> QED BY <1>3, <1>4, <1>5, <1>6, <1>7, <1>8

\* A warm-up ends with what it already gave to the pool.
LEMMA WarmEndInv ==
    ASSUME PoolInv, NEW t \in Callers, WarmEnd(t)
    PROVE  PoolInv'
  <1> USE DEF PoolInv, TypeOK, WarmEnd
  <1>1. t \in Tasks
    BY DEF Tasks
  <1>2. lockq' \in Seq(Tasks)
    BY <1>1, ReleaseLemma DEF LockInv, CriticalPc
  <1>3. TypeOK'
    BY <1>2 DEF Tasks, CallerPc, CleanerPc, CloserPc
  <1>4. LockInv'
    BY OneOwner DEF LockInv, CriticalPc, Tasks
  <1>5. ConnInv' /\ EntryInv'
    BY DEF ConnInv, EntryInv, HoldPc
  <1>6. LinkInv'
    BY OneOwner DEF LinkInv, LockInv, CriticalPc, Connected, Tasks
  <1>7. StopInv' /\ SweepInv'
    BY DEF SweepInv, SweepPc, StopInv
  <1>8. ClosingInv'
    BY DEF ClosingInv
  <1> QED BY <1>3, <1>4, <1>5, <1>6, <1>7, <1>8

\* Starting the pool touches no session.
LEMMA StartInv ==
    ASSUME PoolInv, Start
    PROVE  PoolInv'
  <1> USE DEF PoolInv, TypeOK, Start
  <1>1. TypeOK'
    BY DEF Tasks, CallerPc, WarmPc, CleanerPc
  <1>2. LockInv'
    BY DEF LockInv, CriticalPc, Owns
  <1>3. ConnInv' /\ EntryInv'
    BY DEF ConnInv, EntryInv, HoldPc
  <1>4. LinkInv'
    BY DEF LinkInv, Connected
  <1>5. StopInv' /\ SweepInv'
    BY DEF SweepInv, SweepPc, StopInv
  <1>6. ClosingInv'
    BY DEF ClosingInv
  <1> QED BY <1>1, <1>2, <1>3, <1>4, <1>5, <1>6

\* The cleanup task queues for the lock and touches no session.
LEMMA CleanWakeInv ==
    ASSUME PoolInv, CleanWake
    PROVE  PoolInv'
  <1> USE DEF PoolInv, TypeOK, CleanWake
  <1>1. Cleaner \in Tasks
    BY DEF Tasks
  <1>2. lockq' \in Seq(Tasks)
    BY <1>1, EnqueueLemma
  <1>3. TypeOK'
    <2>1. WarmingUp \subseteq Conns
      BY DEF WarmingUp, ConnInv
    <2>2. staleIdle' \subseteq Conns /\ staleLife' \subseteq Conns
      BY <2>1
    <2> QED BY <1>2, <2>2 DEF Tasks, CallerPc, WarmPc, CleanerPc, StopInv
  <1>4. LockInv'
    BY EnqueueLemma DEF LockInv, CriticalPc, Tasks
  <1>5. ConnInv' /\ EntryInv'
    BY DEF ConnInv, EntryInv, HoldPc
  <1>6. LinkInv'
    BY DEF LinkInv, Connected
  <1>7. StopInv' /\ SweepInv'
    BY DEF SweepInv, SweepPc, StopInv
  <1>8. ClosingInv'
    BY DEF ClosingInv
  <1> QED BY <1>3, <1>4, <1>5, <1>6, <1>7, <1>8

\* A sweep begins with every entry still to be visited.
LEMMA CleanBeginInv ==
    ASSUME PoolInv, CleanBegin
    PROVE  PoolInv'
  <1> USE DEF PoolInv, TypeOK, CleanBegin
  <1>1. TypeOK'
    BY DEF Tasks, CallerPc, WarmPc, CleanerPc, StopInv
  <1>2. LockInv'
    BY DEF LockInv, Owns
  <1>3. ConnInv' /\ EntryInv'
    BY DEF ConnInv, EntryInv, HoldPc
  <1>4. LinkInv'
    BY DEF LinkInv, Connected
  <1>5. StopInv' /\ SweepInv'
    BY DEF SweepInv, SweepPc, StopInv
  <1>6. ClosingInv'
    BY DEF ClosingInv
  <1> QED BY <1>1, <1>2, <1>3, <1>4, <1>5, <1>6

\* An entry the sweep keeps needs no more than its visit.
LEMMA CleanKeepInv ==
    ASSUME PoolInv, NEW c \in Conns, CleanKeep(c)
    PROVE  PoolInv'
  <1> USE DEF PoolInv, TypeOK, CleanKeep
  <1>1. TypeOK'
    BY DEF LinkInv, Visited
  <1>2. LockInv'
    BY DEF LockInv, Owns
  <1>3. ConnInv' /\ EntryInv'
    BY DEF ConnInv, EntryInv, Visited
  <1>4. LinkInv'
    BY DEF LinkInv, Visited, Connected
  <1>5. StopInv' /\ SweepInv'
    BY DEF SweepInv, StopInv, Visited, SameKey
  <1>6. ClosingInv'
    BY DEF ClosingInv
  <1> QED BY <1>1, <1>2, <1>3, <1>4, <1>5, <1>6

\* An entry the sweep drops was idle, and down already.
LEMMA CleanRemoveInv ==
    ASSUME PoolInv, NEW c \in Conns, CleanRemove(c)
    PROVE  PoolInv'
  <1> USE DEF PoolInv, TypeOK, CleanRemove
  <1>1. TypeOK'
    BY DEF Minus, LinkInv, SweepInv, SweepPc, Visited, Doomed
  <1>2. LockInv'
    BY DEF LockInv, Owns
  <1>3. ConnInv' /\ EntryInv'
    BY DEF ConnInv, EntryInv, Visited
  <1>4. LinkInv'
    BY DEF LinkInv, Visited, Doomed, Connected
  <1>5. StopInv' /\ SweepInv'
    BY DEF SweepInv, SweepPc, StopInv, Visited, SameKey
  <1>6. ClosingInv'
    BY DEF ClosingInv
  <1> QED BY <1>1, <1>2, <1>3, <1>4, <1>5, <1>6

\* What a sweep closes is idle, and nothing else is being closed.
LEMMA CleanCloseInv ==
    ASSUME PoolInv, NEW c \in Conns, CleanClose(c)
    PROVE  PoolInv'
  <1> USE DEF PoolInv, TypeOK, CleanClose
  <1>1. TypeOK'
    BY DEF Tasks, CallerPc, WarmPc, CleanerPc, StopInv
  <1>2. LockInv'
    BY DEF LockInv, CriticalPc, Owns
  <1>3. ConnInv' /\ EntryInv'
    BY DEF ConnInv, EntryInv, HoldPc
  <1>4. LinkInv'
    BY DEF LinkInv, Connected
  <1>5. StopInv' /\ SweepInv'
    BY DEF SweepInv, SweepPc, StopInv
  <1>6. ClosingInv'
    BY OneOwner DEF ClosingInv, Tasks, LockInv, CriticalPc, SweepInv, SweepPc, Doomed
  <1> QED BY <1>1, <1>2, <1>3, <1>4, <1>5, <1>6

\* The session a sweep has hung up is still idle, and down.
LEMMA CleanClosedInv ==
    ASSUME PoolInv, NEW c \in Conns, CleanClosed(c)
    PROVE  PoolInv'
  <1> USE DEF PoolInv, TypeOK, CleanClosed
  <1>1. c \in entries \ inUse
    BY OneOwner DEF ClosingInv, LockInv, CriticalPc, Tasks
  <1>2. TypeOK'
    BY OneOwner
       DEF Tasks, LockInv, CriticalPc, CallerPc, WarmPc, CleanerPc, Minus, LinkInv,
           ClosingInv, StopInv, Visited
  <1>3. LockInv'
    BY DEF LockInv, CriticalPc, Owns
  <1>4. ConnInv' /\ EntryInv'
    BY DEF ConnInv, EntryInv, HoldPc, Visited
  <1>5. LinkInv'
    BY <1>1 DEF LinkInv, Visited, Connected
  <1>6. StopInv' /\ SweepInv'
    BY DEF SweepInv, SweepPc, StopInv, Visited, SameKey
  <1>7. ClosingInv'
    BY DEF ClosingInv
  <1> QED BY <1>2, <1>3, <1>4, <1>5, <1>6, <1>7

\* A sweep ends with nothing removed left to forget.
LEMMA CleanEndInv ==
    ASSUME PoolInv, CleanEnd
    PROVE  PoolInv'
  <1> USE DEF PoolInv, TypeOK, CleanEnd
  <1>1. Cleaner \in Tasks
    BY DEF Tasks
  <1>2. lockq' \in Seq(Tasks)
    BY <1>1, ReleaseLemma DEF LockInv, CriticalPc
  <1>3. TypeOK'
    BY <1>2, ConnAssumption, FS_CardinalityType, FS_Subset
       DEF Tasks, CallerPc, WarmPc, CleanerPc, StopInv
  <1>4. LockInv'
    BY OneOwner DEF LockInv, CriticalPc, Tasks
  <1>5. ConnInv' /\ EntryInv'
    BY DEF ConnInv, EntryInv, HoldPc
  <1>6. LinkInv'
    BY DEF LinkInv, Connected
  <1>7. StopInv' /\ SweepInv'
    BY DEF SweepInv, StopInv
  <1>8. ClosingInv'
    BY DEF ClosingInv
  <1> QED BY <1>3, <1>4, <1>5, <1>6, <1>7, <1>8

\* close() ends the cleanup task wherever it waits.
LEMMA CloseCallInv ==
    ASSUME PoolInv, CloseCall
    PROVE  PoolInv'
  <1> USE DEF PoolInv, TypeOK, CloseCall
  <1>1. Cleaner \in Tasks
    BY DEF Tasks
  <1>2. lockq' \in Seq(Tasks)
    BY <1>1, LeaveLemma
  <1>3. TypeOK'
    BY <1>2 DEF Tasks, CallerPc, WarmPc, CleanerPc, CloserPc, ConnInv, LinkInv
  <1>4. LockInv'
    BY LeaveLemma DEF LockInv, CriticalPc, Tasks
  <1>5. ConnInv' /\ EntryInv'
    BY TaskAssumption DEF ConnInv, EntryInv, Tasks
  <1>6. LinkInv'
    BY DEF ConnInv, LinkInv, LockInv, Connected, Tasks
  <1>7. StopInv' /\ SweepInv'
    BY DEF SweepInv, Tasks, StopInv
  <1>8. ClosingInv'
    BY TaskAssumption DEF ClosingInv, Tasks
  <1> QED BY <1>3, <1>4, <1>5, <1>6, <1>7, <1>8

\* close() queues for the lock once the cleanup task is gone.
LEMMA CloseQueueInv ==
    ASSUME PoolInv, CloseQueue
    PROVE  PoolInv'
  <1> USE DEF PoolInv, TypeOK, CloseQueue
  <1>1. Closer \in Tasks
    BY DEF Tasks
  <1>2. lockq' \in Seq(Tasks)
    BY <1>1, EnqueueLemma
  <1>3. TypeOK'
    BY <1>2 DEF Tasks, CallerPc, WarmPc, CloserPc, StopInv
  <1>4. LockInv'
    BY EnqueueLemma DEF LockInv, CriticalPc, Tasks
  <1>5. ConnInv' /\ EntryInv'
    BY DEF ConnInv, EntryInv, HoldPc
  <1>6. LinkInv'
    BY DEF LinkInv, Connected
  <1>7. StopInv' /\ SweepInv'
    BY DEF SweepInv, StopInv
  <1>8. ClosingInv'
    BY DEF ClosingInv
  <1> QED BY <1>3, <1>4, <1>5, <1>6, <1>7, <1>8

\* close() begins with every entry still to be closed.
LEMMA CloseBeginInv ==
    ASSUME PoolInv, CloseBegin
    PROVE  PoolInv'
  <1> USE DEF PoolInv, TypeOK, CloseBegin
  <1>1. TypeOK'
    BY DEF Tasks, CallerPc, WarmPc, CloserPc, StopInv
  <1>2. LockInv'
    BY DEF LockInv, Owns
  <1>3. ConnInv' /\ EntryInv'
    BY DEF ConnInv, EntryInv, HoldPc
  <1>4. LinkInv'
    BY DEF LinkInv, Connected
  <1>5. StopInv' /\ SweepInv'
    BY DEF SweepInv, SweepPc, StopInv
  <1>6. ClosingInv'
    BY DEF ClosingInv
  <1> QED BY <1>1, <1>2, <1>3, <1>4, <1>5, <1>6

\* close() hangs up one session at a time.
LEMMA CloseEntryInv ==
    ASSUME PoolInv, NEW c \in Conns, CloseEntry(c)
    PROVE  PoolInv'
  <1> USE DEF PoolInv, TypeOK, CloseEntry
  <1>1. TypeOK'
    BY DEF Tasks, CallerPc, WarmPc, CloserPc, StopInv
  <1>2. LockInv'
    BY DEF LockInv, CriticalPc, Owns
  <1>3. ConnInv' /\ EntryInv'
    BY DEF ConnInv, EntryInv, HoldPc
  <1>4. LinkInv'
    BY DEF LinkInv, Connected
  <1>5. StopInv' /\ SweepInv'
    BY DEF SweepInv, StopInv
  <1>6. ClosingInv'
    BY OneOwner DEF ClosingInv, Tasks, LockInv, CriticalPc
  <1> QED BY <1>1, <1>2, <1>3, <1>4, <1>5, <1>6

\* A session that is down needs no closing.
LEMMA CloseEntryDeadInv ==
    ASSUME PoolInv, NEW c \in Conns, CloseEntryDead(c)
    PROVE  PoolInv'
  <1> USE DEF PoolInv, TypeOK, CloseEntryDead
  <1>1. TypeOK'
    OBVIOUS
  <1>2. LockInv'
    BY DEF LockInv, Owns
  <1>3. ConnInv' /\ EntryInv'
    BY DEF ConnInv, EntryInv
  <1>4. LinkInv'
    BY DEF LinkInv, Connected
  <1>5. StopInv' /\ SweepInv'
    BY DEF SweepInv, StopInv
  <1>6. ClosingInv'
    BY DEF ClosingInv
  <1> QED BY <1>1, <1>2, <1>3, <1>4, <1>5, <1>6

\* A session close() has hung up is down.
LEMMA CloseEntryDoneInv ==
    ASSUME PoolInv, NEW c \in Conns, CloseEntryDone(c)
    PROVE  PoolInv'
  <1> USE DEF PoolInv, TypeOK, CloseEntryDone
  <1>1. TypeOK'
    BY DEF Tasks, CallerPc, WarmPc, CloserPc, StopInv
  <1>2. LockInv'
    BY DEF LockInv, CriticalPc, Owns
  <1>3. ConnInv' /\ EntryInv'
    BY DEF ConnInv, EntryInv, HoldPc
  <1>4. LinkInv'
    BY DEF LinkInv, Connected
  <1>5. StopInv' /\ SweepInv'
    BY DEF SweepInv, StopInv
  <1>6. ClosingInv'
    BY DEF ClosingInv
  <1> QED BY <1>1, <1>2, <1>3, <1>4, <1>5, <1>6

\* close() forgets every entry.
LEMMA CloseEndInv ==
    ASSUME PoolInv, CloseEnd
    PROVE  PoolInv'
  <1> USE DEF PoolInv, TypeOK, CloseEnd
  <1>1. Closer \in Tasks
    BY DEF Tasks
  <1>2. lockq' \in Seq(Tasks)
    BY <1>1, ReleaseLemma DEF LockInv, CriticalPc
  <1>3. TypeOK'
    BY <1>2 DEF Tasks, CallerPc, WarmPc, CloserPc, StopInv
  <1>4. LockInv'
    BY OneOwner DEF LockInv, CriticalPc, Tasks
  <1>5. ConnInv' /\ EntryInv'
    BY DEF ConnInv, EntryInv
  <1>6. LinkInv'
    BY DEF LinkInv
  <1>7. StopInv' /\ SweepInv'
    BY DEF SweepInv, StopInv
  <1>8. ClosingInv'
    BY DEF ClosingInv
  <1> QED BY <1>3, <1>4, <1>5, <1>6, <1>7, <1>8

\* A connection that drops is still whosever it was.
LEMMA DropInv ==
    ASSUME PoolInv, NEW c \in Conns, Drop(c)
    PROVE  PoolInv'
  <1> USE DEF PoolInv, TypeOK, Drop
  <1>1. TypeOK'
    OBVIOUS
  <1>2. LockInv'
    BY DEF LockInv, Owns
  <1>3. ConnInv' /\ EntryInv'
    BY DEF ConnInv, EntryInv
  <1>4. LinkInv'
    BY DEF LinkInv, Connected
  <1>5. StopInv' /\ SweepInv'
    BY DEF SweepInv, StopInv
  <1>6. ClosingInv'
    BY DEF ClosingInv
  <1> QED BY <1>1, <1>2, <1>3, <1>4, <1>5, <1>6

\* A session adopted from outside is in no entry.
LEMMA AdoptInv ==
    ASSUME PoolInv, NEW t \in Callers, Adopt(t)
    PROVE  PoolInv'
  <1> USE DEF PoolInv, TypeOK, Adopt
  <1>1. TypeOK'
    BY DEF Tasks, Spare, CallerPc, CleanerPc, CloserPc
  <1>2. LockInv'
    BY DEF LockInv, CriticalPc, Owns
  <1>3. ConnInv' /\ EntryInv'
    BY DEF ConnInv, EntryInv, Tasks, Spare
  <1>4. LinkInv'
    BY DEF LinkInv, Connected, Spare
  <1>5. StopInv' /\ SweepInv'
    BY DEF SweepInv, SweepPc, StopInv
  <1>6. ClosingInv'
    BY DEF ClosingInv
  <1> QED BY <1>1, <1>2, <1>3, <1>4, <1>5, <1>6

\* A cancelled call leaves the queue, and with it every claim to the lock.
LEMMA CancelInv ==
    ASSUME PoolInv, NEW t \in Callers, Cancel(t)
    PROVE  PoolInv'
  <1> USE DEF PoolInv, TypeOK, Cancel
  <1>1. t \in Tasks
    BY DEF Tasks
  <1>2. lockq' \in Seq(Tasks)
    BY <1>1, LeaveLemma
  <1>3. TypeOK'
    <2>1. pc' \in [Tasks -> CallerPc \cup CleanerPc \cup CloserPc]
      BY DEF CallerPc
    <2>2. /\ \A u \in Callers : pc'[u] \in CallerPc
          /\ pc'[Cleaner] \in CleanerPc /\ pc'[Closer] \in CloserPc
      BY TaskAssumption DEF CallerPc, Tasks
    <2>3. conn' \in [Callers -> Conns \cup {NoConn}]
      OBVIOUS
    <2>4. link' \in [Conns -> {"down", "connecting", "open", "closing"}]
      OBVIOUS
    <2> QED BY <1>2, <2>1, <2>2, <2>3, <2>4
  <1>4. LockInv'
    BY LeaveLemma DEF LockInv, CriticalPc, Tasks
  <1>5. ConnInv' /\ EntryInv'
    BY DEF ConnInv, EntryInv, HoldPc, Tasks, CancelPc
  <1>6. LinkInv'
    BY OneOwner DEF ConnInv, LinkInv, LockInv, CriticalPc, Connected, Tasks
  <1>7. StopInv' /\ SweepInv'
    BY DEF SweepInv, SweepPc, Tasks, StopInv, CancelPc
  <1>8. ClosingInv'
    BY OneOwner DEF ClosingInv, Tasks, CancelPc
  <1> QED BY <1>3, <1>4, <1>5, <1>6, <1>7, <1>8

-----------------------------------------------------------------------------
(* The sweep, for every setting of the switches *)

\* What a sweep has visited and keeps is within its limits or in use.
SweptInv ==
    pc[Cleaner] \in SweepPc =>
        \A c \in entries \ (todo \cup gone) : c \in staleIdle \cup staleLife => c \in inUse

\* While a sweep goes on nobody else has the lock.
LEMMA SweepHasLock ==
    ASSUME PoolInv, pc[Cleaner] \in SweepPc
    PROVE  /\ \A t \in Callers : ~Owns(t) /\ pc[t] \notin CriticalPc
           /\ pc[Closer] = "open"
  <1>1. Owns(Cleaner)
    BY DEF PoolInv, LockInv, SweepPc, CriticalPc, Tasks
  <1>2. \A t \in Callers : ~Owns(t)
    BY <1>1, OneOwner, TaskAssumption
  <1>3. \A t \in Callers : pc[t] \notin CriticalPc
    BY <1>2 DEF PoolInv, LockInv, Tasks
  <1>4. pc[Closer] = "open"
    BY DEF PoolInv, StopInv, SweepPc
  <1> QED BY <1>2, <1>3, <1>4

\* A step of a call takes no other task anywhere.
LEMMA CallerGoes ==
    ASSUME PoolInv, NEW t \in Callers, CallerStep(t), NEW u \in Tasks, u # t
    PROVE  pc'[u] = pc[u]
  <1>1. pc \in [Tasks -> CallerPc \cup CleanerPc \cup CloserPc]
    BY DEF PoolInv, TypeOK
  <1>2. CASE GetReuse(t) \/ GetExhausted(t) \/ GetCreate(t) \/ ConnectOk(t) \/ ConnectFail(t)
    BY <1>1, <1>2 DEF GetReuse, GetExhausted, GetCreate, ConnectOk, ConnectFail
  <1>3. CASE Finish(t) \/ Rollback(t) \/ RetIdle(t) \/ RetDead(t)
    BY <1>1, <1>3 DEF Finish, Rollback, RetIdle, RetDead
  <1>4. CASE RetUnknown(t) \/ RetClosed(t)
    BY <1>1, <1>4 DEF RetUnknown, RetClosed
  <1>5. CASE WarmBegin(t) \/ WarmDial(t) \/ WarmOk(t) \/ WarmFail(t) \/ WarmEnd(t)
    BY <1>1, <1>5 DEF WarmBegin, WarmDial, WarmOk, WarmFail, WarmEnd
  <1> QED BY <1>2, <1>3, <1>4, <1>5 DEF CallerStep

\* A step of a call without the lock is the end of its dialling.
LEMMA UnlockedStep ==
    ASSUME NEW t, CallerStep(t), ~Owns(t), pc[t] \notin CriticalPc
    PROVE  ConnectOk(t) \/ ConnectFail(t)
  <1>1. ~(GetReuse(t) \/ GetExhausted(t) \/ GetCreate(t) \/ Finish(t) \/ Rollback(t))
    BY DEF GetReuse, GetExhausted, GetCreate, Finish, Rollback
  <1>2. ~(RetIdle(t) \/ RetDead(t) \/ RetUnknown(t) \/ RetClosed(t))
    BY DEF RetIdle, RetDead, RetUnknown, RetClosed, CriticalPc
  <1>3. ~(WarmBegin(t) \/ WarmDial(t) \/ WarmOk(t) \/ WarmFail(t) \/ WarmEnd(t))
    BY DEF WarmBegin, WarmDial, WarmOk, WarmFail, WarmEnd, CriticalPc
  <1> QED BY <1>1, <1>2, <1>3 DEF CallerStep

\* SweptInv speaks of the lists only while a sweep goes on.
LEMMA SweptFrame ==
    ASSUME SweptInv, pc'[Cleaner] = pc[Cleaner],
           pc[Cleaner] \in SweepPc => UNCHANGED <<pool, sweep>>
    PROVE  SweptInv'
  BY DEF SweptInv

\* A caller's step during a sweep leaves the lists alone.
LEMMA CallerSwept ==
    ASSUME PoolInv, SweptInv, NEW t \in Callers, CallerStep(t)
    PROVE  SweptInv'
  <1>1. pc'[Cleaner] = pc[Cleaner]
    BY CallerGoes, TaskAssumption DEF Tasks
  <1>2. CASE pc[Cleaner] \in SweepPc
    <2>1. ConnectOk(t) \/ ConnectFail(t)
      BY <1>2, SweepHasLock, UnlockedStep
    <2>2. UNCHANGED <<pool, sweep>>
      BY <2>1 DEF ConnectOk, ConnectFail
    <2> QED BY <1>1, <2>2, SweptFrame
  <1>3. CASE pc[Cleaner] \notin SweepPc
    BY <1>1, <1>3, SweptFrame
  <1> QED BY <1>2, <1>3

\* The sweep keeps what is within its limits or in use.
LEMMA CleanerSwept ==
    ASSUME PoolInv, SweptInv, CleanerStep
    PROVE  SweptInv'
  <1>1. pc \in [Tasks -> CallerPc \cup CleanerPc \cup CloserPc] /\ Cleaner \in Tasks
    BY DEF PoolInv, TypeOK, Tasks
  <1>2. CASE CleanWake \/ CleanBegin \/ CleanEnd
    BY <1>1, <1>2 DEF CleanWake, CleanBegin, CleanEnd, SweptInv, SweepPc
  <1>3. ASSUME NEW c \in Conns, CleanKeep(c)
        PROVE  SweptInv'
    <2>1. c \in staleIdle \cup staleLife => c \in inUse
      BY <1>3 DEF CleanKeep, Doomed, ShouldRemove
    <2> QED BY <1>3, <2>1 DEF CleanKeep, Visited, SweptInv, SweepPc
  <1>4. ASSUME NEW c \in Conns, CleanRemove(c) \/ CleanClosed(c)
        PROVE  SweptInv'
    <2>1. UNCHANGED <<inUse, staleIdle, staleLife>> /\ Visited(c, TRUE) /\ pc[Cleaner] \in SweepPc
      BY <1>4 DEF CleanRemove, CleanClosed, SweepPc
    <2>2. /\ todo' = todo \ {c}
          /\ \/ entries' = entries \ (gone \cup {c}) /\ gone' = {}
             \/ entries' = entries /\ gone' = gone \cup {c}
      BY <2>1 DEF Visited
    <2> QED BY <2>1, <2>2 DEF SweptInv
  <1>5. ASSUME NEW c \in Conns, CleanClose(c)
        PROVE  SweptInv'
    BY <1>1, <1>5 DEF CleanClose, SweptInv, SweepPc
  <1> QED BY <1>2, <1>3, <1>4, <1>5 DEF CleanerStep

\* Nobody else touches the lists during a sweep.
LEMMA OthersSwept ==
    ASSUME PoolInv, SweptInv, CloserStep \/ Environment \/ UNCHANGED vars
    PROVE  SweptInv'
  <1>1. /\ pc \in [Tasks -> CallerPc \cup CleanerPc \cup CloserPc]
        /\ Cleaner \in Tasks /\ Closer \in Tasks /\ Callers \subseteq Tasks
    BY DEF PoolInv, TypeOK, Tasks
  <1>2. CASE CloserStep
    <2>1. pc[Closer] # "open"
      BY <1>2 DEF CloserStep, CloseQueue, CloseBegin, CloseEnd, CloseEntry, CloseEntryDead,
           CloseEntryDone
    <2>2. pc[Cleaner] \notin SweepPc
      BY <2>1, SweepHasLock
    <2>3. pc'[Cleaner] = pc[Cleaner]
      BY <1>1, <1>2, TaskAssumption DEF CloserStep, CloseQueue, CloseBegin, CloseEnd,
           CloseEntry, CloseEntryDead, CloseEntryDone
    <2> QED BY <2>2, <2>3, SweptFrame
  <1>3. CASE Start \/ CloseCall
    BY <1>1, <1>3, TaskAssumption DEF Start, CloseCall, SweptInv, SweepPc
  <1>4. ASSUME NEW t \in Callers, GetCall(t) \/ RetCall(t) \/ WarmCall(t) \/ Adopt(t) \/ Cancel(t)
        PROVE  SweptInv'
    <2>1. pc[Cleaner] \in SweepPc => UNCHANGED <<pool, sweep>>
      <3>1. pc[Cleaner] \in SweepPc => pc[t] # "warmconn"
        BY SweepHasLock DEF CriticalPc
      <3> QED BY <1>4, <3>1 DEF GetCall, RetCall, WarmCall, Adopt, Cancel, sweep
    <2>2. pc'[Cleaner] = pc[Cleaner]
      BY <1>1, <1>4, TaskAssumption DEF GetCall, RetCall, WarmCall, Adopt, Cancel
    <2> QED BY <2>1, <2>2, SweptFrame
  <1>5. CASE (\E c \in Conns : Drop(c)) \/ UNCHANGED vars
    BY <1>5, SweptFrame DEF Drop, vars
  <1> QED BY <1>2, <1>3, <1>4, <1>5 DEF Environment

-----------------------------------------------------------------------------
(* The count of idle sessions, for every setting of the switches *)

\* what idle counts at most and at least, and when
Free    == entries \ inUse
Working == {c \in Free : Connected(c)}
Settled == pc[Cleaner] \notin SweepPc /\ pc[Closer] \in {"open", "done"}

IdleInv == Settled => Cardinality(Working) <= idle /\ idle <= Cardinality(Free)

\* What is idle is finite.
LEMMA FiniteIdle ==
    ASSUME PoolInv
    PROVE  /\ IsFiniteSet(Working) /\ IsFiniteSet(Free) /\ idle \in Int
           /\ Cardinality(Working) \in Nat /\ Cardinality(Free) \in Nat
  <1>1. Working \subseteq Conns /\ Free \subseteq Conns /\ idle \in Int
    BY DEF PoolInv, TypeOK, Working, Free
  <1> QED BY <1>1, ConnAssumption, FS_Subset, FS_CardinalityType

\* A free entry is in no caller's hands.
LEMMA FreeUnheld ==
    ASSUME PoolInv, NEW c \in Free
    PROVE  \A u \in Callers : conn[u] # c
  BY ConnAssumption DEF Free, PoolInv, TypeOK, EntryInv, ConnInv, HoldPc, CallerPc, WarmPc

\* A step that at most ends connections of idle sessions,
LEMMA IdleStays ==
    ASSUME PoolInv, IdleInv, Settled' => Settled, Working' \subseteq Working, Free' = Free, idle' = idle
    PROVE  IdleInv'
  <1>1. Cardinality(Working') <= Cardinality(Working) /\ Cardinality(Working') \in Nat
    BY FiniteIdle, FS_Subset, FS_CardinalityType
  <1> QED BY <1>1, FiniteIdle DEF IdleInv

\* one that makes a session idle,
LEMMA IdleRises ==
    ASSUME PoolInv, IdleInv, Settled' => Settled, NEW c, c \notin Free,
           Working' = Working \cup {c}, Free' = Free \cup {c}, idle' = idle + 1
    PROVE  IdleInv'
  <1>1. c \notin Working
    BY DEF Working
  <1>2. Cardinality(Working') = Cardinality(Working) + 1 /\ Cardinality(Free') = Cardinality(Free) + 1
    BY <1>1, FiniteIdle, FS_AddElement
  <1> QED BY <1>2, FiniteIdle DEF IdleInv

\* and one that takes an idle session that works keep the bounds.
LEMMA IdleFalls ==
    ASSUME PoolInv, IdleInv, Settled' => Settled, NEW c \in Working,
           Working' = Working \ {c}, Free' = Free \ {c}, idle' = idle - 1
    PROVE  IdleInv'
  <1>1. c \in Free
    BY DEF Working
  <1>2. Cardinality(Working') = Cardinality(Working) - 1 /\ Cardinality(Free') = Cardinality(Free) - 1
    BY <1>1, FiniteIdle, FS_RemoveElement
  <1> QED BY <1>2, FiniteIdle DEF IdleInv

\* Every step of a call keeps the bounds.
LEMMA CallerIdle ==
    ASSUME PoolInv, IdleInv, NEW t \in Callers, CallerStep(t)
    PROVE  IdleInv'
  <1> USE DEF PoolInv, TypeOK
  <1>1. Settled' = Settled
    BY CallerGoes, TaskAssumption DEF Settled, Tasks
  <1>2. CASE GetReuse(t)
    <2>1. PICK c \in Reusable(t) : inUse' = inUse \cup {c}
      BY <1>2 DEF GetReuse
    <2>2. c \in Working
      BY <2>1 DEF Reusable, Working, Free
    <2>3. UNCHANGED <<entries, link>> /\ idle' = idle - 1
      BY <1>2 DEF GetReuse
    <2>4. Working' = Working \ {c} /\ Free' = Free \ {c}
      BY <2>1, <2>3 DEF Working, Free, Connected
    <2> QED BY <1>1, <2>2, <2>3, <2>4, IdleFalls
  <1>3. CASE RetIdle(t)
    <2>1. /\ conn[t] \in inUse /\ link[conn[t]] = "open" /\ inUse' = inUse \ {conn[t]}
          /\ idle' = idle + 1 /\ UNCHANGED <<entries, link>>
      BY <1>3 DEF RetIdle, EntryInv, HoldPc, Connected
    <2>2. /\ conn[t] \notin Free
          /\ Working' = Working \cup {conn[t]} /\ Free' = Free \cup {conn[t]}
      BY <2>1 DEF Working, Free, Connected
    <2> QED BY <1>1, <2>1, <2>2, IdleRises
  <1>4. CASE WarmOk(t)
    <2>1. /\ conn[t] \in Conns \ entries /\ entries' = entries \cup {conn[t]}
          /\ link' = [link EXCEPT ![conn[t]] = "open"]
          /\ idle' = idle + 1 /\ UNCHANGED inUse
      BY <1>4 DEF WarmOk, ConnInv, EntryInv
    <2>2. /\ conn[t] \notin Free
          /\ Working' = Working \cup {conn[t]} /\ Free' = Free \cup {conn[t]}
      BY <2>1 DEF Working, Free, Connected
    <2> QED BY <1>1, <2>1, <2>2, IdleRises
  <1>5. CASE ConnectOk(t)
    <2>1. conn[t] \notin Free
      BY FreeUnheld
    <2>2. Working' = Working /\ Free' = Free /\ idle' = idle
      BY <1>5, <2>1 DEF ConnectOk, Working, Free, Connected
    <2> QED BY <1>1, <2>2, IdleStays
  <1>6. CASE GetCreate(t) \/ Rollback(t) \/ RetDead(t)
    <2>1. /\ link'[conn[t]] # "open" \/ UNCHANGED link
          /\ \A c \in Conns \ {conn[t]} : link'[c] = link[c]
          /\ idle' = idle /\ Free' = Free
      <3>1. CASE GetCreate(t)
        BY <3>1, ConnAssumption DEF GetCreate, ConnInv, EntryInv, Free
      <3>2. CASE Rollback(t)
        BY <3>2 DEF Rollback, EntryInv, HoldPc, Free
      <3>3. CASE RetDead(t)
        BY <3>3 DEF RetDead, EntryInv, HoldPc, Free
      <3> QED BY <1>6, <3>1, <3>2, <3>3
    <2>2. Working' \subseteq Working
      BY <2>1 DEF Working, Free, Connected
    <2> QED BY <1>1, <2>1, <2>2, IdleStays
  <1>7. CASE \/ GetExhausted(t) \/ ConnectFail(t) \/ Finish(t) \/ RetUnknown(t) \/ RetClosed(t)
             \/ WarmBegin(t) \/ WarmDial(t) \/ WarmFail(t) \/ WarmEnd(t)
    <2>1. /\ UNCHANGED <<entries, inUse, idle>>
          /\ \A c \in Conns : link'[c] = "open" => link[c] = "open"
      <3>1. CASE GetExhausted(t) \/ ConnectFail(t) \/ Finish(t)
        BY <3>1 DEF GetExhausted, ConnectFail, Finish
      <3>2. CASE RetUnknown(t) \/ RetClosed(t)
        BY <3>2 DEF RetUnknown, RetClosed
      <3>3. CASE WarmBegin(t) \/ WarmDial(t) \/ WarmFail(t) \/ WarmEnd(t)
        BY <3>3 DEF WarmBegin, WarmDial, WarmFail, WarmEnd
      <3> QED BY <1>7, <3>1, <3>2, <3>3
    <2>2. Working' \subseteq Working /\ Free' = Free /\ idle' = idle
      BY <2>1 DEF Working, Free, Connected
    <2> QED BY <1>1, <2>2, IdleStays
  <1> QED BY <1>2, <1>3, <1>4, <1>5, <1>6, <1>7 DEF CallerStep

\* A sweep counts anew what is idle.
LEMMA CleanerIdle ==
    ASSUME PoolInv, IdleInv, CleanerStep
    PROVE  IdleInv'
  <1> USE DEF PoolInv, TypeOK
  <1>1. Cleaner \in Tasks /\ Closer \in Tasks
    BY DEF Tasks
  <1>2. CASE CleanWake
    <2>1. Settled' => Settled
      BY <1>1, <1>2, TaskAssumption DEF CleanWake, Settled, SweepPc
    <2>2. Working' = Working /\ Free' = Free /\ idle' = idle
      BY <1>2 DEF CleanWake, Working, Free, Connected
    <2> QED BY <2>1, <2>2, IdleStays
  <1>3. CASE CleanEnd
    <2>1. Working' = Working /\ Free' = Free /\ idle' = Cardinality(Working)
      BY <1>3 DEF CleanEnd, Working, Free, Connected
    <2>2. Working \subseteq Free
      BY DEF Working
    <2>3. Cardinality(Working) <= Cardinality(Free)
      BY <2>2, FiniteIdle, FS_Subset
    <2> QED BY <2>1, <2>3, FiniteIdle DEF IdleInv
  <1>4. CASE CleanBegin \/ \E c \in Conns : CleanKeep(c) \/ CleanRemove(c) \/ CleanClose(c) \/ CleanClosed(c)
    <2>1. pc'[Cleaner] \in SweepPc
      BY <1>1, <1>4 DEF CleanBegin, CleanKeep, CleanRemove, CleanClose, CleanClosed, SweepPc
    <2> QED BY <2>1 DEF IdleInv, Settled
  <1> QED BY <1>2, <1>3, <1>4 DEF CleanerStep

\* close() leaves nothing idle, and counts nothing.
LEMMA CloserIdle ==
    ASSUME PoolInv, IdleInv, CloserStep
    PROVE  IdleInv'
  <1> USE DEF PoolInv, TypeOK
  <1>1. CASE CloseEnd
    <2>1. Working' = {} /\ Free' = {} /\ idle' = 0
      BY <1>1 DEF CloseEnd, Working, Free
    <2> QED BY <2>1, FS_EmptySet DEF IdleInv
  <1>2. CASE CloseQueue \/ CloseBegin \/ \E c \in Conns : CloseEntry(c) \/ CloseEntryDead(c) \/ CloseEntryDone(c)
    <2>1. pc'[Closer] \in {"close", "closing", "closewait"}
      BY <1>2 DEF CloseQueue, CloseBegin, CloseEntry, CloseEntryDead, CloseEntryDone, Tasks
    <2> QED BY <2>1 DEF IdleInv, Settled
  <1> QED BY <1>1, <1>2 DEF CloserStep

\* Calls, cancellations and lost connections make nothing idle.
LEMMA EnvironmentIdle ==
    ASSUME PoolInv, IdleInv, Environment \/ UNCHANGED vars
    PROVE  IdleInv'
  <1> USE DEF PoolInv, TypeOK
  <1>1. Cleaner \in Tasks /\ Closer \in Tasks /\ Callers \subseteq Tasks
    BY DEF Tasks
  <1>2. CASE CloseCall
    <2>1. pc'[Closer] = "stopping"
      BY <1>1, <1>2, TaskAssumption DEF CloseCall
    <2> QED BY <2>1 DEF IdleInv, Settled
  <1>3. CASE ~CloseCall
    <2>1. Settled' => Settled
      BY <1>1, <1>3, TaskAssumption
         DEF Environment, Start, GetCall, RetCall, WarmCall, Adopt, Cancel, Drop, vars, Settled, SweepPc
    <2>2. UNCHANGED pool
      BY <1>3 DEF Environment, Start, GetCall, RetCall, WarmCall, Adopt, Cancel, Drop, vars
    <2>3. \A c \in entries : link'[c] = "open" => link[c] = "open"
      <3>1. CASE \E t \in Callers : Adopt(t)
        BY <3>1 DEF Adopt, Spare
      <3>2. CASE \E t \in Callers : Cancel(t)
        BY <3>2 DEF Cancel
      <3>3. CASE Start \/ (\E t \in Callers : GetCall(t) \/ RetCall(t) \/ WarmCall(t)) \/ UNCHANGED vars
        BY <3>3 DEF Start, GetCall, RetCall, WarmCall, vars
      <3>4. CASE \E c \in Conns : Drop(c)
        BY <3>4 DEF Drop
      <3> QED BY <1>3, <3>1, <3>2, <3>3, <3>4 DEF Environment
    <2>4. Working' \subseteq Working /\ Free' = Free /\ idle' = idle
      BY <2>2, <2>3 DEF Working, Free, Connected
    <2> QED BY <2>1, <2>4, IdleStays
  <1> QED BY <1>2, <1>3

-----------------------------------------------------------------------------
(* The theorems *)

\* The pool starts in the invariant: nothing is listed, lent or counted.
LEMMA InitInv == Init => PoolInv
  <1> SUFFICES ASSUME Init PROVE PoolInv
    OBVIOUS
  <1> USE DEF Init
  <1>1. TypeOK
    BY TaskAssumption DEF TypeOK, Tasks, CallerPc, WarmPc, CleanerPc, CloserPc
  <1>2. LockInv /\ ConnInv /\ EntryInv
    BY TaskAssumption DEF LockInv, ConnInv, EntryInv, CriticalPc, HoldPc, Tasks
  <1>3. LinkInv /\ StopInv /\ SweepInv /\ ClosingInv
    BY TaskAssumption
       DEF LinkInv, StopInv, SweepInv, SweepPc, ClosingInv, Tasks
  <1> QED BY <1>1, <1>2, <1>3 DEF PoolInv

\* Every step of a caller's call keeps the invariant.
LEMMA CallerStepInv ==
    ASSUME PoolInv, NEW t \in Callers, CallerStep(t)
    PROVE  PoolInv'
  BY GetReuseInv, GetExhaustedInv, GetCreateInv, ConnectOkInv, ConnectFailInv,
     FinishInv, RollbackInv, RetIdleInv, RetDeadInv, RetUnknownInv,
     RetClosedInv, WarmBeginInv, WarmDialInv, WarmOkInv, WarmFailInv, WarmEndInv
     DEF CallerStep

\* So does every step of a sweep.
LEMMA CleanerStepInv ==
    ASSUME PoolInv, CleanerStep
    PROVE  PoolInv'
  BY CleanWakeInv, CleanBeginInv, CleanEndInv, CleanKeepInv, CleanRemoveInv,
     CleanCloseInv, CleanClosedInv
     DEF CleanerStep

\* So does every step of close().
LEMMA CloserStepInv ==
    ASSUME PoolInv, CloserStep
    PROVE  PoolInv'
  BY CloseQueueInv, CloseBeginInv, CloseEndInv, CloseEntryInv,
     CloseEntryDeadInv, CloseEntryDoneInv
     DEF CloserStep

\* So does whatever callers, cancellation and the network may do.
LEMMA EnvironmentInv ==
    ASSUME PoolInv, Environment
    PROVE  PoolInv'
  BY StartInv, CloseCallInv, GetCallInv, RetCallInv, WarmCallInv, AdoptInv,
     CancelInv, DropInv
     DEF Environment

\* A stuttering step changes nothing the invariant speaks of.
LEMMA StutterInv ==
    ASSUME PoolInv, UNCHANGED vars
    PROVE  PoolInv'
  <1> USE DEF vars
  <1>1. TypeOK'
    BY DEF PoolInv, TypeOK
  <1>2. LockInv' /\ ConnInv' /\ EntryInv'
    BY DEF PoolInv, LockInv, Owns, ConnInv, EntryInv
  <1>3. LinkInv' /\ StopInv' /\ SweepInv' /\ ClosingInv'
    BY DEF PoolInv, LinkInv, StopInv, SweepInv, ClosingInv, Connected
  <1> QED BY <1>1, <1>2, <1>3 DEF PoolInv

\* PoolInv holds in every reachable state, for every set of callers and
\* sessions, every capacity and every setting of the switches
\* (pool.py:90-314).
THEOREM PoolInvariant == Spec => []PoolInv
  <1>1. PoolInv /\ [Next]_vars => PoolInv'
    BY CallerStepInv, CleanerStepInv, CloserStepInv, EnvironmentInv, StutterInv
       DEF Next
  <1> QED BY InitInv, <1>1, PTL DEF Spec

\* The variables keep their types.
THEOREM PoolTypes == Spec => []TypeOK
  <1>1. PoolInv => TypeOK
    BY DEF PoolInv
  <1> QED BY <1>1, PoolInvariant, PTL

\* Two callers never have the same session (pool.py:148-172, 213-226).
THEOREM ExclusiveTheorem == Spec => []Exclusive
  <1>1. PoolInv => Exclusive
    BY DEF PoolInv, ConnInv, Exclusive, HoldPc
  <1> QED BY <1>1, PoolInvariant, PTL

\* What a sweep is closing is in nobody's hands: the lock shows that no
\* return is closing it, the closer has not begun while the cleanup task
\* lives, so it is an entry that is not in use (pool.py:263-265).
THEOREM SweepTheorem == Spec => []SweepSparesLeases
  <1>1. PoolInv => SweepSparesLeases
    <2> SUFFICES ASSUME PoolInv, pc[Cleaner] = "sweepwait",
                        NEW t \in Callers, pc[t] \in HoldPc,
                        link[conn[t]] = "closing"
                 PROVE  FALSE
      BY DEF SweepSparesLeases, Leased
    <2>1. Owns(Cleaner)
      BY DEF PoolInv, LockInv, CriticalPc, Tasks
    <2>2. \A u \in Callers : pc[u] # "retclose"
      BY <2>1, OneOwner, TaskAssumption DEF PoolInv, LockInv, CriticalPc, Tasks
    <2>3. pc[Closer] = "open"
      BY DEF PoolInv, StopInv
    <2>4. conn[t] \in Conns
      BY DEF PoolInv, TypeOK, ConnInv, HoldPc
    <2>5. conn[t] \in entries \ inUse
      BY <2>2, <2>3, <2>4 DEF PoolInv, ClosingInv
    <2> QED BY <2>5 DEF PoolInv, EntryInv
  <1> QED BY <1>1, PoolInvariant, PTL

\* A finished sweep leaves what is past its limits only to who had it in use,
\* for every setting of the switches (pool.py:252-271, 285-291).
THEOREM SweepLimitsTheorem == Spec => SweepEnforcesIdleLimits
  <1>1. Init => SweptInv
    BY TaskAssumption DEF Init, SweptInv, SweepPc, Tasks
  <1>2. PoolInv /\ SweptInv /\ [Next]_vars => SweptInv'
    BY CallerSwept, CleanerSwept, OthersSwept DEF Next
  <1>3. PoolInv /\ SweptInv /\ CleanEnd => entries' \cap (staleIdle \cup staleLife) \subseteq inUse
    <2> SUFFICES ASSUME PoolInv, SweptInv, CleanEnd
                 PROVE  entries' \cap (staleIdle \cup staleLife) \subseteq inUse
      OBVIOUS
    <2>1. pc[Cleaner] \in SweepPc /\ todo = {} /\ entries' = entries
      BY DEF CleanEnd, SweepPc
    <2>2. gone = {}
      BY <2>1, SweepHasLock DEF PoolInv, SweepInv
    <2> QED BY <2>1, <2>2 DEF SweptInv
  <1>4. PoolInv /\ SweptInv
           => [CleanEnd => entries' \cap (staleIdle \cup staleLife) \subseteq inUse]_vars
    BY <1>3
  <1> QED BY <1>1, <1>2, <1>4, PoolInvariant, PTL DEF Spec, SweepEnforcesIdleLimits

\* The idle count lies between the idle sessions that work and all that are
\* idle, for every setting of the switches (pool.py:153, 218, 224, 279-283, 322).
THEOREM IdleTheorem == Spec => []IdleIsBounded
  <1>1. Init => IdleInv
    <2>1. Init => Working = {} /\ Free = {} /\ idle = 0
      BY DEF Init, Working, Free
    <2> QED BY <2>1, FS_EmptySet DEF IdleInv
  <1>2. PoolInv /\ IdleInv /\ [Next]_vars => IdleInv'
    BY CallerIdle, CleanerIdle, CloserIdle, EnvironmentIdle DEF Next
  <1>3. IdleInv => IdleIsBounded
    BY DEF IdleInv, Settled, SweepPc, Working, Free, IdleIsBounded
  <1> QED BY <1>1, <1>2, <1>3, PoolInvariant, PTL DEF Spec

=============================================================================
