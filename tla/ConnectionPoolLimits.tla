------------------------- MODULE ConnectionPoolLimits -------------------------
(***************************************************************************)
(* Theorems about ConnectionPool's counters, about close() and about the   *)
(* refinement of LeasePool, for every set of callers and sessions and      *)
(* every capacity.  They are for Disciplined callers, who no longer ask    *)
(* once close() was called and return only what they got, but may be       *)
(* cancelled wherever they wait; only that total is exact needs that they  *)
(* are not.  LimitInv, inductive together with PoolInv, says what total    *)
(* counts, and that close() queues behind every caller who may still open  *)
(* a connection.                                                           *)
(***************************************************************************)
EXTENDS ConnectionPoolLease, ConnectionPoolProofs

USE DEF Goto, Holds, SetLink, Touch, Forget, pool, sweep

Disciplined == ~UseAfterClose /\ ~ForeignReturns

\* Entries nobody will return: their attempt failed after a sweep had replaced
\* the list, or their caller was cancelled and the connection is down by now.
Lost == {c \in Orphans : Cancellable => link[c] = "down"}

\* what total counts, besides the slots cancelled callers have left taken
Counted == entries \ (Lost \cup gone)

-----------------------------------------------------------------------------
(* The inductive invariant, with PoolInv *)

\* Calls that will ask for the lock no more before they may open a connection.
AskPc == {"get"} \cup WarmPc

\* They queue, ahead of close(): the lock is granted in order.
AheadInv ==
    /\ \A t \in Callers : pc[t] \in AskPc => Queued(t)
    /\ \A k \in 1 .. Len(lockq) : lockq[k] = Closer =>
          /\ pc[Closer] \notin {"open", "stopping"}
          /\ \A t \in Callers : pc[t] \in AskPc => \E i \in 1 .. k - 1 : lockq[i] = t
    /\ pc[Closer] \in {"closing", "closewait", "done"} => \A t \in Callers : pc[t] \notin AskPc

\* What a caller has is listed until close() is through.
HeldInv ==
    \A t \in Callers :
        /\ pc[t] \in HoldPc /\ pc[Closer] # "done" => conn[t] \in entries
        /\ pc[t] # "retclose"
        /\ pc[t] = "rollback" => link[conn[t]] = "down"

\* Every connection is counted, but for the one a warm-up is opening.
LiveInv ==
    /\ \A c \in Conns : link[c] # "down" =>
          c \in Counted \/ \E t \in Callers : pc[t] = "warmconn" /\ conn[t] = c
    /\ \A c \in Conns : link[c] = "connecting" =>
          \E t \in Callers : pc[t] \in {"connect", "warmconn"} /\ conn[t] = c

\* close() leaves no connection behind it.
CloseInv ==
    /\ pc[Closer] \in {"closing", "closewait"} =>
          \A c \in entries \ todo : link[c] = "down"
    /\ pc[Closer] = "done" =>
          /\ entries = {} /\ total = 0
          /\ \A c \in Conns : link[c] = "down"

CountInv ==
    /\ Cardinality(Counted) <= total /\ total <= MaxConnections
    /\ ~Cancellable => total = Cardinality(Counted)
    /\ \A t \in Callers : pc[t] = "warmconn" => total < MaxConnections

LimitInv == AheadInv /\ HeldInv /\ LiveInv /\ CloseInv /\ CountInv

-----------------------------------------------------------------------------
(* What a step does to the queue *)

Early == {"open", "stopping"}
Late  == {"closing", "closewait", "done"}

\* A step that leaves the queue alone and asks for nothing,
LEMMA AheadStays ==
    ASSUME AheadInv, UNCHANGED lockq,
           \A u \in Callers : pc'[u] \in AskPc => pc[u] \in AskPc,
           pc'[Closer] \in Early => pc[Closer] \in Early,
           pc'[Closer] \in Late => pc[Closer] \in Late
    PROVE  AheadInv'
  BY DEF AheadInv, Queued, Early, Late

\* a task but the closer that joins it,
LEMMA AheadJoins ==
    ASSUME AheadInv, lockq \in Seq(Tasks), NEW t \in Tasks, Enqueue(t), t # Closer,
           \A u \in Callers : pc'[u] \in AskPc => pc[u] \in AskPc \/ (u = t /\ pc[Closer] \in Early),
           pc'[Closer] = pc[Closer]
    PROVE  AheadInv'
  <1>1. /\ Len(lockq') = Len(lockq) + 1 /\ lockq'[Len(lockq) + 1] = t
        /\ \A i \in 1 .. Len(lockq) : lockq'[i] = lockq[i]
        /\ Len(lockq) \in Nat
    BY Joined
  <1>2. ASSUME NEW u \in Callers, pc'[u] \in AskPc
        PROVE  Queued(u)'
    BY <1>1, <1>2 DEF AheadInv, Queued
  <1>3. ASSUME NEW k \in 1 .. Len(lockq'), lockq'[k] = Closer
        PROVE  /\ pc'[Closer] \notin Early
               /\ \A u \in Callers : pc'[u] \in AskPc => \E i \in 1 .. k - 1 : lockq'[i] = u
    <2>1. k \in 1 .. Len(lockq) /\ lockq[k] = Closer
      BY <1>1, <1>3
    <2>2. pc[Closer] \notin Early
      BY <2>1 DEF AheadInv, Early
    <2>3. \A u \in Callers : pc'[u] \in AskPc => \E i \in 1 .. k - 1 : lockq[i] = u
      BY <2>1, <2>2 DEF AheadInv
    <2>4. \A i \in 1 .. k - 1 : lockq'[i] = lockq[i]
      BY <1>1, <2>1
    <2> QED BY <2>2, <2>3, <2>4
  <1>4. pc'[Closer] \in Late => \A u \in Callers : pc'[u] \notin AskPc
    BY DEF AheadInv, Early, Late
  <1> QED BY <1>2, <1>3, <1>4 DEF AheadInv, Early, Late

\* and one that leaves it having what it asked for, keep the order.
LEMMA AheadLeaves ==
    ASSUME AheadInv, lockq \in Seq(Tasks), NEW t \in Tasks, Owns(t), Release,
           \A u \in Callers : pc'[u] \in AskPc => pc[u] \in AskPc /\ u # t,
           pc'[Closer] \in Early => pc[Closer] \in Early,
           pc'[Closer] \in Late => pc[Closer] \in Late
    PROVE  AheadInv'
  <1>1. /\ lockq[1] = t /\ Len(lockq') = Len(lockq) - 1
        /\ \A i \in 1 .. Len(lockq) - 1 : lockq'[i] = lockq[i + 1]
        /\ Len(lockq) \in Nat /\ Len(lockq) >= 1
    BY MovedUp
  <1>2. ASSUME NEW u \in Callers, pc'[u] \in AskPc
        PROVE  Queued(u)'
    <2>1. PICK i \in 1 .. Len(lockq) : lockq[i] = u
      BY <1>2 DEF AheadInv, Queued
    <2>2. i - 1 \in 1 .. Len(lockq) - 1 /\ lockq'[i - 1] = u
      BY <1>1, <1>2, <2>1
    <2> QED BY <1>1, <2>2 DEF Queued
  <1>3. ASSUME NEW k \in 1 .. Len(lockq'), lockq'[k] = Closer
        PROVE  /\ pc'[Closer] \notin Early
               /\ \A u \in Callers : pc'[u] \in AskPc => \E i \in 1 .. k - 1 : lockq'[i] = u
    <2>1. k + 1 \in 1 .. Len(lockq) /\ lockq[k + 1] = Closer
      BY <1>1, <1>3
    <2>2. pc'[Closer] \notin Early
      BY <2>1 DEF AheadInv, Early
    <2>3. ASSUME NEW u \in Callers, pc'[u] \in AskPc
          PROVE  \E i \in 1 .. k - 1 : lockq'[i] = u
      <3>1. PICK i \in 1 .. k : lockq[i] = u
        BY <2>1, <2>3 DEF AheadInv
      <3>2. i - 1 \in 1 .. k - 1 /\ lockq'[i - 1] = u
        BY <1>1, <2>1, <2>3, <3>1
      <3> QED BY <3>2
    <2> QED BY <2>2, <2>3
  <1>4. pc'[Closer] \in Late => \A u \in Callers : pc'[u] \notin AskPc
    BY DEF AheadInv, Late
  <1> QED BY <1>2, <1>3, <1>4 DEF AheadInv, Early, Late

\* One that quits, wherever it stood, keeps the order of the others.
LEMMA AheadQuits ==
    ASSUME AheadInv, lockq \in Seq(Tasks), NEW t \in Callers, Leave(t), t # Closer,
           \A u \in Callers : pc'[u] \in AskPc => pc[u] \in AskPc /\ u # t,
           pc'[Closer] = pc[Closer]
    PROVE  AheadInv'
  <1>1. t \in Tasks /\ Callers \subseteq Tasks
    BY DEF Tasks
  <1>2. \A u \in Callers : pc'[u] \in AskPc => Queued(u)'
    BY <1>1, QueuedLemma DEF AheadInv
  <1>3. ASSUME NEW k \in 1 .. Len(lockq'), lockq'[k] = Closer
        PROVE  /\ pc'[Closer] \notin Early
               /\ \A u \in Callers : pc'[u] \in AskPc => \E i \in 1 .. k - 1 : lockq'[i] = u
    <2>1. CASE ~Queued(t)
      <3>1. lockq' = lockq
        BY <2>1 DEF Leave
      <3> QED BY <1>3, <3>1 DEF AheadInv, Early
    <2>2. CASE Queued(t)
      <3>1. PICK n \in 1 .. Len(lockq) :
               /\ lockq[n] = t /\ Len(lockq') = Len(lockq) - 1
               /\ \A i \in 1 .. n - 1 : lockq'[i] = lockq[i]
               /\ \A i \in n .. Len(lockq) - 1 : lockq'[i] = lockq[i + 1]
        BY <1>1, <2>2, LeftOut
      <3> DEFINE m == IF k < n THEN k ELSE k + 1
      <3>2. m \in 1 .. Len(lockq) /\ lockq[m] = Closer /\ Len(lockq) \in Nat
        BY <1>3, <3>1
      <3>3. pc[Closer] \notin Early
        BY <3>2 DEF AheadInv, Early
      <3>4. ASSUME NEW u \in Callers, pc'[u] \in AskPc
            PROVE  \E i \in 1 .. k - 1 : lockq'[i] = u
        <4>1. PICK j \in 1 .. m - 1 : lockq[j] = u
          BY <3>2, <3>4 DEF AheadInv
        <4>2. j # n
          BY <3>1, <3>4, <4>1
        <4>3. CASE j < n
          <5>1. j \in 1 .. k - 1 /\ lockq'[j] = u
            BY <3>1, <3>2, <4>1, <4>3
          <5> QED BY <5>1
        <4>4. CASE j > n
          <5>1. j - 1 \in 1 .. k - 1 /\ lockq'[j - 1] = u
            BY <3>1, <3>2, <4>1, <4>4
          <5> QED BY <5>1
        <4> QED BY <3>1, <4>1, <4>2, <4>3, <4>4
      <3> QED BY <3>3, <3>4
    <2> QED BY <2>1, <2>2
  <1>4. pc'[Closer] \in Late => \A u \in Callers : pc'[u] \notin AskPc
    BY DEF AheadInv, Late
  <1> QED BY <1>2, <1>3, <1>4 DEF AheadInv, Early, Late

-----------------------------------------------------------------------------
(* What a step does to the count *)

\* What is counted is finite.
LEMMA FiniteCounts ==
    ASSUME PoolInv
    PROVE  IsFiniteSet(Counted) /\ Cardinality(Counted) \in Nat
  <1>1. Counted \subseteq Conns
    BY DEF PoolInv, TypeOK, Counted
  <1> QED BY <1>1, ConnAssumption, FS_Subset, FS_CardinalityType

\* A step that leaves it alone,
LEMMA CountStays ==
    ASSUME CountInv, Counted' = Counted, total' = total,
           \A u \in Callers : pc'[u] = "warmconn" => total < MaxConnections
    PROVE  CountInv'
  BY DEF CountInv

\* one that ends a counted entry,
LEMMA CountFalls ==
    ASSUME PoolInv, CountInv, NEW c \in Counted, Counted' = Counted \ {c}, total' = Minus(total, 1),
           \A u \in Callers : pc'[u] = "warmconn" => pc[u] = "warmconn"
    PROVE  CountInv'
  <1>1. Cardinality(Counted \ {c}) = Cardinality(Counted) - 1
    BY FiniteCounts, FS_RemoveElement
  <1>2. Cardinality(Counted) \in Nat /\ Cardinality(Counted) # 0
    BY FiniteCounts, FS_EmptySet
  <1>3. total \in Nat /\ total' = total - 1
    BY <1>2 DEF PoolInv, TypeOK, CountInv, Minus
  <1> QED BY <1>1, <1>2, <1>3, CapacityAssumption DEF CountInv

\* one that loses a counted entry, whose slot stays taken,
LEMMA CountSinks ==
    ASSUME PoolInv, CountInv, Counted' \subseteq Counted, total' = total,
           ~Cancellable => Counted' = Counted,
           \A u \in Callers : pc'[u] = "warmconn" => pc[u] = "warmconn"
    PROVE  CountInv'
  <1>1. Cardinality(Counted') <= Cardinality(Counted) /\ Cardinality(Counted') \in Nat
    BY FiniteCounts, FS_Subset, FS_CardinalityType
  <1>2. total \in Nat
    BY DEF PoolInv, TypeOK
  <1>3. Cardinality(Counted') <= total'
    BY <1>1, <1>2, FiniteCounts DEF CountInv
  <1> QED BY <1>3 DEF CountInv

\* and one that takes a slot no warm-up is about to take keep the count.
LEMMA CountRises ==
    ASSUME PoolInv, CountInv, NEW c, c \notin Counted, Counted' = Counted \cup {c},
           total' = total + 1, total < MaxConnections,
           \A u \in Callers : pc'[u] # "warmconn"
    PROVE  CountInv'
  <1>1. Cardinality(Counted \cup {c}) = Cardinality(Counted) + 1
    BY FiniteCounts, FS_AddElement
  <1>2. total \in Nat
    BY DEF PoolInv, TypeOK
  <1> QED BY <1>1, <1>2, FiniteCounts, CapacityAssumption DEF CountInv

\* An entry that is no longer counted when connections end and callers give up
\* has no connection.
LEMMA LinksFall ==
    ASSUME PoolInv, UNCHANGED <<entries, inUse, gone>>, Orphans \subseteq Orphans',
           ~Cancellable => Orphans' = Orphans,
           \A c \in Conns : link'[c] \in {link[c], "down"}
    PROVE  /\ Counted' \subseteq Counted
           /\ ~Cancellable => Counted' = Counted
           /\ \A c \in Counted : link'[c] # "down" => c \in Counted'
  <1>1. Orphans \subseteq Conns
    BY DEF PoolInv, TypeOK, Orphans
  <1>2. CASE ~Cancellable
    BY <1>2 DEF Counted, Lost
  <1>3. CASE Cancellable
    <2>1. Lost \subseteq Lost'
      BY <1>1, <1>3 DEF Lost
    <2>2. \A c \in Lost' : link'[c] = "down"
      BY <1>3 DEF Lost
    <2> QED BY <1>3, <2>1, <2>2 DEF Counted
  <1> QED BY <1>2, <1>3

-----------------------------------------------------------------------------
(* Every step of disciplined callers keeps the invariant *)

\* Asking comes to an end when close() is called.
LEMMA GetCallLimit ==
    ASSUME Disciplined, PoolInv, LimitInv, NEW t \in Callers, GetCall(t)
    PROVE  LimitInv'
  <1> USE DEF PoolInv, TypeOK, LimitInv, GetCall
  <1>1. PICK c \in Spare : conn' = [conn EXCEPT ![t] = c]
    OBVIOUS
  <1>2. c \in Conns /\ c \notin entries /\ link[c] = "down" /\ conn[t] = NoConn
    BY <1>1 DEF Spare, ConnInv
  <1>3. t \in Tasks /\ t # Closer /\ t # Cleaner /\ pc'[Closer] = pc[Closer] /\ pc'[Cleaner] = pc[Cleaner]
    BY TaskAssumption DEF Tasks
  <1>4. pc[Closer] \in Early
    BY DEF Serving, Disciplined, Early
  <1>5. AheadInv'
    BY <1>3, <1>4, AheadJoins
  <1>6. Counted' = Counted
    BY <1>1, <1>2, ConnAssumption DEF Counted, Lost, Orphans
  <1>7. HeldInv'
    BY <1>1, <1>3 DEF HeldInv, HoldPc
  <1>8. LiveInv'
    BY <1>1, <1>2, <1>6 DEF LiveInv
  <1>9. CloseInv'
    BY <1>3 DEF CloseInv
  <1>10. CountInv'
    BY <1>6, CountStays DEF CountInv
  <1> QED BY <1>5, <1>7, <1>8, <1>9, <1>10

\* Reuse takes one from the idle sessions that work.
LEMMA GetReuseLimit ==
    ASSUME Disciplined, PoolInv, LimitInv, NEW t \in Callers, GetReuse(t)
    PROVE  LimitInv'
  <1> USE DEF PoolInv, TypeOK, LimitInv, GetReuse
  <1>1. PICK c \in Reusable(t) : conn' = [conn EXCEPT ![t] = c] /\ inUse' = inUse \cup {c}
    OBVIOUS
  <1>2. c \in Conns /\ c \in Free /\ link[c] = "open" /\ conn[t] \notin entries
    BY <1>1 DEF Reusable, EntryInv, Free, Connected
  <1>3. t \in Tasks /\ t # Closer /\ t # Cleaner /\ pc'[Closer] = pc[Closer] /\ pc'[Cleaner] = pc[Cleaner]
    BY TaskAssumption DEF Tasks
  <1>4. pc[Closer] \notin Late
    BY DEF AheadInv, AskPc, Late
  <1>5. AheadInv'
    BY <1>3, AheadLeaves DEF AskPc, WarmPc
  <1>6. Counted' = Counted
    <2>1. /\ conn'[t] = c /\ \A u \in Callers \ {t} : conn'[u] = conn[u]
          /\ conn[t] \notin inUse /\ c \notin inUse /\ \A u \in Callers : conn[u] # c
      BY <1>1, <1>2, FreeUnheld DEF Free
    <2>2. Orphans' = Orphans
      BY <1>1, <2>1 DEF Orphans
    <2> QED BY <2>2 DEF Counted, Lost
  <1>7. HeldInv'
    BY <1>1, <1>2, <1>3 DEF HeldInv, HoldPc, Free
  <1>8. LiveInv'
    BY <1>1, <1>2, <1>6 DEF LiveInv
  <1>9. CloseInv'
    BY <1>3, <1>4 DEF CloseInv, Late
  <1>10. CountInv'
    BY <1>6, CountStays DEF CountInv
  <1> QED BY <1>5, <1>7, <1>8, <1>9, <1>10

\* An exhausted call gives up an object that was never listed.
LEMMA GetExhaustedLimit ==
    ASSUME Disciplined, PoolInv, LimitInv, NEW t \in Callers, GetExhausted(t)
    PROVE  LimitInv'
  <1> USE DEF PoolInv, TypeOK, LimitInv, GetExhausted
  <1>2. conn[t] \notin entries
    BY DEF EntryInv
  <1>3. t \in Tasks /\ t # Closer /\ t # Cleaner /\ pc'[Closer] = pc[Closer] /\ pc'[Cleaner] = pc[Cleaner]
    BY TaskAssumption DEF Tasks
  <1>5. AheadInv'
    BY <1>3, AheadLeaves DEF AskPc, WarmPc
  <1>6. Counted' = Counted
    BY <1>2, ConnAssumption DEF Counted, Lost, Orphans
  <1>7. HeldInv'
    BY <1>2, <1>3 DEF HeldInv, HoldPc
  <1>8. LiveInv'
    BY <1>2, <1>6 DEF LiveInv
  <1>9. CloseInv'
    BY <1>3 DEF CloseInv
  <1>10. CountInv'
    BY <1>6, CountStays DEF CountInv
  <1> QED BY <1>5, <1>7, <1>8, <1>9, <1>10

\* A new session takes a slot that was free: no warm-up is under way, which
\* might be about to take it, nor close().
LEMMA GetCreateLimit ==
    ASSUME Disciplined, PoolInv, LimitInv, NEW t \in Callers, GetCreate(t)
    PROVE  LimitInv'
  <1> USE DEF PoolInv, TypeOK, LimitInv, GetCreate
  <1>2. conn[t] \in Conns /\ conn[t] \notin entries /\ \A u \in Callers : u # t => conn[u] # conn[t]
    BY DEF EntryInv, ConnInv
  <1>3. t \in Tasks /\ t # Closer /\ t # Cleaner /\ pc'[Closer] = pc[Closer] /\ pc'[Cleaner] = pc[Cleaner]
    BY TaskAssumption DEF Tasks
  <1>4. pc[Closer] \notin Late
    BY DEF AheadInv, AskPc, Late
  <1>5. AheadInv'
    BY <1>3, AheadLeaves DEF AskPc, WarmPc
  <1>6. conn[t] \notin Counted /\ Counted' = Counted \cup {conn[t]}
    BY <1>2 DEF Counted, Lost, Orphans
  <1>7. HeldInv'
    BY <1>2, <1>3 DEF HeldInv, HoldPc
  <1>8. LiveInv'
    <2>1. \A d \in Conns \ {conn[t]} : link'[d] = link[d]
      BY <1>2
    <2>2. pc'[t] = "connect" /\ conn' = conn /\ \A u \in Callers \ {t} : pc'[u] = pc[u]
      BY <1>3
    <2>3. \A d \in Conns : link'[d] # "down" =>
             d \in Counted' \/ \E u \in Callers : pc'[u] = "warmconn" /\ conn'[u] = d
      BY <1>6, <2>1, <2>2 DEF LiveInv
    <2>4. \A d \in Conns : link'[d] = "connecting" =>
             \E u \in Callers : pc'[u] \in {"connect", "warmconn"} /\ conn'[u] = d
      BY <2>1, <2>2 DEF LiveInv
    <2> QED BY <2>3, <2>4 DEF LiveInv
  <1>9. CloseInv'
    BY <1>3, <1>4 DEF CloseInv, Late
  <1>10. CountInv'
    <2>1. \A u \in Callers : pc'[u] # "warmconn"
      BY <1>3, OneOwner DEF LockInv, CriticalPc, Tasks
    <2> QED BY <1>6, <2>1, CountRises
  <1> QED BY <1>5, <1>7, <1>8, <1>9, <1>10

\* What a caller has is counted, until close() is through.
LEMMA HeldCounted ==
    ASSUME PoolInv, HeldInv, NEW t \in Callers, pc[t] \in HoldPc, pc[Closer] # "done"
    PROVE  conn[t] \in Counted /\ conn[t] \in inUse /\ conn[t] \in Conns
  <1>1. conn[t] \in inUse /\ inUse \subseteq entries /\ entries \subseteq Conns
    BY DEF HeldInv, PoolInv, TypeOK, EntryInv
  <1>2. conn[t] \notin gone
    BY <1>1 DEF PoolInv, LinkInv
  <1> QED BY <1>1, <1>2 DEF Counted, Lost, Orphans

\* Connecting succeeds: close() has waited for it.
LEMMA ConnectOkLimit ==
    ASSUME Disciplined, PoolInv, LimitInv, NEW t \in Callers, ConnectOk(t)
    PROVE  LimitInv'
  <1> USE DEF PoolInv, TypeOK, LimitInv, ConnectOk
  <1>3. t \in Tasks /\ t # Closer /\ t # Cleaner /\ pc'[Closer] = pc[Closer] /\ pc'[Cleaner] = pc[Cleaner]
    BY TaskAssumption DEF Tasks
  <1>1. link[conn[t]] = "connecting" /\ conn[t] \in Conns
    BY DEF LinkInv, ConnInv
  <1>2. pc[Closer] # "done"
    BY <1>1 DEF CloseInv
  <1>4. conn[t] \in Counted /\ conn[t] \in inUse /\ \A u \in Callers \ {t} : conn[u] # conn[t]
    BY <1>2, HeldCounted, ConnAssumption DEF HoldPc, ConnInv
  <1>5. AheadInv'
    <2>1. \A u \in Callers : pc'[u] \in AskPc => pc[u] \in AskPc
      BY DEF AskPc, WarmPc
    <2> QED BY <1>3, <2>1, AheadJoins
  <1>6. Counted' = Counted
    BY DEF Counted, Lost, Orphans
  <1>7. HeldInv'
    BY <1>3, <1>4 DEF HeldInv, HoldPc
  <1>8. LiveInv'
    BY <1>4, <1>6 DEF LiveInv
  <1>9. CloseInv'
    BY <1>1, <1>2, <1>3 DEF CloseInv
  <1>10. CountInv'
    BY <1>6, CountStays DEF CountInv
  <1> QED BY <1>5, <1>7, <1>8, <1>9, <1>10

\* Connecting fails: close() has waited for it.
LEMMA ConnectFailLimit ==
    ASSUME Disciplined, PoolInv, LimitInv, NEW t \in Callers, ConnectFail(t)
    PROVE  LimitInv'
  <1> USE DEF PoolInv, TypeOK, LimitInv, ConnectFail
  <1>3. t \in Tasks /\ t # Closer /\ t # Cleaner /\ pc'[Closer] = pc[Closer] /\ pc'[Cleaner] = pc[Cleaner]
    BY TaskAssumption DEF Tasks
  <1>1. link[conn[t]] = "connecting" /\ conn[t] \in Conns
    BY DEF LinkInv, ConnInv
  <1>2. pc[Closer] # "done"
    BY <1>1 DEF CloseInv
  <1>4. conn[t] \in Counted /\ conn[t] \in inUse /\ \A u \in Callers \ {t} : conn[u] # conn[t]
    BY <1>2, HeldCounted, ConnAssumption DEF HoldPc, ConnInv
  <1>5. AheadInv'
    <2>1. \A u \in Callers : pc'[u] \in AskPc => pc[u] \in AskPc
      BY DEF AskPc, WarmPc
    <2> QED BY <1>3, <2>1, AheadJoins
  <1>6. Counted' = Counted
    BY DEF Counted, Lost, Orphans
  <1>7. HeldInv'
    BY <1>3, <1>4 DEF HeldInv, HoldPc
  <1>8. LiveInv'
    BY <1>4, <1>6 DEF LiveInv
  <1>9. CloseInv'
    BY <1>1, <1>2, <1>3 DEF CloseInv
  <1>10. CountInv'
    BY <1>6, CountStays DEF CountInv
  <1> QED BY <1>5, <1>7, <1>8, <1>9, <1>10

\* The session is its caller's.
LEMMA FinishLimit ==
    ASSUME Disciplined, PoolInv, LimitInv, NEW t \in Callers, Finish(t)
    PROVE  LimitInv'
  <1> USE DEF PoolInv, TypeOK, LimitInv, Finish
  <1>3. t \in Tasks /\ t # Closer /\ t # Cleaner /\ pc'[Closer] = pc[Closer] /\ pc'[Cleaner] = pc[Cleaner]
    BY TaskAssumption DEF Tasks
  <1>5. AheadInv'
    BY <1>3, AheadLeaves DEF AskPc, WarmPc
  <1>6. Counted' = Counted
    BY DEF Counted, Lost, Orphans
  <1>7. HeldInv'
    BY <1>3 DEF HeldInv, HoldPc
  <1>8. LiveInv'
    BY <1>6 DEF LiveInv
  <1>9. CloseInv'
    BY <1>3 DEF CloseInv
  <1>10. CountInv'
    BY <1>6, CountStays DEF CountInv
  <1> QED BY <1>5, <1>7, <1>8, <1>9, <1>10

\* A failed attempt gives its slot back, once: it was counted, listed where it
\* looked or not.
LEMMA RollbackLimit ==
    ASSUME Disciplined, PoolInv, LimitInv, NEW t \in Callers, Rollback(t)
    PROVE  LimitInv'
  <1> USE DEF PoolInv, TypeOK, LimitInv, Rollback
  <1>3. t \in Tasks /\ t # Closer /\ t # Cleaner /\ pc'[Closer] = pc[Closer] /\ pc'[Cleaner] = pc[Cleaner]
    BY TaskAssumption DEF Tasks
  <1>1. conn[t] \in Conns /\ link[conn[t]] = "down" /\ \A u \in Callers \ {t} : conn[u] # conn[t]
    BY ConnAssumption DEF HeldInv, ConnInv
  <1>2. conn[t] \in entries => conn[t] \in inUse
    BY DEF EntryInv, HoldPc
  <1>4. pc[Closer] \notin {"closing", "closewait"}
    BY <1>3, OneOwner DEF LockInv, CriticalPc, Tasks
  <1>5. AheadInv'
    BY <1>3, AheadLeaves DEF AskPc, WarmPc
  <1>6. pc[Closer] # "done" => conn[t] \in Counted /\ Counted' = Counted \ {conn[t]}
    <2> SUFFICES ASSUME pc[Closer] # "done"
                 PROVE  conn[t] \in Counted /\ Counted' = Counted \ {conn[t]}
      OBVIOUS
    <2>1. conn[t] \in Counted /\ conn[t] \in inUse
      BY HeldCounted DEF HoldPc
    <2>2. conn'[t] = NoConn /\ \A u \in Callers \ {t} : conn'[u] = conn[u]
      OBVIOUS
    <2>3. CASE t \in current
      BY <1>1, <2>1, <2>2, <2>3, ConnAssumption DEF Counted, Lost, Orphans
    <2>4. CASE t \notin current
      BY <1>1, <2>1, <2>2, <2>4, ConnAssumption DEF Counted, Lost, Orphans
    <2> QED BY <2>1, <2>3, <2>4
  <1>7. HeldInv'
    BY <1>1, <1>3 DEF HeldInv, HoldPc
  <1>8. LiveInv'
    <2>1. \A d \in Conns : link[d] # "down" /\ d \in Counted => d \in Counted'
      BY <1>1, <1>6 DEF CloseInv
    <2> QED BY <1>1, <1>3, <2>1 DEF LiveInv
  <1>9. CloseInv'
    BY <1>3, <1>4 DEF CloseInv, Minus
  <1>10. CountInv'
    <2>1. CASE pc[Closer] # "done"
      BY <1>3, <1>6, <2>1, CountFalls
    <2>2. CASE pc[Closer] = "done"
      <3>1. Counted = {} /\ Counted' = Counted
        BY <2>2 DEF CloseInv, Counted, Orphans
      <3>2. total = 0 /\ total' = total
        BY <2>2 DEF CloseInv, Minus
      <3> QED BY <1>3, <3>1, <3>2, CountStays DEF CountInv
    <2> QED BY <2>1, <2>2
  <1> QED BY <1>5, <1>7, <1>8, <1>9, <1>10

\* A return takes its place in the queue.
LEMMA RetCallLimit ==
    ASSUME Disciplined, PoolInv, LimitInv, NEW t \in Callers, RetCall(t)
    PROVE  LimitInv'
  <1> USE DEF PoolInv, TypeOK, LimitInv, RetCall
  <1>3. t \in Tasks /\ t # Closer /\ t # Cleaner /\ pc'[Closer] = pc[Closer] /\ pc'[Cleaner] = pc[Cleaner]
    BY TaskAssumption DEF Tasks
  <1>5. AheadInv'
    <2>1. \A u \in Callers : pc'[u] \in AskPc => pc[u] \in AskPc
      BY DEF AskPc, WarmPc
    <2> QED BY <1>3, <2>1, AheadJoins
  <1>6. Counted' = Counted
    BY DEF Counted, Lost, Orphans
  <1>7. HeldInv'
    BY <1>3 DEF HeldInv, HoldPc
  <1>8. LiveInv'
    BY <1>6 DEF LiveInv
  <1>9. CloseInv'
    BY <1>3 DEF CloseInv
  <1>10. CountInv'
    BY <1>6, CountStays DEF CountInv
  <1> QED BY <1>5, <1>7, <1>8, <1>9, <1>10

\* A session that works becomes idle, and was not before.
LEMMA RetIdleLimit ==
    ASSUME Disciplined, PoolInv, LimitInv, NEW t \in Callers, RetIdle(t)
    PROVE  LimitInv'
  <1> USE DEF PoolInv, TypeOK, LimitInv, RetIdle
  <1>3. t \in Tasks /\ t # Closer /\ t # Cleaner /\ pc'[Closer] = pc[Closer] /\ pc'[Cleaner] = pc[Cleaner]
    BY TaskAssumption DEF Tasks
  <1>1. conn[t] \in Conns /\ conn[t] \in inUse /\ \A u \in Callers \ {t} : conn[u] # conn[t]
    BY ConnAssumption DEF ConnInv, EntryInv, HoldPc
  <1>4. pc[Closer] \notin {"closing", "closewait"}
    BY <1>3, OneOwner DEF LockInv, CriticalPc, Tasks
  <1>5. AheadInv'
    BY <1>3, AheadLeaves DEF AskPc, WarmPc
  <1>6. Counted' = Counted
    <2>1. conn'[t] = NoConn /\ \A u \in Callers \ {t} : conn'[u] = conn[u]
      OBVIOUS
    <2>2. Orphans' = Orphans
      BY <1>1, <2>1, ConnAssumption DEF Orphans
    <2> QED BY <2>2 DEF Counted, Lost
  <1>7. HeldInv'
    BY <1>1, <1>3 DEF HeldInv, HoldPc
  <1>8. LiveInv'
    BY <1>1, <1>3, <1>6 DEF LiveInv
  <1>9. CloseInv'
    BY <1>3, <1>4 DEF CloseInv
  <1>10. CountInv'
    BY <1>6, CountStays DEF CountInv
  <1> QED BY <1>5, <1>7, <1>8, <1>9, <1>10

\* A dead session leaves the list, the count, and nothing open.
LEMMA RetDeadLimit ==
    ASSUME Disciplined, PoolInv, LimitInv, NEW t \in Callers, RetDead(t)
    PROVE  LimitInv'
  <1> USE DEF PoolInv, TypeOK, LimitInv, RetDead
  <1>3. t \in Tasks /\ t # Closer /\ t # Cleaner /\ pc'[Closer] = pc[Closer] /\ pc'[Cleaner] = pc[Cleaner]
    BY TaskAssumption DEF Tasks
  <1>1. conn[t] \in Conns /\ conn[t] \in inUse /\ \A u \in Callers \ {t} : conn[u] # conn[t]
    BY ConnAssumption DEF ConnInv, EntryInv, HoldPc
  <1>4. pc[Closer] \notin {"closing", "closewait"}
    BY <1>3, OneOwner DEF LockInv, CriticalPc, Tasks
  <1>2. link[conn[t]] = "down"
    <2>1. link[conn[t]] # "connecting"
      BY <1>1 DEF LiveInv
    <2>2. link[conn[t]] # "closing"
      BY <1>1, <1>4 DEF ClosingInv, HeldInv
    <2> QED BY <1>1, <2>1, <2>2 DEF Connected
  <1>5. AheadInv'
    BY <1>3, AheadLeaves DEF AskPc, WarmPc
  <1>6. conn[t] \in Counted /\ Counted' = Counted \ {conn[t]}
    <2>1. conn'[t] = NoConn /\ \A u \in Callers \ {t} : conn'[u] = conn[u]
      OBVIOUS
    <2>2. conn[t] \in Counted
      BY <1>1, HeldCounted DEF HoldPc, CloseInv
    <2> QED BY <1>1, <2>1, <2>2, ConnAssumption DEF Counted, Lost, Orphans
  <1>7. HeldInv'
    BY <1>1, <1>3 DEF HeldInv, HoldPc
  <1>8. LiveInv'
    BY <1>1, <1>2, <1>3, <1>6 DEF LiveInv
  <1>9. CloseInv'
    BY <1>1, <1>3, <1>4 DEF CloseInv
  <1>10. CountInv'
    BY <1>3, <1>6, CountFalls
  <1> QED BY <1>5, <1>7, <1>8, <1>9, <1>10

\* Only close() makes a session unknown, and has closed it.
LEMMA RetUnknownLimit ==
    ASSUME Disciplined, PoolInv, LimitInv, NEW t \in Callers, RetUnknown(t)
    PROVE  LimitInv'
  <1> USE DEF PoolInv, TypeOK, LimitInv, RetUnknown
  <1>1. pc[Closer] = "done" /\ entries = {} /\ total = 0 /\ \A c \in Conns : link[c] = "down"
    BY DEF HeldInv, HoldPc, CloseInv
  <1>2. conn[t] \in Conns
    BY DEF ConnInv
  <1>4. /\ conn' = [conn EXCEPT ![t] = NoConn] /\ pc' = [pc EXCEPT ![t] = "idle"]
        /\ Release /\ UNCHANGED link
    BY <1>1, <1>2 DEF Connected
  <1>3. t \in Tasks /\ t # Closer /\ t # Cleaner /\ pc'[Closer] = pc[Closer] /\ pc'[Cleaner] = pc[Cleaner]
    BY <1>4, TaskAssumption DEF Tasks
  <1>5. AheadInv'
    BY <1>3, <1>4, AheadLeaves DEF AskPc, WarmPc
  <1>6. Counted = {} /\ Counted' = {}
    BY <1>1 DEF Counted, Lost, Orphans
  <1>7. HeldInv'
    BY <1>1, <1>3, <1>4 DEF HeldInv, HoldPc
  <1>8. LiveInv'
    BY <1>1, <1>4 DEF LiveInv
  <1>9. CloseInv'
    BY <1>1, <1>3, <1>4 DEF CloseInv, Minus
  <1>10. CountInv'
    <2>1. total' = total
      BY <1>1 DEF Minus
    <2> QED BY <1>4, <1>6, <2>1, CountStays DEF CountInv
  <1> QED BY <1>5, <1>7, <1>8, <1>9, <1>10

\* That step does not occur: no return closes a session.
LEMMA RetClosedLimit ==
    ASSUME Disciplined, PoolInv, LimitInv, NEW t \in Callers, RetClosed(t)
    PROVE  LimitInv'
  BY DEF LimitInv, HeldInv, RetClosed

\* A warm-up is asked for before close() is called.
LEMMA WarmCallLimit ==
    ASSUME Disciplined, PoolInv, LimitInv, NEW t \in Callers, WarmCall(t)
    PROVE  LimitInv'
  <1> USE DEF PoolInv, TypeOK, LimitInv, WarmCall
  <1>3. t \in Tasks /\ t # Closer /\ t # Cleaner /\ pc'[Closer] = pc[Closer] /\ pc'[Cleaner] = pc[Cleaner]
    BY TaskAssumption DEF Tasks
  <1>4. pc[Closer] \in Early
    BY DEF Serving, Disciplined, Early
  <1>5. AheadInv'
    BY <1>3, <1>4, AheadJoins
  <1>6. Counted' = Counted
    BY DEF Counted, Lost, Orphans
  <1>7. HeldInv'
    BY <1>3 DEF HeldInv, HoldPc
  <1>8. LiveInv'
    BY <1>6 DEF LiveInv
  <1>9. CloseInv'
    BY <1>3 DEF CloseInv
  <1>10. CountInv'
    BY <1>6, CountStays DEF CountInv
  <1> QED BY <1>5, <1>7, <1>8, <1>9, <1>10

\* It counts what is missing.
LEMMA WarmBeginLimit ==
    ASSUME Disciplined, PoolInv, LimitInv, NEW t \in Callers, WarmBegin(t)
    PROVE  LimitInv'
  <1> USE DEF PoolInv, TypeOK, LimitInv, WarmBegin
  <1>3. t \in Tasks /\ t # Closer /\ t # Cleaner /\ pc'[Closer] = pc[Closer] /\ pc'[Cleaner] = pc[Cleaner]
    BY TaskAssumption DEF Tasks
  <1>5. AheadInv'
    BY <1>3, AheadStays DEF AskPc, WarmPc
  <1>6. Counted' = Counted
    BY DEF Counted, Lost, Orphans
  <1>7. HeldInv'
    BY <1>3 DEF HeldInv, HoldPc
  <1>8. LiveInv'
    BY <1>6 DEF LiveInv
  <1>9. CloseInv'
    BY <1>3 DEF CloseInv
  <1>10. CountInv'
    BY <1>6, CountStays DEF CountInv
  <1> QED BY <1>5, <1>7, <1>8, <1>9, <1>10

\* It opens a connection nobody counts yet, with a slot left for it.
LEMMA WarmDialLimit ==
    ASSUME Disciplined, PoolInv, LimitInv, NEW t \in Callers, WarmDial(t)
    PROVE  LimitInv'
  <1> USE DEF PoolInv, TypeOK, LimitInv, WarmDial
  <1>3. t \in Tasks /\ t # Closer /\ t # Cleaner /\ pc'[Closer] = pc[Closer] /\ pc'[Cleaner] = pc[Cleaner]
    BY TaskAssumption DEF Tasks
  <1>1. PICK c \in WarmSpare : conn' = [conn EXCEPT ![t] = c] /\ link' = [link EXCEPT ![c] = "connecting"]
    OBVIOUS
  <1>2. c \in Conns /\ c \notin entries /\ link[c] = "down" /\ conn[t] = NoConn
    BY <1>1 DEF WarmSpare, Spare, ConnInv
  <1>4. pc[Closer] \notin Late
    BY DEF AheadInv, AskPc, WarmPc, Late
  <1>5. AheadInv'
    BY <1>3, AheadStays DEF AskPc, WarmPc
  <1>6. Counted' = Counted
    BY <1>1, <1>2, ConnAssumption DEF Counted, Lost, Orphans
  <1>7. HeldInv'
    BY <1>1, <1>2, <1>3 DEF HeldInv, HoldPc, WarmSpare, Spare
  <1>8. LiveInv'
    <2>1. \A d \in Conns \ {c} : link'[d] = link[d]
      BY <1>1
    <2>2. pc'[t] = "warmconn" /\ conn'[t] = c
      BY <1>1, <1>3
    <2>3. \A u \in Callers \ {t} : pc'[u] = pc[u] /\ conn'[u] = conn[u]
      BY <1>1, <1>3
    <2>4. \A d \in Conns : link'[d] # "down" =>
             d \in Counted' \/ \E u \in Callers : pc'[u] = "warmconn" /\ conn'[u] = d
      BY <1>6, <2>1, <2>2, <2>3 DEF LiveInv
    <2>5. \A d \in Conns : link'[d] = "connecting" =>
             \E u \in Callers : pc'[u] \in {"connect", "warmconn"} /\ conn'[u] = d
      BY <2>1, <2>2, <2>3 DEF LiveInv
    <2> QED BY <2>4, <2>5 DEF LiveInv
  <1>9. CloseInv'
    BY <1>3, <1>4 DEF CloseInv, Late
  <1>10. CountInv'
    BY <1>6, CountStays
  <1> QED BY <1>5, <1>7, <1>8, <1>9, <1>10

\* The connection is listed, idle and counted.
LEMMA WarmOkLimit ==
    ASSUME Disciplined, PoolInv, LimitInv, NEW t \in Callers, WarmOk(t)
    PROVE  LimitInv'
  <1> USE DEF PoolInv, TypeOK, LimitInv, WarmOk
  <1>3. t \in Tasks /\ t # Closer /\ t # Cleaner /\ pc'[Closer] = pc[Closer] /\ pc'[Cleaner] = pc[Cleaner]
    BY TaskAssumption DEF Tasks
  <1>1. link[conn[t]] = "connecting" /\ conn[t] \in Conns /\ conn[t] \notin entries
    BY DEF LinkInv, ConnInv, EntryInv
  <1>2. \A u \in Callers \ {t} : conn[u] # conn[t]
    BY <1>1, ConnAssumption DEF ConnInv
  <1>4. pc[Closer] \notin Late
    BY DEF AheadInv, AskPc, WarmPc, Late
  <1>5. AheadInv'
    BY <1>3, AheadStays DEF AskPc, WarmPc
  <1>6. conn[t] \notin Counted /\ Counted' = Counted \cup {conn[t]}
    <2>1. conn'[t] = NoConn /\ \A u \in Callers \ {t} : conn'[u] = conn[u]
      OBVIOUS
    <2>2. Orphans' = Orphans
      BY <1>1, <2>1, ConnAssumption DEF Orphans
    <2> QED BY <1>1, <2>2 DEF Counted, Lost, Orphans
  <1>7. HeldInv'
    BY <1>1, <1>2, <1>3 DEF HeldInv, HoldPc
  <1>8. LiveInv'
    BY <1>1, <1>2, <1>3, <1>6 DEF LiveInv
  <1>9. CloseInv'
    BY <1>3, <1>4 DEF CloseInv, Late
  <1>10. CountInv'
    <2>1. \A u \in Callers : pc'[u] # "warmconn"
      BY <1>3, OneOwner DEF LockInv, CriticalPc, Tasks
    <2>2. total < MaxConnections
      BY DEF CountInv
    <2> QED BY <1>6, <2>1, <2>2, CountRises
  <1> QED BY <1>5, <1>7, <1>8, <1>9, <1>10

\* A warm-up that failed leaves nothing open.
LEMMA WarmFailLimit ==
    ASSUME Disciplined, PoolInv, LimitInv, NEW t \in Callers, WarmFail(t)
    PROVE  LimitInv'
  <1> USE DEF PoolInv, TypeOK, LimitInv, WarmFail
  <1>3. t \in Tasks /\ t # Closer /\ t # Cleaner /\ pc'[Closer] = pc[Closer] /\ pc'[Cleaner] = pc[Cleaner]
    BY TaskAssumption DEF Tasks
  <1>1. link[conn[t]] = "connecting" /\ conn[t] \in Conns /\ conn[t] \notin entries /\ Owns(t)
    BY <1>3 DEF LinkInv, ConnInv, EntryInv, LockInv, CriticalPc
  <1>2. \A u \in Callers \ {t} : conn[u] # conn[t]
    BY <1>1, ConnAssumption DEF ConnInv
  <1>4. pc[Closer] \notin Late
    BY DEF AheadInv, AskPc, WarmPc, Late
  <1>5. AheadInv'
    BY <1>1, <1>3, AheadLeaves DEF AskPc, WarmPc
  <1>6. Counted' = Counted
    <2>1. conn'[t] = NoConn /\ \A u \in Callers \ {t} : conn'[u] = conn[u]
      OBVIOUS
    <2>2. Orphans' = Orphans
      BY <1>1, <2>1, ConnAssumption DEF Orphans
    <2>3. conn[t] \notin Orphans /\ \A d \in Conns \ {conn[t]} : link'[d] = link[d]
      BY <1>1 DEF Orphans
    <2>4. Lost' = Lost
      BY <2>2, <2>3 DEF Lost, Orphans
    <2> QED BY <2>4 DEF Counted
  <1>7. HeldInv'
    BY <1>1, <1>2, <1>3 DEF HeldInv, HoldPc
  <1>8. LiveInv'
    BY <1>1, <1>2, <1>3, <1>6 DEF LiveInv
  <1>9. CloseInv'
    BY <1>3, <1>4 DEF CloseInv, Late
  <1>10. CountInv'
    BY <1>6, CountStays DEF CountInv
  <1> QED BY <1>5, <1>7, <1>8, <1>9, <1>10

\* A warm-up that is through changes only the queue.
LEMMA WarmEndLimit ==
    ASSUME Disciplined, PoolInv, LimitInv, NEW t \in Callers, WarmEnd(t)
    PROVE  LimitInv'
  <1> USE DEF PoolInv, TypeOK, LimitInv, WarmEnd
  <1>3. t \in Tasks /\ t # Closer /\ t # Cleaner /\ pc'[Closer] = pc[Closer] /\ pc'[Cleaner] = pc[Cleaner]
    BY TaskAssumption DEF Tasks
  <1>1. Owns(t)
    BY <1>3 DEF LockInv, CriticalPc
  <1>5. AheadInv'
    BY <1>1, <1>3, AheadLeaves DEF AskPc, WarmPc
  <1>6. Counted' = Counted
    BY DEF Counted, Lost, Orphans
  <1>7. HeldInv'
    BY <1>3 DEF HeldInv, HoldPc
  <1>8. LiveInv'
    BY <1>6 DEF LiveInv
  <1>9. CloseInv'
    BY <1>3 DEF CloseInv
  <1>10. CountInv'
    BY <1>6, CountStays DEF CountInv
  <1> QED BY <1>5, <1>7, <1>8, <1>9, <1>10

\* Every step of a call keeps the invariant.
LEMMA CallerStepLimit ==
    ASSUME Disciplined, PoolInv, LimitInv, NEW t \in Callers, CallerStep(t)
    PROVE  LimitInv'
  BY GetReuseLimit, GetExhaustedLimit, GetCreateLimit, ConnectOkLimit, ConnectFailLimit,
     FinishLimit, RollbackLimit, RetIdleLimit, RetDeadLimit, RetUnknownLimit, RetClosedLimit,
     WarmBeginLimit, WarmDialLimit, WarmOkLimit, WarmFailLimit, WarmEndLimit
     DEF CallerStep

\* A sweep takes its place in the queue.
LEMMA CleanWakeLimit ==
    ASSUME Disciplined, PoolInv, LimitInv, CleanWake
    PROVE  LimitInv'
  <1> USE DEF PoolInv, TypeOK, LimitInv, CleanWake
  <1>3. /\ Cleaner \in Tasks /\ Closer \in Tasks /\ pc'[Closer] = pc[Closer]
        /\ \A u \in Callers : pc'[u] = pc[u]
    BY TaskAssumption DEF Tasks
  <1>5. AheadInv'
    BY <1>3, TaskAssumption, AheadJoins
  <1>6. Counted' = Counted
    BY DEF Counted, Lost, Orphans
  <1>7. HeldInv'
    BY <1>3 DEF HeldInv, HoldPc
  <1>8. LiveInv'
    BY <1>3, <1>6 DEF LiveInv
  <1>9. CloseInv'
    BY <1>3 DEF CloseInv
  <1>10. CountInv'
    BY <1>3, <1>6, CountStays DEF CountInv
  <1> QED BY <1>5, <1>7, <1>8, <1>9, <1>10

\* A sweep begins.
LEMMA CleanBeginLimit ==
    ASSUME Disciplined, PoolInv, LimitInv, CleanBegin
    PROVE  LimitInv'
  <1> USE DEF PoolInv, TypeOK, LimitInv, CleanBegin
  <1>3. /\ Cleaner \in Tasks /\ Closer \in Tasks /\ pc'[Closer] = pc[Closer]
        /\ \A u \in Callers : pc'[u] = pc[u]
    BY TaskAssumption DEF Tasks
  <1>1. pc[Closer] = "open"
    BY DEF StopInv
  <1>5. AheadInv'
    BY <1>3, AheadStays
  <1>6. Counted' = Counted
    BY DEF Counted, Lost, Orphans
  <1>7. HeldInv'
    BY <1>3 DEF HeldInv, HoldPc
  <1>8. LiveInv'
    BY <1>3, <1>6 DEF LiveInv
  <1>9. CloseInv'
    BY <1>1, <1>3 DEF CloseInv
  <1>10. CountInv'
    BY <1>3, <1>6, CountStays DEF CountInv
  <1> QED BY <1>5, <1>7, <1>8, <1>9, <1>10

\* Replacing a list drops what had been taken off it before.
LEMMA CleanKeepLimit ==
    ASSUME Disciplined, PoolInv, LimitInv, NEW c \in Conns, CleanKeep(c)
    PROVE  LimitInv'
  <1> USE DEF PoolInv, TypeOK, LimitInv, CleanKeep
  <1>3. /\ Cleaner \in Tasks /\ Closer \in Tasks /\ pc'[Closer] = pc[Closer]
        /\ \A u \in Callers : pc'[u] = pc[u]
    BY TaskAssumption DEF Tasks
  <1>1. pc[Closer] = "open"
    BY DEF StopInv
  <1>2. /\ \/ entries' = entries /\ gone' = gone
           \/ entries' = entries \ gone /\ gone' = {}
        /\ UNCHANGED <<inUse, conn, link, total, idle, pc>>
    BY DEF Visited
  <1>4. gone \cap inUse = {}
    BY DEF LinkInv
  <1>5. AheadInv'
    BY <1>3, AheadStays
  <1>6. Counted' = Counted
    BY <1>2, <1>4 DEF Counted, Lost, Orphans
  <1>7. HeldInv'
    BY <1>1, <1>2, <1>4 DEF HeldInv, EntryInv
  <1>8. LiveInv'
    BY <1>2, <1>6 DEF LiveInv
  <1>9. CloseInv'
    BY <1>1, <1>3 DEF CloseInv
  <1>10. CountInv'
    BY <1>3, <1>6, CountStays DEF CountInv
  <1> QED BY <1>5, <1>7, <1>8, <1>9, <1>10

\* A dead entry is taken off the count, and is not on it any more.
LEMMA CleanRemoveLimit ==
    ASSUME Disciplined, PoolInv, LimitInv, NEW c \in Conns, CleanRemove(c)
    PROVE  LimitInv'
  <1> USE DEF PoolInv, TypeOK, LimitInv, CleanRemove
  <1>3. /\ Cleaner \in Tasks /\ Closer \in Tasks /\ pc'[Closer] = pc[Closer]
        /\ \A u \in Callers : pc'[u] = pc[u]
    BY TaskAssumption DEF Tasks
  <1>1. pc[Closer] = "open"
    BY DEF StopInv
  <1>2. /\ \/ entries' = entries /\ gone' = gone \cup {c}
           \/ entries' = entries \ (gone \cup {c}) /\ gone' = {}
        /\ UNCHANGED <<inUse, conn>> /\ UNCHANGED link /\ link[c] = "down"
        /\ total' = Minus(total, 1)
    BY DEF Visited
  <1>4. gone \cap inUse = {} /\ c \in entries /\ c \notin gone /\ c \notin inUse
    BY DEF LinkInv, SweepInv, SweepPc, Doomed
  <1>5. AheadInv'
    BY <1>3, AheadStays
  <1>6. c \in Counted /\ Counted' = Counted \ {c}
    BY <1>2, <1>4 DEF Counted, Lost, Orphans
  <1>7. HeldInv'
    BY <1>1, <1>2, <1>3, <1>4 DEF HeldInv, EntryInv
  <1>8. LiveInv'
    BY <1>2, <1>3, <1>6 DEF LiveInv
  <1>9. CloseInv'
    BY <1>1, <1>3 DEF CloseInv
  <1>10. CountInv'
    BY <1>2, <1>3, <1>6, CountFalls
  <1> QED BY <1>5, <1>7, <1>8, <1>9, <1>10

\* A session being closed is still counted.
LEMMA CleanCloseLimit ==
    ASSUME Disciplined, PoolInv, LimitInv, NEW c \in Conns, CleanClose(c)
    PROVE  LimitInv'
  <1> USE DEF PoolInv, TypeOK, LimitInv, CleanClose
  <1>3. /\ Cleaner \in Tasks /\ Closer \in Tasks /\ pc'[Closer] = pc[Closer]
        /\ \A u \in Callers : pc'[u] = pc[u]
    BY TaskAssumption DEF Tasks
  <1>1. pc[Closer] = "open"
    BY DEF StopInv
  <1>2. c \notin inUse
    BY DEF Doomed
  <1>5. AheadInv'
    BY <1>3, AheadStays
  <1>6. Counted' = Counted
    <2>1. \A d \in Orphans : d # c /\ link'[d] = link[d]
      BY <1>2 DEF Orphans
    <2> QED BY <2>1 DEF Counted, Lost, Orphans
  <1>7. HeldInv'
    BY <1>2, <1>3 DEF HeldInv, Connected
  <1>8. LiveInv'
    BY <1>3, <1>6 DEF LiveInv, Connected
  <1>9. CloseInv'
    BY <1>1, <1>3 DEF CloseInv
  <1>10. CountInv'
    BY <1>3, <1>6, CountStays DEF CountInv
  <1> QED BY <1>5, <1>7, <1>8, <1>9, <1>10

\* A session is closed and taken off the count.
LEMMA CleanClosedLimit ==
    ASSUME Disciplined, PoolInv, LimitInv, NEW c \in Conns, CleanClosed(c)
    PROVE  LimitInv'
  <1> USE DEF PoolInv, TypeOK, LimitInv, CleanClosed
  <1>3. /\ Cleaner \in Tasks /\ Closer \in Tasks /\ pc'[Closer] = pc[Closer]
        /\ \A u \in Callers : pc'[u] = pc[u]
    BY TaskAssumption DEF Tasks
  <1>1. pc[Closer] = "open"
    BY DEF StopInv
  <1>2. /\ \/ entries' = entries /\ gone' = gone \cup {c}
           \/ entries' = entries \ (gone \cup {c}) /\ gone' = {}
        /\ UNCHANGED <<inUse, conn>> /\ link' = [link EXCEPT ![c] = "down"]
        /\ total' = Minus(total, 1)
    BY DEF Visited
  <1>4. gone \cap inUse = {} /\ c \in entries /\ c \notin gone /\ c \notin inUse
    BY <1>1 DEF LinkInv, SweepInv, SweepPc, ClosingInv, HeldInv
  <1>5. AheadInv'
    BY <1>3, AheadStays
  <1>6. c \in Counted /\ Counted' = Counted \ {c}
    BY <1>2, <1>4 DEF Counted, Lost, Orphans
  <1>7. HeldInv'
    BY <1>1, <1>2, <1>3, <1>4 DEF HeldInv, EntryInv
  <1>8. LiveInv'
    BY <1>2, <1>3, <1>6 DEF LiveInv
  <1>9. CloseInv'
    BY <1>1, <1>3 DEF CloseInv
  <1>10. CountInv'
    BY <1>2, <1>3, <1>6, CountFalls
  <1> QED BY <1>5, <1>7, <1>8, <1>9, <1>10

\* A sweep counts the idle sessions that work.
LEMMA CleanEndLimit ==
    ASSUME Disciplined, PoolInv, LimitInv, CleanEnd
    PROVE  LimitInv'
  <1> USE DEF PoolInv, TypeOK, LimitInv, CleanEnd
  <1>3. /\ Cleaner \in Tasks /\ Closer \in Tasks /\ pc'[Closer] = pc[Closer]
        /\ \A u \in Callers : pc'[u] = pc[u]
    BY TaskAssumption DEF Tasks
  <1>1. pc[Closer] = "open" /\ Owns(Cleaner)
    BY DEF StopInv, LockInv, CriticalPc, Tasks
  <1>5. AheadInv'
    BY <1>1, <1>3, TaskAssumption, AheadLeaves
  <1>6. Counted' = Counted
    BY DEF Counted, Lost, Orphans
  <1>7. HeldInv'
    BY <1>3 DEF HeldInv, HoldPc
  <1>8. LiveInv'
    BY <1>3, <1>6 DEF LiveInv
  <1>9. CloseInv'
    BY <1>1, <1>3 DEF CloseInv
  <1>10. CountInv'
    BY <1>3, <1>6, CountStays DEF CountInv
  <1> QED BY <1>5, <1>7, <1>8, <1>9, <1>10

\* Every step of the cleanup task keeps the invariant.
LEMMA CleanerStepLimit ==
    ASSUME Disciplined, PoolInv, LimitInv, CleanerStep
    PROVE  LimitInv'
  BY CleanWakeLimit, CleanBeginLimit, CleanKeepLimit, CleanRemoveLimit, CleanCloseLimit,
     CleanClosedLimit, CleanEndLimit
     DEF CleanerStep

\* close() ends the cleanup task, who leaves the queue if it is in it; nobody
\* asks for the lock from now on.
LEMMA CloseCallLimit ==
    ASSUME Disciplined, PoolInv, LimitInv, CloseCall
    PROVE  LimitInv'
  <1> USE DEF PoolInv, TypeOK, LimitInv, CloseCall
  <1>3. Closer \in Tasks /\ \A u \in Callers : pc'[u] = pc[u]
    BY TaskAssumption DEF Tasks
  <1>1. Cleaner \in Tasks /\ pc'[Closer] = "stopping"
    BY TaskAssumption DEF Tasks
  <1>2. /\ \A u \in Tasks : u # Cleaner /\ Queued(u) => Queued(u)'
        /\ ~Queued(Closer) => ~Queued(Closer)'
    BY <1>1, <1>3, QueuedLemma, TaskAssumption
  <1>4. ~Queued(Closer)
    BY DEF AheadInv, Queued
  <1>5. AheadInv'
    <2>1. ~Queued(Closer)'
      BY <1>2, <1>4
    <2>2. \A k \in 1 .. Len(lockq') : lockq'[k] # Closer
      BY <2>1 DEF Queued
    <2>3. \A u \in Callers : pc'[u] \in AskPc => Queued(u)'
      BY <1>2, <1>3, TaskAssumption DEF AheadInv, Tasks
    <2> QED BY <1>1, <2>2, <2>3 DEF AheadInv
  <1>6. /\ Counted' \subseteq Counted
        /\ ~Cancellable => Counted' = Counted
        /\ \A c \in Counted : link'[c] # "down" => c \in Counted'
    <2>1. \A c \in Conns : link'[c] \in {link[c], "down"}
      OBVIOUS
    <2>2. Orphans' = Orphans
      BY DEF Orphans
    <2> QED BY <2>1, <2>2, LinksFall
  <1>7. HeldInv'
    BY <1>3 DEF HeldInv, HoldPc
  <1>8. LiveInv'
    <2>1. \A c \in Conns : link'[c] \in {"down", link[c]}
      OBVIOUS
    <2>2. conn' = conn
      OBVIOUS
    <2>3. ASSUME NEW c \in Conns, link'[c] # "down"
          PROVE  /\ link'[c] = link[c]
                 /\ c \in Counted' \/ \E u \in Callers : pc'[u] = "warmconn" /\ conn'[u] = c
      <3>1. link'[c] = link[c]
        BY <2>1, <2>3
      <3>2. c \in Counted \/ \E u \in Callers : pc[u] = "warmconn" /\ conn[u] = c
        BY <2>3, <3>1 DEF LiveInv
      <3> QED BY <1>3, <1>6, <2>2, <2>3, <3>1, <3>2
    <2>4. ASSUME NEW c \in Conns, link'[c] = "connecting"
          PROVE  \E u \in Callers : pc'[u] \in {"connect", "warmconn"} /\ conn'[u] = c
      <3>1. \E u \in Callers : pc[u] \in {"connect", "warmconn"} /\ conn[u] = c
        BY <2>3, <2>4 DEF LiveInv
      <3> QED BY <1>3, <2>2, <3>1
    <2> QED BY <2>3, <2>4 DEF LiveInv
  <1>9. CloseInv'
    BY <1>1 DEF CloseInv
  <1>10. CountInv'
    BY <1>3, <1>6, CountSinks
  <1> QED BY <1>5, <1>7, <1>8, <1>9, <1>10

\* Whoever will still open a connection is in the queue when close() joins it.
LEMMA CloseQueueLimit ==
    ASSUME Disciplined, PoolInv, LimitInv, CloseQueue
    PROVE  LimitInv'
  <1> USE DEF PoolInv, TypeOK, LimitInv, CloseQueue
  <1>3. Closer \in Tasks /\ \A u \in Callers : pc'[u] = pc[u]
    BY TaskAssumption DEF Tasks
  <1>1. pc'[Closer] = "close"
    BY <1>3
  <1>4. /\ Len(lockq) \in Nat /\ Len(lockq') = Len(lockq) + 1 /\ lockq'[Len(lockq) + 1] = Closer
        /\ \A i \in 1 .. Len(lockq) : lockq'[i] = lockq[i] /\ lockq[i] # Closer
    BY <1>3, Joined DEF AheadInv
  <1>5. AheadInv'
    <2>1. ASSUME NEW u \in Callers, pc'[u] \in AskPc
          PROVE  \E i \in 1 .. Len(lockq) : lockq'[i] = u
      BY <1>3, <1>4, <2>1 DEF AheadInv, Queued
    <2>2. \A k \in 1 .. Len(lockq') : lockq'[k] = Closer => k = Len(lockq) + 1
      BY <1>4
    <2>3. \A u \in Callers : pc'[u] \in AskPc => Queued(u)'
      BY <1>4, <2>1 DEF Queued
    <2> QED BY <1>1, <1>4, <2>1, <2>2, <2>3 DEF AheadInv
  <1>6. Counted' = Counted
    BY DEF Counted, Lost, Orphans
  <1>7. HeldInv'
    BY <1>3 DEF HeldInv, HoldPc
  <1>8. LiveInv'
    BY <1>3, <1>6 DEF LiveInv
  <1>9. CloseInv'
    BY <1>1 DEF CloseInv
  <1>10. CountInv'
    BY <1>3, <1>6, CountStays DEF CountInv
  <1> QED BY <1>5, <1>7, <1>8, <1>9, <1>10

\* It has the lock after all of them, and they ask no more.
LEMMA CloseBeginLimit ==
    ASSUME Disciplined, PoolInv, LimitInv, CloseBegin
    PROVE  LimitInv'
  <1> USE DEF PoolInv, TypeOK, LimitInv, CloseBegin
  <1>3. Closer \in Tasks /\ \A u \in Callers : pc'[u] = pc[u]
    BY TaskAssumption DEF Tasks
  <1>1. pc'[Closer] = "closing"
    BY <1>3
  <1>2. Len(lockq) \in Nat /\ Len(lockq) >= 1 /\ lockq[1] = Closer
    BY DEF Owns
  <1>5. AheadInv'
    <2>1. \A u \in Callers : pc[u] \notin AskPc
      BY <1>2 DEF AheadInv
    <2> QED BY <1>1, <1>3, <2>1 DEF AheadInv
  <1>6. Counted' = Counted
    BY DEF Counted, Lost, Orphans
  <1>7. HeldInv'
    BY <1>3 DEF HeldInv, HoldPc
  <1>8. LiveInv'
    BY <1>3, <1>6 DEF LiveInv
  <1>9. CloseInv'
    BY <1>1 DEF CloseInv
  <1>10. CountInv'
    BY <1>3, <1>6, CountStays DEF CountInv
  <1> QED BY <1>5, <1>7, <1>8, <1>9, <1>10

\* close() closes a listed session.
LEMMA CloseEntryLimit ==
    ASSUME Disciplined, PoolInv, LimitInv, NEW c \in Conns, CloseEntry(c)
    PROVE  LimitInv'
  <1> USE DEF PoolInv, TypeOK, LimitInv, CloseEntry
  <1>3. Closer \in Tasks /\ \A u \in Callers : pc'[u] = pc[u]
    BY TaskAssumption DEF Tasks
  <1>1. pc'[Closer] \in {"closing", "closewait"}
    BY <1>3
  <1>5. AheadInv'
    BY <1>1, <1>3, AheadStays DEF Early, Late
  <1>6. Counted' = Counted
    <2>1. \A d \in Orphans : link'[d] = "down" <=> link[d] = "down"
      BY DEF Orphans, Connected
    <2> QED BY <2>1 DEF Counted, Lost, Orphans
  <1>7. HeldInv'
    BY <1>3 DEF HeldInv, HoldPc, Connected
  <1>8. LiveInv'
    BY <1>3, <1>6 DEF LiveInv, Connected
  <1>9. CloseInv'
    BY <1>1 DEF CloseInv
  <1>10. CountInv'
    BY <1>3, <1>6, CountStays DEF CountInv
  <1> QED BY <1>5, <1>7, <1>8, <1>9, <1>10

\* One that is down needs no closing.
LEMMA CloseEntryDeadLimit ==
    ASSUME Disciplined, PoolInv, LimitInv, NEW c \in Conns, CloseEntryDead(c)
    PROVE  LimitInv'
  <1> USE DEF PoolInv, TypeOK, LimitInv, CloseEntryDead
  <1>3. Closer \in Tasks /\ \A u \in Callers : pc'[u] = pc[u]
    BY TaskAssumption DEF Tasks
  <1>1. pc'[Closer] \in {"closing", "closewait"}
    BY <1>3
  <1>5. AheadInv'
    BY <1>1, <1>3, AheadStays DEF Early, Late
  <1>6. Counted' = Counted
    BY DEF Counted, Lost, Orphans
  <1>7. HeldInv'
    BY <1>3 DEF HeldInv, HoldPc
  <1>8. LiveInv'
    BY <1>3, <1>6 DEF LiveInv
  <1>9. CloseInv'
    BY <1>1 DEF CloseInv
  <1>10. CountInv'
    BY <1>3, <1>6, CountStays DEF CountInv
  <1> QED BY <1>5, <1>7, <1>8, <1>9, <1>10

\* And it is down.
LEMMA CloseEntryDoneLimit ==
    ASSUME Disciplined, PoolInv, LimitInv, NEW c \in Conns, CloseEntryDone(c)
    PROVE  LimitInv'
  <1> USE DEF PoolInv, TypeOK, LimitInv, CloseEntryDone
  <1>3. Closer \in Tasks /\ \A u \in Callers : pc'[u] = pc[u]
    BY TaskAssumption DEF Tasks
  <1>1. pc'[Closer] \in {"closing", "closewait"}
    BY <1>3
  <1>5. AheadInv'
    BY <1>1, <1>3, AheadStays DEF Early, Late
  <1>6. /\ Counted' \subseteq Counted
        /\ ~Cancellable => Counted' = Counted
        /\ \A d \in Counted : link'[d] # "down" => d \in Counted'
    BY LinksFall DEF Orphans
  <1>7. HeldInv'
    BY <1>3 DEF HeldInv, HoldPc
  <1>8. LiveInv'
    BY <1>3, <1>6 DEF LiveInv
  <1>9. CloseInv'
    BY <1>1 DEF CloseInv
  <1>10. CountInv'
    BY <1>3, <1>6, CountSinks
  <1> QED BY <1>5, <1>7, <1>8, <1>9, <1>10

\* All listed sessions are down, so all are.
LEMMA CloseEndLimit ==
    ASSUME Disciplined, PoolInv, LimitInv, CloseEnd
    PROVE  LimitInv'
  <1> USE DEF PoolInv, TypeOK, LimitInv, CloseEnd
  <1>3. Closer \in Tasks /\ \A u \in Callers : pc'[u] = pc[u]
    BY TaskAssumption DEF Tasks
  <1>1. pc'[Closer] = "done" /\ Owns(Closer)
    BY <1>3 DEF LockInv, CriticalPc
  <1>2. \A c \in Conns : link[c] = "down"
    <2>1. \A u \in Callers : pc[u] # "warmconn"
      BY <1>1, OneOwner, TaskAssumption DEF LockInv, CriticalPc, Tasks
    <2> QED BY <2>1 DEF LiveInv, CloseInv, Counted
  <1>5. AheadInv'
    BY <1>1, <1>3, TaskAssumption, AheadLeaves DEF AheadInv, Early, Late
  <1>6. Counted' = {}
    BY DEF Counted, Lost, Orphans
  <1>7. HeldInv'
    BY <1>1, <1>3 DEF HeldInv
  <1>8. LiveInv'
    BY <1>2 DEF LiveInv
  <1>9. CloseInv'
    BY <1>1, <1>2 DEF CloseInv
  <1>10. CountInv'
    BY <1>6, FS_EmptySet, CapacityAssumption, <1>3 DEF CountInv
  <1> QED BY <1>5, <1>7, <1>8, <1>9, <1>10

\* Every step of close() keeps the invariant.
LEMMA CloserStepLimit ==
    ASSUME Disciplined, PoolInv, LimitInv, CloserStep
    PROVE  LimitInv'
  BY CloseQueueLimit, CloseBeginLimit, CloseEntryLimit, CloseEntryDeadLimit,
     CloseEntryDoneLimit, CloseEndLimit
     DEF CloserStep

\* The cleanup task starts.
LEMMA StartLimit ==
    ASSUME Disciplined, PoolInv, LimitInv, Start
    PROVE  LimitInv'
  <1> USE DEF PoolInv, TypeOK, LimitInv, Start
  <1>3. /\ Cleaner \in Tasks /\ Closer \in Tasks /\ pc'[Closer] = pc[Closer]
        /\ \A u \in Callers : pc'[u] = pc[u]
    BY TaskAssumption DEF Tasks
  <1>5. AheadInv'
    BY <1>3, AheadStays
  <1>6. Counted' = Counted
    BY DEF Counted, Lost, Orphans
  <1>7. HeldInv'
    BY <1>3 DEF HeldInv, HoldPc
  <1>8. LiveInv'
    BY <1>3, <1>6 DEF LiveInv
  <1>9. CloseInv'
    BY <1>3 DEF CloseInv
  <1>10. CountInv'
    BY <1>3, <1>6, CountStays DEF CountInv
  <1> QED BY <1>5, <1>7, <1>8, <1>9, <1>10

\* A connection is lost.
LEMMA DropLimit ==
    ASSUME Disciplined, PoolInv, LimitInv, NEW c \in Conns, Drop(c)
    PROVE  LimitInv'
  <1> USE DEF PoolInv, TypeOK, LimitInv, Drop
  <1>5. AheadInv'
    BY AheadStays
  <1>6. /\ Counted' \subseteq Counted
        /\ ~Cancellable => Counted' = Counted
        /\ \A d \in Counted : link'[d] # "down" => d \in Counted'
    BY LinksFall DEF Orphans
  <1>7. HeldInv'
    BY DEF HeldInv
  <1>8. LiveInv'
    BY <1>6 DEF LiveInv
  <1>9. CloseInv'
    BY DEF CloseInv
  <1>10. CountInv'
    BY <1>6, CountSinks
  <1> QED BY <1>5, <1>7, <1>8, <1>9, <1>10

\* A cancelled call leaves its slot taken and nothing half open.
LEMMA CancelLimit ==
    ASSUME Disciplined, PoolInv, LimitInv, NEW t \in Callers, Cancel(t)
    PROVE  LimitInv'
  <1> USE DEF PoolInv, TypeOK, LimitInv, Cancel
  <1>1. /\ t \in Tasks /\ t # Closer /\ pc'[Closer] = pc[Closer]
        /\ pc'[t] \in {"idle", "using"} /\ \A u \in Callers \ {t} : pc'[u] = pc[u]
        /\ pc[t] = "ret" <=> pc'[t] = "using"
    BY TaskAssumption DEF Tasks
  <1>2. \A c \in Conns : link'[c] \in {link[c], "down"}
    OBVIOUS
  <1>3. /\ conn'[t] \in {conn[t], NoConn} /\ \A u \in Callers \ {t} : conn'[u] = conn[u]
        /\ pc[t] = "ret" => conn'[t] = conn[t]
    OBVIOUS
  <1>4. \A u \in Callers : pc'[u] \in AskPc => pc[u] \in AskPc /\ u # t
    BY <1>1 DEF AskPc, WarmPc
  <1>5. AheadInv'
    BY <1>1, <1>4, AheadQuits
  <1>6. /\ Counted' \subseteq Counted
        /\ ~Cancellable => Counted' = Counted
        /\ \A c \in Counted : link'[c] # "down" => c \in Counted'
    <2>1. Orphans \subseteq Orphans'
      BY <1>3, ConnAssumption DEF Orphans
    <2> QED BY <1>2, <2>1, LinksFall
  <1>7. HeldInv'
    <2>1. entries' = entries /\ (pc'[t] \in HoldPc => pc[t] \in HoldPc /\ conn'[t] = conn[t])
      BY <1>1, <1>3 DEF HoldPc
    <2>2. ASSUME NEW u \in Callers, pc'[u] = "rollback"
          PROVE  link'[conn'[u]] = "down"
      <3>1. u # t /\ pc[u] = "rollback" /\ conn'[u] = conn[u]
        BY <1>1, <1>3, <2>2
      <3>2. conn[u] \in Conns /\ link[conn[u]] = "down"
        BY <3>1 DEF HeldInv, ConnInv
      <3> QED BY <1>2, <3>1, <3>2
    <2>3. \A u \in Callers : pc'[u] # "retclose"
      BY <1>1 DEF HeldInv
    <2> QED BY <1>1, <1>3, <2>1, <2>2, <2>3 DEF HeldInv
  <1>8. LiveInv'
    <2>1. pc[t] \in {"connect", "warmconn"} => link'[conn[t]] = "down"
      BY DEF ConnInv
    <2>2. ASSUME NEW c \in Conns, link'[c] # "down"
          PROVE  link'[c] = link[c] /\ (c \in Counted' \/ \E u \in Callers : pc'[u] = "warmconn" /\ conn'[u] = c)
      <3>1. link'[c] = link[c]
        BY <1>2, <2>2
      <3>2. c \in Counted \/ \E u \in Callers : pc[u] = "warmconn" /\ conn[u] = c
        BY <2>2, <3>1 DEF LiveInv
      <3> QED BY <1>1, <1>3, <1>6, <2>1, <2>2, <3>1, <3>2
    <2>3. ASSUME NEW c \in Conns, link'[c] = "connecting"
          PROVE  \E u \in Callers : pc'[u] \in {"connect", "warmconn"} /\ conn'[u] = c
      <3>1. PICK u \in Callers : pc[u] \in {"connect", "warmconn"} /\ conn[u] = c
        BY <2>2, <2>3 DEF LiveInv
      <3> QED BY <1>1, <1>3, <2>1, <2>3, <3>1
    <2> QED BY <2>2, <2>3 DEF LiveInv
  <1>9. CloseInv'
    BY <1>1, <1>2 DEF CloseInv
  <1>10. CountInv'
    BY <1>1, <1>6, CountSinks
  <1> QED BY <1>5, <1>7, <1>8, <1>9, <1>10

\* So does what disciplined callers and the network may do.
LEMMA EnvironmentLimit ==
    ASSUME Disciplined, PoolInv, LimitInv, Environment
    PROVE  LimitInv'
  <1>1. ~(\E t \in Callers : Adopt(t))
    BY DEF Disciplined, Adopt
  <1> QED BY <1>1, StartLimit, CloseCallLimit, GetCallLimit, RetCallLimit, WarmCallLimit, CancelLimit, DropLimit
             DEF Environment

-----------------------------------------------------------------------------
(* Every step of disciplined callers is a step of LeasePool, or none *)

\* LeasePool counts as the pool does.
LEMMA SameCount == \A S : Lease!Cardinality(S) = Cardinality(S)
  BY DEF Lease!Cardinality, Cardinality

\* Unless a warm-up is opening one, no more connections exist than are counted.
LEMMA ExistingLemma ==
    ASSUME PoolInv, LimitInv, \A u \in Callers : pc[u] # "warmconn", total < MaxConnections
    PROVE  Cardinality(Lease!Existing) < MaxConnections
  <1>1. Lease!Existing \subseteq Counted
    BY DEF Lease!Existing, LimitInv, LiveInv
  <1>2. Cardinality(Lease!Existing) <= Cardinality(Counted) /\ Cardinality(Lease!Existing) \in Nat
    BY <1>1, FiniteCounts, FS_Subset, FS_CardinalityType
  <1> QED BY <1>2, FiniteCounts, CapacityAssumption DEF LimitInv, CountInv, PoolInv, TypeOK

\* A caller's step moves no other caller, and not the pool's phase.
LEMMA LeaseGoes ==
    ASSUME PoolInv, NEW t \in Callers, CallerStep(t)
    PROVE  phase' = phase /\ \A u \in Callers \ {t} : pc'[u] = pc[u]
  BY CallerGoes, TaskAssumption DEF Tasks, phase

\* A reused session was in nobody's hands.
LEMMA ReuseLends ==
    ASSUME Disciplined, PoolInv, LimitInv, NEW t \in Callers, GetReuse(t)
    PROVE  Lease!LeaseNext
  <1> USE DEF PoolInv, TypeOK, GetReuse
  <1>1. PICK c \in Reusable(t) : conn' = [conn EXCEPT ![t] = c]
    OBVIOUS
  <1>2. c \in Conns /\ c \in Free /\ link[c] = "open"
    BY <1>1 DEF Reusable, Free, Connected
  <1>3. phase' = phase /\ \A u \in Callers \ {t} : pc'[u] = pc[u]
    BY LeaseGoes DEF CallerStep
  <1>4. \A u \in Callers : lease[u] # c
    BY <1>2, FreeUnheld, ConnAssumption DEF lease
  <1>5. pc[t] = "get" /\ pc'[t] = "using"
    BY DEF Tasks
  <1>6. lease[t] = NoConn /\ lease' = [lease EXCEPT ![t] = c]
    BY <1>1, <1>3, <1>5 DEF lease, HoldPc
  <1>7. Lease!Lend(t, c)
    BY <1>2, <1>3, <1>4, <1>6 DEF Lease!Lend, Lease!InHands
  <1> QED BY <1>2, <1>7 DEF Lease!LeaseNext

\* A session is opened for a caller only while fewer than Limit exist.
LEMMA CreateDials ==
    ASSUME Disciplined, PoolInv, LimitInv, NEW t \in Callers, GetCreate(t)
    PROVE  Lease!LeaseNext
  <1> USE DEF PoolInv, TypeOK, GetCreate
  <1>1. conn[t] \in Conns /\ conn[t] \notin entries /\ \A u \in Callers \ {t} : conn[u] # conn[t]
    BY ConnAssumption DEF EntryInv, ConnInv
  <1>2. /\ t \in Tasks /\ pc[t] = "get" /\ pc'[t] = "connect"
        /\ phase' = phase /\ phase # "closed"
        /\ \A u \in Callers \ {t} : pc'[u] = pc[u]
    BY LeaseGoes DEF CallerStep, Tasks, phase, LimitInv, AheadInv, AskPc
  <1>3. link[conn[t]] = "down"
    BY <1>1 DEF LimitInv, LiveInv, Counted
  <1>4. \A u \in Callers : pc[u] # "warmconn"
    BY <1>2, OneOwner DEF LockInv, CriticalPc, Tasks
  <1>5. Cardinality(Lease!Existing) < MaxConnections
    BY <1>4, ExistingLemma
  <1>6. \A u \in Callers : lease[u] # conn[t]
    BY <1>1, ConnAssumption DEF lease, HoldPc
  <1>7. lease[t] = NoConn /\ lease' = [lease EXCEPT ![t] = conn[t]]
    BY <1>2 DEF lease, HoldPc
  <1>8. Lease!Dial(conn[t])
    BY <1>1, <1>2, <1>3, <1>5, <1>6, <1>7, SameCount DEF Lease!Dial, Lease!InHands
  <1> QED BY <1>1, <1>8 DEF Lease!LeaseNext

\* The server has answered a caller, or not.
LEMMA ConnectAnswers ==
    ASSUME PoolInv, NEW t \in Callers, ConnectOk(t) \/ ConnectFail(t)
    PROVE  Lease!LeaseNext
  <1> USE DEF PoolInv, TypeOK, ConnectOk, ConnectFail
  <1>1. conn[t] \in Conns /\ link[conn[t]] = "connecting"
    BY DEF LinkInv, ConnInv
  <1>2. phase' = phase
    BY LeaseGoes DEF CallerStep
  <1>3. UNCHANGED lease
    BY DEF lease, HoldPc, Tasks
  <1>4. Lease!Answer(conn[t])
    BY <1>1, <1>2, <1>3 DEF Lease!Answer
  <1> QED BY <1>1, <1>4 DEF Lease!LeaseNext

\* A caller who no longer has a session has given it back.
LEMMA GivesBack ==
    ASSUME Disciplined, PoolInv, LimitInv, NEW t \in Callers,
           Rollback(t) \/ RetIdle(t) \/ RetDead(t) \/ RetUnknown(t) \/ RetClosed(t)
    PROVE  Lease!LeaseNext
  <1> USE DEF PoolInv, TypeOK
  <1>1. phase' = phase /\ \A u \in Callers \ {t} : pc'[u] = pc[u]
    BY LeaseGoes DEF CallerStep
  <1>2. UNCHANGED link /\ conn' = [conn EXCEPT ![t] = NoConn] /\ pc'[t] = "idle" /\ pc[t] \in HoldPc
    <2>1. CASE Rollback(t) \/ RetIdle(t) \/ RetDead(t)
      BY <2>1 DEF Rollback, RetIdle, RetDead, HoldPc, Tasks
    <2>2. CASE RetUnknown(t)
      <3>1. pc[Closer] = "done" /\ conn[t] \in Conns
        BY <2>2 DEF RetUnknown, LimitInv, HeldInv, HoldPc, ConnInv
      <3>2. ~Connected(conn[t])
        BY <3>1 DEF Connected, LimitInv, CloseInv
      <3> QED BY <2>2, <3>2 DEF RetUnknown, HoldPc, Tasks
    <2>3. ~RetClosed(t)
      BY DEF RetClosed, LimitInv, HeldInv
    <2> QED BY <2>1, <2>2, <2>3
  <1>3. lease[t] # NoConn
    BY <1>2 DEF lease, ConnInv, HoldPc
  <1>4. lease' = [lease EXCEPT ![t] = NoConn]
    BY <1>1, <1>2 DEF lease, HoldPc
  <1> QED BY <1>1, <1>2, <1>3, <1>4 DEF Lease!LeaseNext, Lease!GiveBack

\* So is one for the stock.
LEMMA WarmDials ==
    ASSUME Disciplined, PoolInv, LimitInv, NEW t \in Callers, WarmDial(t)
    PROVE  Lease!LeaseNext
  <1> USE DEF PoolInv, TypeOK, WarmDial
  <1>1. PICK c \in WarmSpare : conn' = [conn EXCEPT ![t] = c] /\ link' = [link EXCEPT ![c] = "connecting"]
    OBVIOUS
  <1>2. c \in Conns /\ link[c] = "down" /\ \A u \in Callers : conn[u] # c
    BY <1>1 DEF WarmSpare, Spare
  <1>3. t \in Tasks /\ phase' = phase /\ phase # "closed"
    BY LeaseGoes DEF CallerStep, Tasks, phase, LimitInv, AheadInv, AskPc, WarmPc
  <1>4. \A u \in Callers : pc[u] # "warmconn"
    BY <1>3, OneOwner DEF LockInv, CriticalPc, Tasks
  <1>5. Cardinality(Lease!Existing) < MaxConnections
    BY <1>4, ExistingLemma
  <1>6. \A u \in Callers : lease[u] # c
    BY <1>2, ConnAssumption DEF lease
  <1>7. UNCHANGED lease
    BY <1>1, <1>3 DEF lease, HoldPc
  <1>8. Lease!Dial(c)
    BY <1>1, <1>2, <1>3, <1>5, <1>6, <1>7, SameCount DEF Lease!Dial, Lease!InHands
  <1> QED BY <1>2, <1>8 DEF Lease!LeaseNext

\* The server has answered a warm-up, or not.
LEMMA WarmAnswers ==
    ASSUME PoolInv, NEW t \in Callers, WarmOk(t) \/ WarmFail(t)
    PROVE  Lease!LeaseNext
  <1> USE DEF PoolInv, TypeOK, WarmOk, WarmFail
  <1>1. conn[t] \in Conns /\ link[conn[t]] = "connecting"
    BY DEF LinkInv, ConnInv
  <1>2. phase' = phase
    BY LeaseGoes DEF CallerStep
  <1>3. UNCHANGED lease
    BY DEF lease, HoldPc, Tasks
  <1>4. Lease!Answer(conn[t])
    BY <1>1, <1>2, <1>3 DEF Lease!Answer
  <1> QED BY <1>1, <1>4 DEF Lease!LeaseNext

\* The other steps of a call show nothing.
LEMMA CallUnseen ==
    ASSUME PoolInv, NEW t \in Callers,
           GetExhausted(t) \/ Finish(t) \/ WarmBegin(t) \/ WarmEnd(t)
    PROVE  UNCHANGED Lease!leaseVars
  <1> USE DEF PoolInv, TypeOK, GetExhausted, Finish, WarmBegin, WarmEnd
  <1>1. phase' = phase
    BY LeaseGoes DEF CallerStep
  <1>2. UNCHANGED lease
    BY DEF lease, HoldPc, Tasks
  <1> QED BY <1>1, <1>2 DEF Lease!leaseVars

\* A sweep hangs up what nobody has.
LEMMA CleanerLeases ==
    ASSUME PoolInv, CleanerStep
    PROVE  [Lease!LeaseNext]_Lease!leaseVars
  <1> USE DEF PoolInv, TypeOK
  <1>1. Cleaner \in Tasks /\ Closer \in Tasks /\ Callers \subseteq Tasks
    BY DEF Tasks
  <1>2. UNCHANGED conn /\ pc'[Closer] = pc[Closer] /\ \A u \in Callers : pc'[u] = pc[u]
    <2>1. CASE CleanWake \/ CleanBegin \/ CleanEnd
      BY <1>1, <2>1, TaskAssumption DEF CleanWake, CleanBegin, CleanEnd
    <2>2. CASE \E c \in Conns : CleanKeep(c) \/ CleanRemove(c) \/ CleanClose(c) \/ CleanClosed(c)
      BY <1>1, <2>2, TaskAssumption DEF CleanKeep, CleanRemove, CleanClose, CleanClosed
    <2> QED BY <2>1, <2>2 DEF CleanerStep
  <1>3. UNCHANGED <<lease, phase>>
    BY <1>2 DEF lease, phase
  <1>4. CASE UNCHANGED link
    BY <1>3, <1>4 DEF Lease!leaseVars
  <1>5. ASSUME NEW c \in Conns, CleanClose(c)
        PROVE  Lease!LeaseNext
    <2>1. link[c] = "open" /\ c \in Free /\ link' = [link EXCEPT ![c] = "closing"]
      BY <1>5 DEF CleanClose, Connected, Doomed, Free, SweepInv, SweepPc
    <2>2. \A u \in Callers : lease[u] # c
      BY <2>1, FreeUnheld, ConnAssumption DEF lease
    <2> QED BY <1>3, <2>1, <2>2 DEF Lease!LeaseNext, Lease!HangUp, Lease!InHands
  <1>6. ASSUME NEW c \in Conns, CleanClosed(c)
        PROVE  Lease!LeaseNext
    BY <1>3, <1>6 DEF CleanClosed, Lease!LeaseNext, Lease!HungUp
  <1>7. CASE CleanWake \/ CleanBegin \/ CleanEnd \/ \E c \in Conns : CleanKeep(c) \/ CleanRemove(c)
    BY <1>4, <1>7 DEF CleanWake, CleanBegin, CleanEnd, CleanKeep, CleanRemove
  <1> QED BY <1>5, <1>6, <1>7 DEF CleanerStep

\* close() hangs up whatever is left.
LEMMA CloserLeases ==
    ASSUME Disciplined, PoolInv, LimitInv, CloserStep
    PROVE  [Lease!LeaseNext]_Lease!leaseVars
  <1> USE DEF PoolInv, TypeOK
  <1>1. Closer \in Tasks /\ Callers \subseteq Tasks
    BY DEF Tasks
  <1>2. UNCHANGED lease
    <2>1. UNCHANGED conn /\ \A u \in Callers : pc'[u] = pc[u]
      <3>1. CASE CloseQueue \/ CloseBegin \/ CloseEnd
        BY <1>1, <3>1, TaskAssumption DEF CloseQueue, CloseBegin, CloseEnd
      <3>2. CASE \E c \in Conns : CloseEntry(c) \/ CloseEntryDead(c) \/ CloseEntryDone(c)
        BY <1>1, <3>2, TaskAssumption DEF CloseEntry, CloseEntryDead, CloseEntryDone
      <3> QED BY <3>1, <3>2 DEF CloserStep
    <2> QED BY <2>1 DEF lease
  <1>3. CASE CloseQueue \/ CloseBegin \/ \E c \in Conns : CloseEntryDead(c)
    <2>1. UNCHANGED <<link, phase>>
      BY <1>1, <1>3 DEF CloseQueue, CloseBegin, CloseEntryDead, phase
    <2> QED BY <1>2, <2>1 DEF Lease!leaseVars
  <1>4. ASSUME NEW c \in Conns, CloseEntry(c)
        PROVE  Lease!LeaseNext
    <2>1. link[c] = "open" /\ phase = "stopping" /\ phase' = phase /\ link' = [link EXCEPT ![c] = "closing"]
      BY <1>1, <1>4 DEF CloseEntry, Connected, phase
    <2> QED BY <1>2, <2>1 DEF Lease!LeaseNext, Lease!HangUp
  <1>5. ASSUME NEW c \in Conns, CloseEntryDone(c)
        PROVE  Lease!LeaseNext
    <2>1. phase' = phase
      BY <1>1, <1>5 DEF CloseEntryDone, phase
    <2> QED BY <1>2, <1>5, <2>1 DEF CloseEntryDone, Lease!LeaseNext, Lease!HungUp
  <1>6. CASE CloseEnd
    <2>1. phase = "stopping" /\ phase' = "closed" /\ UNCHANGED link /\ pc'[Closer] = "done"
      BY <1>1, <1>6 DEF CloseEnd, phase
    <2>2. LimitInv'
      BY <1>6, CloseEndLimit
    <2>3. Lease!Existing = {}
      BY <2>1, <2>2 DEF Lease!Existing, LimitInv, CloseInv
    <2> QED BY <1>2, <2>1, <2>3 DEF Lease!LeaseNext, Lease!Closed
  <1> QED BY <1>3, <1>4, <1>5, <1>6 DEF CloserStep

\* A cancelled caller abandons the connection it waits for, gives one back, or
\* had none; a cancelled return shows nothing.
LEMMA CancelLeases ==
    ASSUME PoolInv, LimitInv, NEW t \in Callers, Cancel(t)
    PROVE  [Lease!LeaseNext]_Lease!leaseVars
  <1> USE DEF PoolInv, TypeOK, Cancel
  <1>1. /\ t \in Tasks /\ phase' = phase /\ pc'[t] = IF pc[t] = "ret" THEN "using" ELSE "idle"
        /\ \A u \in Callers \ {t} : pc'[u] = pc[u]
    BY TaskAssumption DEF Tasks, phase
  <1>2. conn' = IF pc[t] = "ret" THEN conn ELSE [conn EXCEPT ![t] = NoConn]
    OBVIOUS
  <1>3. CASE pc[t] \in {"get", "ret", "warm"}
    <2>1. UNCHANGED link
      BY <1>3
    <2>2. UNCHANGED lease
      BY <1>1, <1>2, <1>3 DEF lease, HoldPc
    <2> QED BY <1>1, <2>1, <2>2 DEF Lease!leaseVars
  <1>4. CASE pc[t] \in {"finish", "rollback"}
    <2>1. UNCHANGED link
      BY <1>4
    <2>2. lease[t] # NoConn /\ lease' = [lease EXCEPT ![t] = NoConn]
      BY <1>1, <1>2, <1>4 DEF lease, HoldPc, ConnInv
    <2> QED BY <1>1, <2>1, <2>2 DEF Lease!LeaseNext, Lease!GiveBack
  <1>5. CASE pc[t] = "connect"
    <2>1. link[conn[t]] = "connecting" /\ link' = [link EXCEPT ![conn[t]] = "down"]
      BY <1>5 DEF LinkInv
    <2>2. lease[t] = conn[t] /\ lease[t] # NoConn /\ lease' = [lease EXCEPT ![t] = NoConn]
      BY <1>1, <1>2, <1>5 DEF lease, HoldPc, ConnInv
    <2> QED BY <1>1, <2>1, <2>2 DEF Lease!LeaseNext, Lease!Abandon
  <1>6. CASE pc[t] = "warmconn"
    <2>1. conn[t] \in Conns /\ link[conn[t]] = "connecting" /\ link' = [link EXCEPT ![conn[t]] = "down"]
      BY <1>6 DEF LinkInv, ConnInv
    <2>2. UNCHANGED lease
      BY <1>1, <1>2, <1>6 DEF lease, HoldPc
    <2> QED BY <1>1, <2>1, <2>2 DEF Lease!LeaseNext, Lease!Answer
  <1>7. pc[t] # "retclose"
    BY DEF LimitInv, HeldInv
  <1> QED BY <1>3, <1>4, <1>5, <1>6, <1>7 DEF CancelPc

\* Calls show nothing; stopping and losing a connection are steps of LeasePool.
LEMMA EnvironmentLeases ==
    ASSUME Disciplined, PoolInv, LimitInv, Environment
    PROVE  [Lease!LeaseNext]_Lease!leaseVars
  <1> USE DEF PoolInv, TypeOK
  <1>1. Cleaner \in Tasks /\ Closer \in Tasks /\ Callers \subseteq Tasks
    BY DEF Tasks
  <1>2. CASE Start
    <2>1. UNCHANGED <<link, lease, phase>>
      BY <1>1, <1>2, TaskAssumption DEF Start, lease, phase
    <2> QED BY <2>1 DEF Lease!leaseVars
  <1>3. CASE CloseCall
    <2> DEFINE cut == {c \in Conns : pc[Cleaner] = "sweepwait" /\ c \in todo /\ link[c] = "closing"}
    <2>1. phase = "open" /\ phase' = "stopping"
      BY <1>1, <1>3, TaskAssumption DEF CloseCall, phase
    <2>2. UNCHANGED lease
      BY <1>1, <1>3, TaskAssumption DEF CloseCall, lease
    <2>3. cut \in SUBSET {s \in Conns : link[s] = "closing"}
      OBVIOUS
    <2>4. link' = [s \in Conns |-> IF s \in cut THEN "down" ELSE link[s]]
      BY <1>3 DEF CloseCall
    <2> HIDE DEF cut
    <2> QED BY <2>1, <2>2, <2>3, <2>4 DEF Lease!LeaseNext, Lease!Stop
  <1>4. ASSUME NEW t \in Callers, GetCall(t) \/ RetCall(t) \/ WarmCall(t)
        PROVE  UNCHANGED Lease!leaseVars
    <2>1. UNCHANGED link /\ pc'[Closer] = pc[Closer]
      BY <1>1, <1>4, TaskAssumption DEF GetCall, RetCall, WarmCall
    <2>2. UNCHANGED lease
      BY <1>1, <1>4 DEF GetCall, RetCall, WarmCall, lease, HoldPc
    <2> QED BY <2>1, <2>2 DEF Lease!leaseVars, phase
  <1>5. ASSUME NEW c \in Conns, Drop(c)
        PROVE  Lease!LeaseNext
    <2>1. UNCHANGED <<lease, phase>>
      BY <1>5 DEF Drop, lease, phase
    <2> QED BY <1>5, <2>1 DEF Drop, Connected, Lease!LeaseNext, Lease!Lost
  <1>6. ~(\E t \in Callers : Adopt(t))
    BY DEF Disciplined, Adopt
  <1> QED BY <1>2, <1>3, <1>4, <1>5, <1>6, CancelLeases DEF Environment

\* Together: every step is one of LeasePool, or shows nothing.
LEMMA NextLeases ==
    ASSUME Disciplined, PoolInv, LimitInv, [Next]_vars
    PROVE  [Lease!LeaseNext]_Lease!leaseVars
  <1>1. ASSUME NEW t \in Callers, CallerStep(t)
        PROVE  [Lease!LeaseNext]_Lease!leaseVars
    BY <1>1, ReuseLends, CreateDials, ConnectAnswers, GivesBack, WarmDials, WarmAnswers, CallUnseen
       DEF CallerStep
  <1>2. CASE UNCHANGED vars
    BY <1>2 DEF vars, Lease!leaseVars, lease, phase
  <1> QED BY <1>1, <1>2, CleanerLeases, CloserLeases, EnvironmentLeases DEF Next

-----------------------------------------------------------------------------
(* The theorems *)

\* At first there is nothing.
LEMMA InitLimit ==
    ASSUME Init
    PROVE  LimitInv
  <1> USE DEF Init
  <1>1. Counted = {}
    BY DEF Counted, Lost, Orphans
  <1>2. Cardinality({}) = 0
    BY FS_EmptySet
  <1>3. CountInv
    BY <1>1, <1>2, CapacityAssumption DEF CountInv, Tasks
  <1>4. \A t \in Callers : pc[t] = "idle"
    BY DEF Tasks
  <1>5. pc[Closer] = "open"
    BY TaskAssumption DEF Tasks
  <1>6. AheadInv /\ HeldInv /\ LiveInv /\ CloseInv
    BY <1>4, <1>5 DEF AheadInv, AskPc, WarmPc, HeldInv, HoldPc, LiveInv, CloseInv
  <1> QED BY <1>3, <1>6 DEF LimitInv

\* Every step keeps the invariant.
LEMMA NextLimit ==
    ASSUME Disciplined, PoolInv, LimitInv, [Next]_vars
    PROVE  LimitInv'
  <1>1. CASE UNCHANGED vars
    <2> USE <1>1 DEF vars, LimitInv
    <2>1. Counted' = Counted
      BY DEF Counted, Lost, Orphans
    <2>2. AheadInv' /\ HeldInv' /\ CloseInv'
      BY DEF AheadInv, Queued, HeldInv, CloseInv
    <2>3. LiveInv' /\ CountInv'
      BY <2>1 DEF LiveInv, CountInv
    <2> QED BY <2>2, <2>3
  <1> QED BY <1>1, CallerStepLimit, CleanerStepLimit, CloserStepLimit, EnvironmentLimit DEF Next

\* LimitInv holds in every reachable state, for every set of callers and
\* sessions and every capacity (pool.py:90-314).
THEOREM LimitInvariant ==
    ASSUME Disciplined
    PROVE  Spec => []LimitInv
  <1>1. PoolInv /\ LimitInv /\ [Next]_vars => LimitInv'
    BY NextLimit
  <1> QED BY InitLimit, <1>1, PoolInvariant, PTL DEF Spec

\* Connections are counted before they are opened, so there are never more than
\* max_connections, whoever is cancelled where (pool.py:157-176).
THEOREM CapacityTheorem ==
    ASSUME Disciplined
    PROVE  Spec => []CapacityRespected
  <1>1. ASSUME PoolInv, LimitInv
        PROVE  CapacityRespected
    <2> USE <1>1 DEF LimitInv, CountInv
    <2>1. /\ IsFiniteSet(Counted) /\ Cardinality(Counted) \in Nat
          /\ Cardinality(Counted) <= total /\ total \in Nat
      BY FiniteCounts DEF PoolInv, TypeOK
    <2>2. CASE \A t \in Callers : pc[t] # "warmconn"
      <3>1. Physical \subseteq Counted
        BY <2>2 DEF Physical, LiveInv
      <3>2. Cardinality(Physical) <= Cardinality(Counted) /\ Cardinality(Physical) \in Nat
        BY <2>1, <3>1, FS_Subset, FS_CardinalityType
      <3> QED BY <2>1, <3>2, CapacityAssumption DEF CapacityRespected
    <2>3. ASSUME NEW t \in Callers, pc[t] = "warmconn"
          PROVE  CapacityRespected
      <3>1. \A u \in Callers : pc[u] = "warmconn" => u = t
        BY <2>3, OneOwner DEF PoolInv, LockInv, CriticalPc, Tasks
      <3>2. Physical \subseteq Counted \cup {conn[t]}
        BY <3>1 DEF Physical, LiveInv
      <3>3. conn[t] \notin Counted
        BY <2>3 DEF PoolInv, EntryInv, Counted
      <3>4. /\ IsFiniteSet(Counted \cup {conn[t]})
            /\ Cardinality(Counted \cup {conn[t]}) = Cardinality(Counted) + 1
        BY <2>1, <3>3, FS_AddElement
      <3>5. /\ Cardinality(Physical) <= Cardinality(Counted \cup {conn[t]})
            /\ Cardinality(Physical) \in Nat
        BY <3>2, <3>4, FS_Subset, FS_CardinalityType
      <3>6. total < MaxConnections
        BY <2>3
      <3> QED BY <2>1, <3>4, <3>5, <3>6, CapacityAssumption DEF CapacityRespected
    <2> QED BY <2>2, <2>3
  <1>2. PoolInv /\ LimitInv => CapacityRespected
    BY <1>1
  <1> QED BY <1>2, PoolInvariant, LimitInvariant, PTL

\* total counts each usable entry once, if nobody is cancelled
\* (pool.py:172, 182, 205, 222, 229, 268, 313).
THEOREM TotalTheorem ==
    ASSUME Disciplined, ~Cancellable
    PROVE  Spec => []TotalIsExact
  <1>1. Lost = Orphans
    BY DEF Lost, Orphans
  <1>2. LimitInv => TotalIsExact
    BY <1>1 DEF LimitInv, CountInv, Counted, TotalIsExact
  <1> QED BY <1>2, LimitInvariant, PTL

\* After close() nothing is open, and nothing opens again (pool.py:293-314).
THEOREM ClosedTheorem ==
    ASSUME Disciplined
    PROVE  Spec => []ClosedMeansNoneOpen
  <1>1. LimitInv => ClosedMeansNoneOpen
    BY DEF LimitInv, CloseInv, ClosedMeansNoneOpen, Physical
  <1> QED BY <1>1, LimitInvariant, PTL

\* The pool keeps LeasePool's promise: each of at most max_connections
\* connections is lent to one caller at a time, only unlent ones are hung up
\* until close(), and none is left after it (pool.py:128-314).
THEOREM LeaseTheorem ==
    ASSUME Disciplined
    PROVE  Spec => ImplementsLeasePool
  <1>1. Init => Lease!LeaseInit
    BY TaskAssumption DEF Init, Lease!LeaseInit, lease, phase, HoldPc, Tasks
  <1>2. PoolInv /\ LimitInv /\ [Next]_vars => [Lease!LeaseNext]_Lease!leaseVars
    BY NextLeases
  <1> QED BY <1>1, <1>2, PoolInvariant, LimitInvariant, PTL
          DEF Spec, ImplementsLeasePool, Lease!LeaseSpec

===============================================================================
