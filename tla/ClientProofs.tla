------------------------------ MODULE ClientProofs ------------------------------
(***************************************************************************)
(* Theorems about Client, for every set of workers and sessions and every  *)
(* capacity.  A session a worker has lost to close_all is referred to      *)
(* twice, so the pool's invariant does not hold for its client; ClientInv  *)
(* takes its place: who refers to which session, which sessions are the    *)
(* pool's, and that close_all comes after every call that still asks the   *)
(* pool for one.  One lemma per action shows that a step keeps it.         *)
(***************************************************************************)
EXTENDS Client, ConnectionPoolProofs

USE DEF Goto, Holds, SetLink, Touch, Forget, pool, sweep, client, Enter, Has

-----------------------------------------------------------------------------
(* The inductive invariant *)

\* Places of a call whose session nobody else may know yet.
Lending == {"get", "connect", "finish", "rollback"}

\* The session of worker t is the pool's, lent to it alone.
Claims(t) == pc[t] \in Lending \/ call[t] = "release" \/ conn[t] \in pooled

Asking == \E t \in Callers : pc[t] = "get"

TypeInv ==
    /\ pc \in [Tasks -> CallerPc \cup CleanerPc \cup CloserPc]
    /\ \A t \in Callers : pc[t] \in CallerPc
    /\ pc[Cleaner] \in CleanerPc /\ pc[Closer] \in CloserPc
    /\ lockq \in Seq(Tasks)
    /\ conn \in [Callers -> Conns \cup {NoConn}]
    /\ entries \subseteq Conns /\ inUse \subseteq entries /\ gone \subseteq entries \ inUse
    /\ todo \subseteq Conns
    /\ ClientTypeOK

\* Where a task is in its client call says where it is in the pool's.
CallInv ==
    /\ \A t \in Callers :
        /\ call[t] = "connect" => pc[t] \in Lending /\ mine[t] = NoConn
        /\ call[t] = "release" => pc[t] = "ret" /\ mine[t] = NoConn
        /\ call[t] = "out" => pc[t] = "idle" \/ (pc[t] = "using" /\ mine[t] = conn[t])
        /\ call[t] \notin {"connect", "release", "out"} => pc[t] = "idle"
        /\ call[t] \in {"hangup", "hungup"} => mine[t] # NoConn
        /\ conn[t] = NoConn <=> pc[t] = "idle"
    /\ \A t \in Workers : call[t] \notin {"closeall", "shutdown"}
    /\ call[Manager] \notin {"connect", "direct"}
    /\ call[Manager] \in {"out", "closeall", "shutdown"} => pc[Manager] = "idle" /\ mine[Manager] = NoConn
    /\ call[Manager] # "out" => closed
    /\ conn[Manager] \notin batch

\* What is lent to a worker nobody else refers to, and workers share nothing.
SoleInv ==
    /\ \A t \in Workers : Claims(t) =>
          /\ conn[t] \notin batch
          /\ \A u \in Callers \ {t} : conn[u] # conn[t] /\ mine[u] # conn[t]
    /\ \A t, u \in Workers : t # u /\ mine[t] = mine[u] => mine[t] = NoConn

\* The registry is up to date.
TrackInv ==
    /\ \A c \in pooled : \E t \in Workers : pc[t] = "using" /\ conn[t] = c
    /\ ~closed => \A t \in Workers : pc[t] = "using" => conn[t] \in pooled
    /\ \A n \in Workers : active[n] # NoConn => mine[n] = active[n] /\ call[n] = "out"

\* What is lent is listed as in use, until the pool is closed.
ListInv ==
    /\ \A t \in Callers : pc[t] = "get" => conn[t] \notin entries
    /\ \A t \in Callers :
          pc[t] \in {"connect", "finish", "rollback", "ret"} \/ conn[t] \in pooled =>
             conn[t] \in inUse \/ pc[Closer] = "done"
    /\ \A c \in batch : (c \in loaned \/ c \in entries) => c \in inUse
    /\ ~closed \/ Asking => \A t \in Callers : mine[t] \in entries => mine[t] \in inUse

\* close_all and close() queue behind every call that still asks for a session.
QueueInv ==
    /\ \A t \in Tasks : pc[t] \in CriticalPc => Owns(t)
    /\ \A t \in Callers : pc[t] = "get" => Queued(t)
    /\ \A k \in 1 .. Len(lockq) : lockq[k] \in {Manager, Closer} =>
          closed /\ \A t \in Callers : pc[t] = "get" => \E i \in 1 .. k - 1 : lockq[i] = t
    /\ pc[Closer] \in {"closing", "closewait", "done"} => ~Asking

\* A connection being opened is so for the one task that has asked for it.
DialInv ==
    /\ \A t \in Callers :
          /\ pc[t] = "connect" => link[conn[t]] = "connecting"
          /\ pc[t] = "rollback" => link[conn[t]] = "down"
          /\ call[t] = "direct" /\ mine[t] # NoConn =>
                /\ link[mine[t]] = "connecting" /\ mine[t] \notin entries
                /\ \A u \in Callers : conn[u] # mine[t]
    /\ \A c \in Conns : link[c] = "connecting" =>
          \E t \in Callers : \/ pc[t] = "connect" /\ conn[t] = c
                             \/ call[t] = "direct" /\ mine[t] = c

\* One task at a time ends a connection for the client,
HangInv ==
    /\ \A t \in Callers : call[t] = "hungup" => link[mine[t]] = "hanging"
    /\ \A t, u \in Callers : call[t] = "hungup" /\ call[u] = "hungup" /\ mine[t] = mine[u] => t = u
    /\ \A c \in Conns : link[c] = "hanging" => \E t \in Callers : call[t] = "hungup" /\ mine[t] = c

\* and one for the pool.
EndInv ==
    /\ \A c \in Conns : link[c] = "closing" =>
          \/ pc[Cleaner] = "sweepwait" /\ c \in todo /\ c \in entries \ inUse
          \/ pc[Closer] = "closewait" /\ c \in todo
    /\ \A c, d \in Conns : link[c] = "closing" /\ link[d] = "closing" => c = d

\* Every connection is listed or somebody's.
FoundInv ==
    /\ \A c \in gone : link[c] = "down"
    /\ \A c \in Conns : link[c] # "down" => c \in entries \/ \E t \in Callers : mine[t] = c

\* close_all closes the pool when it has nothing left to release.
ShutInv ==
    /\ ~closed => batch = {}
    /\ pc[Closer] # "open" =>
          closed /\ batch = {} /\ call[Manager] \in {"shutdown", "out"} /\ pc[Cleaner] = "off"
    /\ pc[Closer] \in {"closing", "closewait"} => \A c \in entries \ todo : link[c] = "down"
    /\ pc[Closer] = "done" =>
          entries = {} /\ \A t \in Workers : Claims(t) => link[conn[t]] = "down"

ClientInv ==
    /\ TypeInv /\ CallInv /\ SoleInv /\ TrackInv /\ ListInv /\ QueueInv
    /\ DialInv /\ HangInv /\ EndInv /\ SweepInv /\ FoundInv /\ ShutInv

-----------------------------------------------------------------------------
(* What a step does to the queue *)

Late == {"closing", "closewait", "done"}

\* A step that leaves the queue alone and asks for nothing,
LEMMA QueueStays ==
    ASSUME QueueInv, UNCHANGED lockq, closed => closed',
           \A u \in Callers : pc'[u] = "get" => pc[u] = "get",
           \A u \in Tasks : pc'[u] \in CriticalPc => pc[u] \in CriticalPc \/ Owns(u),
           pc'[Closer] \in Late => pc[Closer] \in Late
    PROVE  QueueInv'
  BY DEF QueueInv, Queued, Owns, Asking, Late

\* a worker that joins it,
LEMMA QueueJoined ==
    ASSUME QueueInv, lockq \in Seq(Tasks), NEW t \in Tasks, Enqueue(t), UNCHANGED closed,
           t \notin {Manager, Closer} \/ closed,
           \A u \in Callers : pc'[u] = "get" => pc[u] = "get" \/ (u = t /\ ~closed /\ pc[Closer] \notin Late),
           \A u \in Tasks : pc'[u] \in CriticalPc => pc[u] \in CriticalPc,
           pc'[Closer] \in Late => pc[Closer] \in Late
    PROVE  QueueInv'
  <1>1. /\ Len(lockq') = Len(lockq) + 1 /\ lockq'[Len(lockq) + 1] = t
        /\ \A i \in 1 .. Len(lockq) : lockq'[i] = lockq[i]
        /\ Len(lockq) \in Nat
    BY Joined
  <1>2. ASSUME NEW u \in Callers, pc'[u] = "get"
        PROVE  Queued(u)' /\ (pc[u] = "get" => \E i \in 1 .. Len(lockq) : lockq'[i] = u)
    BY <1>1, <1>2 DEF QueueInv, Queued
  <1>3. ASSUME NEW k \in 1 .. Len(lockq'), lockq'[k] \in {Manager, Closer}
        PROVE  closed' /\ \A u \in Callers : pc'[u] = "get" => \E i \in 1 .. k - 1 : lockq'[i] = u
    <2>1. CASE k \in 1 .. Len(lockq)
      <3>1. closed /\ \A u \in Callers : pc[u] = "get" => \E i \in 1 .. k - 1 : lockq[i] = u
        BY <1>1, <1>3, <2>1 DEF QueueInv
      <3> QED BY <1>1, <2>1, <3>1
    <2>2. CASE k = Len(lockq) + 1
      <3>1. closed
        BY <1>1, <1>3, <2>2
      <3> QED BY <1>1, <1>2, <2>2, <3>1
    <2> QED BY <1>1, <2>1, <2>2
  <1>4. \A u \in Tasks : Owns(u) => Owns(u)'
    BY EnqueueLemma
  <1>5. /\ \A u \in Tasks : pc'[u] \in CriticalPc => Owns(u)'
        /\ pc'[Closer] \in Late => ~Asking'
    BY <1>4 DEF QueueInv, Asking, Late
  <1> QED BY <1>2, <1>3, <1>5 DEF QueueInv, Late

\* and one that leaves it having what it asked for, keep the order.
LEMMA QueueLeft ==
    ASSUME QueueInv, lockq \in Seq(Tasks), NEW t \in Tasks, Owns(t), Release, UNCHANGED closed,
           \A u \in Callers : pc'[u] = "get" => pc[u] = "get" /\ u # t,
           \A u \in Tasks : pc'[u] \in CriticalPc => pc[u] \in CriticalPc /\ u # t,
           pc'[Closer] \in Late => pc[Closer] \in Late
    PROVE  QueueInv'
  <1>1. /\ lockq[1] = t /\ Len(lockq') = Len(lockq) - 1
        /\ \A i \in 1 .. Len(lockq) - 1 : lockq'[i] = lockq[i + 1]
        /\ Len(lockq) \in Nat /\ Len(lockq) >= 1
    BY MovedUp
  <1>2. ASSUME NEW u \in Callers, pc'[u] = "get"
        PROVE  Queued(u)'
    <2>1. PICK i \in 1 .. Len(lockq) : lockq[i] = u
      BY <1>2 DEF QueueInv, Queued
    <2>2. i - 1 \in 1 .. Len(lockq) - 1 /\ lockq'[i - 1] = u
      BY <1>1, <1>2, <2>1
    <2> QED BY <1>1, <2>2 DEF Queued
  <1>3. ASSUME NEW k \in 1 .. Len(lockq'), lockq'[k] \in {Manager, Closer}
        PROVE  closed' /\ \A u \in Callers : pc'[u] = "get" => \E i \in 1 .. k - 1 : lockq'[i] = u
    <2>1. k + 1 \in 1 .. Len(lockq) /\ lockq[k + 1] \in {Manager, Closer}
      BY <1>1, <1>3
    <2>2. closed /\ \A u \in Callers : pc[u] = "get" => \E i \in 1 .. k : lockq[i] = u
      BY <1>1, <2>1 DEF QueueInv
    <2>3. ASSUME NEW u \in Callers, pc'[u] = "get"
          PROVE  \E i \in 1 .. k - 1 : lockq'[i] = u
      <3>1. PICK i \in 1 .. k : lockq[i] = u
        BY <2>2, <2>3
      <3>2. i # 1
        BY <1>1, <2>3, <3>1
      <3>3. i - 1 \in 1 .. k - 1 /\ lockq'[i - 1] = u
        BY <1>1, <2>1, <3>1, <3>2
      <3> QED BY <3>3
    <2> QED BY <2>2, <2>3
  <1>4. \A u \in Tasks : pc'[u] \notin CriticalPc
    BY OneOwner DEF QueueInv
  <1>5. pc'[Closer] \in Late => ~Asking'
    BY DEF QueueInv, Asking, Late
  <1> QED BY <1>2, <1>3, <1>4, <1>5 DEF QueueInv, Late

-----------------------------------------------------------------------------
(* Every step keeps the invariant *)

\* A task's place in its client call tells its place in the pool's.
LEMMA Places ==
    ASSUME ClientInv, NEW t \in Callers
    PROVE  /\ pc[t] \in Lending <=> call[t] = "connect"
           /\ pc[t] = "ret" <=> call[t] = "release"
           /\ pc[t] = "using" => call[t] = "out" /\ t # Manager /\ mine[t] = conn[t]
           /\ pc[t] \in Lending \cup {"idle", "using", "ret"}
           /\ pc[t] \in Lending => t \in Workers
           /\ conn[t] \in pooled => pc[t] = "using"
           /\ t \in Tasks /\ t # Closer /\ t # Cleaner
           /\ t # Manager => t \in Workers
  <1>1. /\ t \in Tasks /\ t # Closer /\ t # Cleaner /\ (t # Manager => t \in Workers)
    BY TaskAssumption DEF Workers, Tasks
  <1>2. call[t] \in {"out", "connect", "direct", "release", "hangup", "hungup", "closeall", "shutdown"}
    BY DEF ClientInv, TypeInv, ClientTypeOK
  <1>3. /\ pc[t] \in Lending <=> call[t] = "connect"
        /\ pc[t] = "ret" <=> call[t] = "release"
        /\ pc[t] \in Lending \cup {"idle", "using", "ret"}
    BY <1>2 DEF ClientInv, CallInv, Lending
  <1>4. pc[t] = "using" => call[t] = "out" /\ t # Manager /\ mine[t] = conn[t]
    BY <1>2 DEF ClientInv, CallInv, Lending
  <1>5. pc[t] \in Lending => t \in Workers
    BY <1>1, <1>3 DEF ClientInv, CallInv
  <1>6. ASSUME conn[t] \in pooled
        PROVE  pc[t] = "using"
    <2>1. PICK w \in Workers : pc[w] = "using" /\ conn[w] = conn[t]
      BY <1>6 DEF ClientInv, TrackInv
    <2>2. w = t
      BY <1>6, <2>1 DEF ClientInv, SoleInv, Claims, Workers
    <2> QED BY <2>1, <2>2
  <1> QED BY <1>1, <1>3, <1>4, <1>5, <1>6

\* No sweep is under way, nor close(), while a task of the client has the lock.
LEMMA Alone ==
    ASSUME ClientInv, NEW t \in Callers, Owns(t)
    PROVE  /\ pc[Cleaner] \notin SweepPc /\ pc[Closer] \notin {"closing", "closewait"}
           /\ \A c \in Conns : link[c] # "closing"
  BY Places, OneOwner, TaskAssumption DEF ClientInv, QueueInv, EndInv, CriticalPc, SweepPc, Tasks

\* What a worker claims is a session.
LEMMA Claimed ==
    ASSUME ClientInv, NEW t \in Callers, Claims(t)
    PROVE  conn[t] \in Conns /\ conn[t] # NoConn
  BY Places, ConnAssumption DEF Claims, Lending, ClientInv, TypeInv, CallInv

\* A task that neither begins nor ends to dial leaves the dialling alone.
LEMMA DialKept ==
    ASSUME ClientInv, NEW t \in Callers, UNCHANGED link, entries' \subseteq entries,
           \A u \in Callers \ {t} :
              pc'[u] = pc[u] /\ conn'[u] = conn[u] /\ call'[u] = call[u] /\ mine'[u] = mine[u],
           conn'[t] \in {NoConn, conn[t]} \cup inUse,
           pc[t] # "connect", pc'[t] \notin {"connect", "rollback"},
           call[t] # "direct", call'[t] # "direct"
    PROVE  DialInv'
  <1> USE DEF ClientInv, TypeInv, ClientTypeOK
  <1>1. \A u \in Callers :
           /\ pc'[u] = "connect" => link'[conn'[u]] = "connecting"
           /\ pc'[u] = "rollback" => link'[conn'[u]] = "down"
    BY DEF DialInv
  <1>2. ASSUME NEW u \in Callers, call'[u] = "direct", mine'[u] # NoConn
        PROVE  /\ link'[mine'[u]] = "connecting" /\ mine'[u] \notin entries'
               /\ \A v \in Callers : conn'[v] # mine'[u]
    <2>1. u # t /\ call[u] = "direct" /\ mine'[u] = mine[u] /\ mine[u] # NoConn
      BY <1>2
    <2>2. link[mine[u]] = "connecting" /\ mine[u] \notin entries /\ \A v \in Callers : conn[v] # mine[u]
      BY <2>1 DEF DialInv
    <2> QED BY <2>1, <2>2
  <1>3. \A d \in Conns : link'[d] = "connecting" =>
           \E u \in Callers : \/ pc'[u] = "connect" /\ conn'[u] = d
                              \/ call'[u] = "direct" /\ mine'[u] = d
    BY DEF DialInv
  <1> QED BY <1>1, <1>2, <1>3 DEF DialInv

\* A session from the list was nobody's.
LEMMA GetReuseClient ==
    ASSUME ClientInv, NEW t \in Callers, PoolLends(t), GetReuse(t)
    PROVE  ClientInv'
  <1> USE DEF ClientInv, TypeInv, ClientTypeOK, PoolLends, GetReuse
  <1>1. PICK c \in Reusable(t) : conn' = [conn EXCEPT ![t] = c] /\ inUse' = inUse \cup {c}
    OBVIOUS
  <1>2. /\ t \in Workers /\ t \in Tasks /\ t # Closer /\ t # Cleaner /\ t # Manager
        /\ mine[t] = NoConn /\ conn'[t] = c /\ Asking /\ pc[Closer] \notin Late
        /\ c \in Conns /\ c \in entries \ inUse /\ link[c] = "open" /\ c \notin gone
    BY <1>1, Places DEF Reusable, Connected, CallInv, FoundInv, QueueInv, Asking, Late
  <1>3. \A u \in Callers : conn[u] # c /\ mine[u] # c
    <2> SUFFICES ASSUME NEW u \in Callers PROVE conn[u] # c /\ mine[u] # c
      OBVIOUS
    <2>1. mine[u] # c
      BY <1>2 DEF ListInv
    <2>2. conn[u] # c
      BY <1>2, <2>1, Places, ConnAssumption DEF ListInv, Lending, CallInv, Late
    <2> QED BY <2>1, <2>2
  <1>4. c \notin batch /\ c \notin pooled
    BY <1>2, <1>3 DEF ListInv, TrackInv, Workers
  <1>5. /\ pc' = [pc EXCEPT ![t] = "using"] /\ call' = [call EXCEPT ![t] = "out"]
        /\ mine' = [mine EXCEPT ![t] = c]
    BY <1>2
  <1>6. TypeInv'
    BY <1>1, <1>2, ReleaseLemma DEF Register, CallerPc
  <1>7. CallInv'
    BY <1>1, <1>2, <1>5, ConnAssumption DEF CallInv, Lending, Workers
  <1>8. SoleInv'
    BY <1>1, <1>2, <1>3, <1>4, <1>5, ConnAssumption DEF SoleInv, Claims, Lending, Workers
  <1>9. TrackInv'
    BY <1>1, <1>2, <1>3 DEF TrackInv, Register
  <1>10. ListInv'
    BY <1>1, <1>2, <1>3 DEF ListInv, Asking
  <1>11. QueueInv'
    BY <1>1, <1>2, QueueLeft DEF CriticalPc, Late
  <1>12. DialInv'
    BY <1>1, <1>2, <1>3, <1>5 DEF DialInv
  <1>13. HangInv'
    BY <1>2, <1>5 DEF HangInv
  <1>14. EndInv'
    BY <1>1, <1>2 DEF EndInv
  <1>15. FoundInv' /\ SweepInv'
    BY <1>1, <1>2, <1>5, ConnAssumption DEF FoundInv, SweepInv, SweepPc
  <1>16. ShutInv'
    BY <1>1, <1>2, <1>3 DEF ShutInv, Claims, Late
  <1> QED BY <1>6, <1>7, <1>8, <1>9, <1>10, <1>11, <1>12, <1>13, <1>14, <1>15, <1>16

\* A new session comes to the worker that alone knew of it.
LEMMA FinishClient ==
    ASSUME ClientInv, NEW t \in Callers, PoolLends(t), Finish(t)
    PROVE  ClientInv'
  <1> USE DEF ClientInv, TypeInv, ClientTypeOK, PoolLends, Finish
  <1> DEFINE c == conn[t]
  <1>1. /\ t \in Workers /\ t \in Tasks /\ t # Closer /\ t # Cleaner /\ t # Manager
        /\ mine[t] = NoConn /\ c \in Conns /\ c # NoConn
    BY Places, ConnAssumption DEF CallInv
  <1>2. /\ c \notin batch /\ \A u \in Callers \ {t} : conn[u] # c /\ mine[u] # c
    BY <1>1 DEF SoleInv, Claims, Lending
  <1>3. /\ pc' = [pc EXCEPT ![t] = "using"] /\ call' = [call EXCEPT ![t] = "out"]
        /\ mine' = [mine EXCEPT ![t] = c] /\ pooled' = pooled \cup {c} /\ conn' = conn
    OBVIOUS
  <1>4. active[t] = NoConn
    BY <1>1, ConnAssumption DEF TrackInv
  <1>5. TypeInv'
    BY <1>1, ReleaseLemma DEF Register, CallerPc
  <1>6. CallInv'
    BY <1>1, <1>3 DEF CallInv, Lending, Workers
  <1>7. SoleInv'
    BY <1>1, <1>2, <1>3 DEF SoleInv, Claims, Lending, Workers
  <1>8. TrackInv'
    BY <1>1, <1>3, <1>4 DEF TrackInv, Register
  <1>9. ListInv'
    BY <1>1, <1>2, <1>3 DEF ListInv, Asking, ShutInv, QueueInv
  <1>10. QueueInv'
    BY <1>1, QueueLeft DEF CriticalPc, Late
  <1>11. DialInv'
    BY <1>1, <1>2, <1>3 DEF DialInv
  <1>12. HangInv'
    BY <1>1, <1>3 DEF HangInv
  <1>13. EndInv'
    BY <1>1 DEF EndInv
  <1>14. FoundInv' /\ SweepInv'
    BY <1>1, <1>3, ConnAssumption DEF FoundInv, SweepInv, SweepPc
  <1>15. ShutInv'
    BY <1>1, <1>2, <1>3 DEF ShutInv, Claims, Lending
  <1> QED BY <1>5, <1>6, <1>7, <1>8, <1>9, <1>10, <1>11, <1>12, <1>13, <1>14, <1>15

\* The session a call takes up to connect was closed and nobody's.
LEMMA GetCreateClient ==
    ASSUME ClientInv, NEW t \in Callers, PoolDials(t), GetCreate(t)
    PROVE  ClientInv'
  <1> USE DEF ClientInv, TypeInv, ClientTypeOK, PoolDials, GetCreate
  <1> DEFINE c == conn[t]
  <1>1. /\ t \in Workers /\ t \in Tasks /\ t # Closer /\ t # Cleaner /\ t # Manager
        /\ mine[t] = NoConn /\ c \in Conns /\ c # NoConn /\ c \notin entries /\ c \notin gone
        /\ Asking /\ pc[Closer] \notin Late
    BY Places, ConnAssumption DEF CallInv, ListInv, QueueInv, Asking, Late
  <1>2. /\ c \notin batch /\ \A u \in Callers \ {t} : conn[u] # c /\ mine[u] # c
    BY <1>1 DEF SoleInv, Claims, Lending
  <1>3. link[c] = "down"
    BY <1>1, <1>2 DEF FoundInv
  <1>4. /\ pc' = [pc EXCEPT ![t] = "connect"] /\ link' = [link EXCEPT ![c] = "connecting"]
        /\ entries' = entries \cup {c} /\ inUse' = inUse \cup {c} /\ conn' = conn
        /\ call' = call /\ mine' = mine /\ pooled' = pooled /\ gone' = gone /\ todo' = todo
    OBVIOUS
  <1>5. TypeInv'
    BY <1>1, ReleaseLemma DEF CallerPc
  <1>6. CallInv'
    BY <1>1, <1>4 DEF CallInv, Lending, Workers
  <1>7. SoleInv'
    BY <1>1, <1>4 DEF SoleInv, Claims, Lending, Workers
  <1>8. TrackInv'
    BY <1>1, <1>4 DEF TrackInv
  <1>9. ListInv'
    BY <1>1, <1>2, <1>4, ConnAssumption DEF ListInv, Asking
  <1>10. QueueInv'
    BY <1>1, QueueLeft DEF CriticalPc, Late
  <1>11. DialInv'
    BY <1>1, <1>2, <1>3, <1>4 DEF DialInv
  <1>12. HangInv'
    BY <1>3, <1>4 DEF HangInv
  <1>13. EndInv'
    BY <1>1, <1>4 DEF EndInv
  <1>14. FoundInv' /\ SweepInv'
    BY <1>1, <1>4 DEF FoundInv, SweepInv, SweepPc
  <1>15. ShutInv'
    BY <1>1, <1>4 DEF ShutInv, Claims, Lending, Late
  <1> QED BY <1>5, <1>6, <1>7, <1>8, <1>9, <1>10, <1>11, <1>12, <1>13, <1>14, <1>15

\* The outcome of connecting is the business of one worker.
LEMMA ConnectClient ==
    ASSUME ClientInv, NEW t \in Callers, PoolDials(t), ConnectOk(t) \/ ConnectFail(t)
    PROVE  ClientInv'
  <1> USE DEF ClientInv, TypeInv, ClientTypeOK, PoolDials, ConnectOk, ConnectFail
  <1> DEFINE c == conn[t]
  <1>1. /\ t \in Workers /\ t \in Tasks /\ t # Closer /\ t # Cleaner /\ t # Manager
        /\ pc[t] = "connect" /\ mine[t] = NoConn /\ c \in Conns /\ c # NoConn
    BY Places, ConnAssumption DEF CallInv
  <1>2. \A u \in Callers \ {t} : conn[u] # c /\ mine[u] # c
    BY <1>1 DEF SoleInv, Claims, Lending
  <1>3. link[c] = "connecting"
    BY <1>1 DEF DialInv
  <1>4. PICK s \in {"open", "down"} :
          /\ link' = [link EXCEPT ![c] = s]
          /\ pc' = [pc EXCEPT ![t] = IF s = "open" THEN "finish" ELSE "rollback"]
    OBVIOUS
  <1>5. /\ Enqueue(t) /\ conn' = conn /\ entries' = entries /\ inUse' = inUse
        /\ call' = call /\ mine' = mine /\ pooled' = pooled /\ gone' = gone /\ todo' = todo
        /\ closed' = closed /\ active' = active /\ batch' = batch /\ loaned' = loaned /\ named' = named
    OBVIOUS
  <1>6. TypeInv'
    BY <1>1, <1>4, <1>5, EnqueueLemma DEF CallerPc
  <1>7. CallInv'
    BY <1>1, <1>4, <1>5 DEF CallInv, Lending, Workers
  <1>8. SoleInv'
    BY <1>1, <1>4, <1>5 DEF SoleInv, Claims, Lending, Workers
  <1>9. TrackInv'
    BY <1>1, <1>4, <1>5 DEF TrackInv
  <1>10. ListInv'
    BY <1>1, <1>4, <1>5 DEF ListInv, Asking
  <1>11. QueueInv'
    BY <1>1, <1>4, <1>5, QueueJoined DEF CriticalPc, Late
  <1>12. DialInv'
    BY <1>1, <1>2, <1>3, <1>4, <1>5 DEF DialInv
  <1>13. HangInv'
    BY <1>3, <1>4, <1>5 DEF HangInv
  <1>14. EndInv'
    BY <1>1, <1>3, <1>4, <1>5 DEF EndInv
  <1>15. FoundInv' /\ SweepInv'
    BY <1>1, <1>3, <1>4, <1>5 DEF FoundInv, SweepInv, SweepPc
  <1>16. ShutInv'
    BY <1>1, <1>2, <1>3, <1>4, <1>5 DEF ShutInv, Claims, Lending
  <1> QED BY <1>6, <1>7, <1>8, <1>9, <1>10, <1>11, <1>12, <1>13, <1>14, <1>15, <1>16

\* A call that the pool refuses leaves nothing behind.
LEMMA PoolFullClient ==
    ASSUME ClientInv, NEW t \in Callers, PoolFull(t)
    PROVE  ClientInv'
  <1> USE DEF ClientInv, TypeInv, ClientTypeOK, PoolFull, GetExhausted
  <1>1. /\ t \in Workers /\ t \in Tasks /\ t # Closer /\ t # Cleaner /\ t # Manager
        /\ mine[t] = NoConn
    BY Places DEF CallInv
  <1>2. /\ pc' = [pc EXCEPT ![t] = "idle"] /\ call' = [call EXCEPT ![t] = "out"]
        /\ conn' = [conn EXCEPT ![t] = NoConn]
        /\ UNCHANGED <<link, entries, inUse, gone, todo, closed, active, mine, pooled, batch, loaned, named>>
    OBVIOUS
  <1>3. TypeInv'
    BY <1>1, <1>2, ReleaseLemma DEF CallerPc
  <1>4. CallInv'
    BY <1>1, <1>2 DEF CallInv, Lending, Workers
  <1>5. SoleInv'
    BY <1>1, <1>2, ConnAssumption DEF SoleInv, CallInv, Claims, Lending, Workers
  <1>6. TrackInv'
    BY <1>1, <1>2 DEF TrackInv, CallInv
  <1>7. ListInv'
    BY <1>1, <1>2, ConnAssumption DEF ListInv, Asking
  <1>8. QueueInv'
    BY <1>1, QueueLeft DEF CriticalPc, Late
  <1>9. DialInv'
    BY <1>1, <1>2, ConnAssumption DEF DialInv
  <1>10. HangInv'
    BY <1>1, <1>2 DEF HangInv
  <1>11. EndInv'
    BY <1>1, <1>2 DEF EndInv
  <1>12. FoundInv' /\ SweepInv'
    BY <1>1, <1>2 DEF FoundInv, SweepInv, SweepPc
  <1>13. ShutInv'
    BY <1>1, <1>2, ConnAssumption DEF ShutInv, Claims, Lending
  <1> QED BY <1>3, <1>4, <1>5, <1>6, <1>7, <1>8, <1>9, <1>10, <1>11, <1>12, <1>13

\* A call whose connecting has failed gives up an entry only it knew.
LEMMA FallBackClient ==
    ASSUME ClientInv, NEW t \in Callers, FallBack(t)
    PROVE  ClientInv'
  <1> USE DEF ClientInv, TypeInv, ClientTypeOK, FallBack, Rollback
  <1> DEFINE c == conn[t]
  <1>1. /\ t \in Workers /\ t \in Tasks /\ t # Closer /\ t # Cleaner /\ t # Manager
        /\ mine[t] = NoConn /\ c \in Conns /\ c # NoConn
    BY Places, ConnAssumption DEF CallInv
  <1>2. /\ c \notin batch /\ \A u \in Callers \ {t} : conn[u] # c /\ mine[u] # c
    BY <1>1 DEF SoleInv, Claims, Lending
  <1>3. link[c] = "down" /\ c \notin gone
    BY <1>1 DEF DialInv, ListInv, ShutInv
  <1>4. /\ pc' = [pc EXCEPT ![t] = "idle"] /\ call' = [call EXCEPT ![t] = "direct"]
        /\ conn' = [conn EXCEPT ![t] = NoConn]
        /\ UNCHANGED <<link, gone, todo, closed, active, mine, pooled, batch, loaned, named>>
    OBVIOUS
  <1>5. \/ entries' = entries /\ inUse' = inUse
        \/ entries' = entries \ {c} /\ inUse' = inUse \ {c}
    OBVIOUS
  <1>6. pc[Cleaner] \notin SweepPc /\ \A d \in Conns : link[d] # "closing"
    BY Alone
  <1>7. TypeInv'
    BY <1>1, <1>3, <1>4, <1>5, ReleaseLemma DEF CallerPc
  <1>8. CallInv'
    BY <1>1, <1>4 DEF CallInv, Lending, Workers
  <1>9. SoleInv'
    BY <1>1, <1>4, ConnAssumption DEF SoleInv, CallInv, Claims, Lending, Workers
  <1>10. TrackInv'
    BY <1>1, <1>4 DEF TrackInv, CallInv
  <1>11. ListInv'
    BY <1>1, <1>2, <1>4, <1>5, ConnAssumption DEF ListInv, Asking
  <1>12. QueueInv'
    BY <1>1, QueueLeft DEF CriticalPc, Late
  <1>13. DialInv'
    <2>1. \A u \in Callers :
             /\ pc'[u] = "connect" => link'[conn'[u]] = "connecting"
             /\ pc'[u] = "rollback" => link'[conn'[u]] = "down"
      BY <1>1, <1>4 DEF DialInv
    <2>2. ASSUME NEW u \in Callers, call'[u] = "direct", mine'[u] # NoConn
          PROVE  /\ link'[mine'[u]] = "connecting" /\ mine'[u] \notin entries'
                 /\ \A v \in Callers : conn'[v] # mine'[u]
      <3>1. u # t /\ call[u] = "direct" /\ mine[u] # NoConn
        BY <1>1, <1>4, <2>2
      <3> QED BY <1>4, <1>5, <3>1 DEF DialInv
    <2>3. \A d \in Conns : link'[d] = "connecting" =>
             \E u \in Callers : \/ pc'[u] = "connect" /\ conn'[u] = d
                                \/ call'[u] = "direct" /\ mine'[u] = d
      BY <1>1, <1>4 DEF DialInv
    <2> QED BY <2>1, <2>2, <2>3 DEF DialInv
  <1>14. HangInv'
    BY <1>1, <1>4 DEF HangInv
  <1>15. EndInv'
    BY <1>4, <1>6 DEF EndInv
  <1>16. FoundInv' /\ SweepInv'
    BY <1>1, <1>3, <1>4, <1>5, <1>6, TaskAssumption DEF FoundInv, SweepInv, SweepPc
  <1>17. ShutInv'
    BY <1>1, <1>4, <1>5, ConnAssumption DEF ShutInv, Claims, Lending
  <1> QED BY <1>7, <1>8, <1>9, <1>10, <1>11, <1>12, <1>13, <1>14, <1>15, <1>16, <1>17

\* The session a call sets aside was unknown to the client.
LEMMA ConnectCallClient ==
    ASSUME ClientInv, NEW t \in Workers, Connect(t)
    PROVE  ClientInv'
  <1> USE DEF ClientInv, TypeInv, ClientTypeOK, Connect, GetCall
  <1>1. PICK c \in Spare : conn' = [conn EXCEPT ![t] = c]
    OBVIOUS
  <1>2. /\ t \in Callers /\ t \in Tasks /\ t # Closer /\ t # Cleaner /\ t # Manager
        /\ mine[t] = NoConn /\ pc[Closer] = "open"
    BY Places DEF Workers, ShutInv
  <1>3. /\ c \in Conns /\ c # NoConn /\ link[c] = "down" /\ c \notin entries /\ c \notin batch /\ c \notin pooled
        /\ \A u \in Callers : conn[u] # c /\ mine[u] # c
    BY <1>1, <1>2, ConnAssumption DEF Spare, Known
  <1>4. /\ pc' = [pc EXCEPT ![t] = "get"] /\ call' = [call EXCEPT ![t] = "connect"]
        /\ UNCHANGED <<link, entries, inUse, gone, todo, closed, active, mine, pooled, batch, loaned>>
    OBVIOUS
  <1>5. TypeInv'
    BY <1>1, <1>2, <1>3, <1>4, EnqueueLemma DEF CallerPc
  <1>6. CallInv'
    BY <1>1, <1>2, <1>3, <1>4 DEF CallInv, Lending, Workers
  <1>7. SoleInv'
    BY <1>1, <1>2, <1>3, <1>4 DEF SoleInv, Claims, Lending, Workers
  <1>8. TrackInv'
    BY <1>1, <1>2, <1>3, <1>4, ConnAssumption DEF TrackInv
  <1>9. ListInv'
    BY <1>1, <1>2, <1>3, <1>4 DEF ListInv
  <1>10. QueueInv'
    BY <1>2, QueueJoined DEF CriticalPc, Late
  <1>11. DialInv'
    BY <1>1, <1>2, <1>3, <1>4 DEF DialInv
  <1>12. HangInv'
    BY <1>2, <1>4 DEF HangInv
  <1>13. EndInv'
    BY <1>2, <1>4 DEF EndInv
  <1>14. FoundInv' /\ SweepInv'
    BY <1>2, <1>4 DEF FoundInv, SweepInv, SweepPc
  <1>15. ShutInv'
    BY <1>2, <1>4 DEF ShutInv
  <1> QED BY <1>5, <1>6, <1>7, <1>8, <1>9, <1>10, <1>11, <1>12, <1>13, <1>14, <1>15

\* Going past the pool starts with nothing,
LEMMA ConnectDirectClient ==
    ASSUME ClientInv, NEW t \in Workers, ConnectDirect(t)
    PROVE  ClientInv'
  <1> USE DEF ClientInv, TypeInv, ClientTypeOK, ConnectDirect, vars
  <1>1. /\ t \in Callers /\ t # Manager /\ mine[t] = NoConn /\ pc[t] = "idle"
    BY Places DEF Workers, CallInv
  <1>2. /\ call' = [call EXCEPT ![t] = "direct"]
        /\ UNCHANGED <<vars, closed, active, mine, pooled, batch, loaned>>
    OBVIOUS
  <1>3. TypeInv' /\ CallInv' /\ TrackInv'
    BY <1>1, <1>2, ConnAssumption DEF CallInv, TrackInv, Lending
  <1>4. SoleInv' /\ ListInv'
    BY <1>1, <1>2 DEF SoleInv, Claims, ListInv, Asking
  <1>5. QueueInv' /\ EndInv' /\ SweepInv'
    BY <1>2 DEF QueueInv, Queued, Owns, Asking, EndInv, SweepInv
  <1>6. DialInv' /\ HangInv' /\ FoundInv'
    BY <1>1, <1>2 DEF DialInv, HangInv, FoundInv
  <1>7. ShutInv'
    BY <1>1, <1>2 DEF ShutInv, Claims
  <1> QED BY <1>3, <1>4, <1>5, <1>6, <1>7

\* goes on with a session the client did not know,
LEMMA DirectDialClient ==
    ASSUME ClientInv, NEW t \in Callers, DirectDial(t)
    PROVE  ClientInv'
  <1> USE DEF ClientInv, TypeInv, ClientTypeOK, DirectDial
  <1>1. PICK c \in Spare \ Known : /\ link' = [link EXCEPT ![c] = "connecting"]
                                   /\ mine' = [mine EXCEPT ![t] = c]
    OBVIOUS
  <1>2. t \in Workers /\ t # Manager /\ pc[t] = "idle" /\ mine[t] = NoConn
    BY Places DEF CallInv
  <1>3. /\ c \in Conns /\ c # NoConn /\ link[c] = "down" /\ c \notin entries /\ c \notin gone
        /\ \A u \in Callers : conn[u] # c /\ mine[u] # c
    BY <1>1, ConnAssumption DEF Spare, Known
  <1>4. UNCHANGED <<pc, lockq, conn, entries, inUse, gone, todo, closed, active, call, pooled, batch, loaned>>
    OBVIOUS
  <1>5. TypeInv' /\ CallInv'
    BY <1>1, <1>2, <1>3 DEF CallInv
  <1>6. SoleInv'
    <2>1. ASSUME NEW u \in Workers, Claims(u)'
          PROVE  /\ conn'[u] \notin batch'
                 /\ \A v \in Callers \ {u} : conn'[v] # conn'[u] /\ mine'[v] # conn'[u]
      <3>1. Claims(u) /\ u \in Callers
        BY <1>4, <2>1 DEF Claims, Workers
      <3> QED BY <1>1, <1>3, <1>4, <3>1 DEF SoleInv
    <2>2. \A u, v \in Workers : u # v /\ mine'[u] = mine'[v] => mine'[u] = NoConn
      BY <1>1, <1>3 DEF SoleInv, Workers
    <2> QED BY <2>1, <2>2 DEF SoleInv
  <1>7. TrackInv'
    BY <1>1, <1>2, <1>4 DEF TrackInv
  <1>8. ListInv'
    BY <1>1, <1>2, <1>3, <1>4 DEF ListInv, Asking
  <1>9. QueueInv'
    BY <1>4 DEF QueueInv, Queued, Owns, Asking
  <1>10. DialInv'
    <2>1. \A u \in Callers :
             /\ pc'[u] = "connect" => link'[conn'[u]] = "connecting"
             /\ pc'[u] = "rollback" => link'[conn'[u]] = "down"
      BY <1>1, <1>3, <1>4 DEF DialInv
    <2>2. ASSUME NEW u \in Callers, call'[u] = "direct", mine'[u] # NoConn
          PROVE  /\ link'[mine'[u]] = "connecting" /\ mine'[u] \notin entries'
                 /\ \A v \in Callers : conn'[v] # mine'[u]
      BY <1>1, <1>3, <1>4, <2>2 DEF DialInv
    <2>3. \A d \in Conns : link'[d] = "connecting" =>
             \E u \in Callers : \/ pc'[u] = "connect" /\ conn'[u] = d
                                \/ call'[u] = "direct" /\ mine'[u] = d
      BY <1>1, <1>2, <1>3, <1>4, ConnAssumption DEF DialInv
    <2> QED BY <2>1, <2>2, <2>3 DEF DialInv
  <1>11. HangInv'
    BY <1>1, <1>2, <1>3, <1>4 DEF HangInv
  <1>12. EndInv' /\ SweepInv'
    BY <1>1, <1>3, <1>4 DEF EndInv, SweepInv
  <1>13. FoundInv'
    BY <1>1, <1>2, <1>3, <1>4, ConnAssumption DEF FoundInv
  <1>14. ShutInv'
    <2>1. \A u \in Workers : Claims(u)' => Claims(u) /\ link'[conn[u]] = link[conn[u]]
      BY <1>1, <1>3, <1>4 DEF Claims, Workers
    <2> QED BY <1>1, <1>3, <1>4, <2>1 DEF ShutInv
  <1> QED BY <1>5, <1>6, <1>7, <1>8, <1>9, <1>10, <1>11, <1>12, <1>13, <1>14

\* and ends with it connected,
LEMMA DirectOkClient ==
    ASSUME ClientInv, NEW t \in Callers, DirectOk(t)
    PROVE  ClientInv'
  <1> USE DEF ClientInv, TypeInv, ClientTypeOK, DirectOk
  <1> DEFINE c == mine[t]
  <1>1. t \in Workers /\ t # Manager /\ pc[t] = "idle" /\ c \in Conns /\ active[t] = NoConn
    BY Places DEF CallInv, TrackInv
  <1>2. /\ link[c] = "connecting" /\ c \notin entries /\ \A u \in Callers : conn[u] # c
        /\ \A u \in Workers \ {t} : mine[u] # c
    BY <1>1 DEF DialInv, SoleInv
  <1>3. /\ link' = [link EXCEPT ![c] = "open"] /\ call' = [call EXCEPT ![t] = "out"]
        /\ UNCHANGED <<pc, lockq, conn, entries, inUse, gone, todo, closed, mine, pooled, batch, loaned>>
    OBVIOUS
  <1>4. TypeInv' /\ CallInv'
    BY <1>1, <1>3 DEF CallInv, Register
  <1>5. SoleInv'
    BY <1>1, <1>3 DEF SoleInv, Claims
  <1>6. TrackInv'
    BY <1>1, <1>3 DEF TrackInv, Register
  <1>7. ListInv'
    BY <1>3 DEF ListInv, Asking
  <1>8. QueueInv'
    BY <1>3 DEF QueueInv, Queued, Owns, Asking
  <1>9. DialInv'
    BY <1>1, <1>2, <1>3, Places DEF DialInv, CallInv
  <1>10. HangInv'
    BY <1>2, <1>3 DEF HangInv
  <1>11. EndInv' /\ SweepInv'
    BY <1>2, <1>3 DEF EndInv, SweepInv
  <1>12. FoundInv'
    BY <1>1, <1>2, <1>3 DEF FoundInv
  <1>13. ShutInv'
    BY <1>1, <1>2, <1>3 DEF ShutInv, Claims, Workers
  <1> QED BY <1>4, <1>5, <1>6, <1>7, <1>8, <1>9, <1>10, <1>11, <1>12, <1>13

\* or given up.
LEMMA DirectFailClient ==
    ASSUME ClientInv, NEW t \in Callers, DirectFail(t)
    PROVE  ClientInv'
  <1> USE DEF ClientInv, TypeInv, ClientTypeOK, DirectFail
  <1> DEFINE c == mine[t]
  <1>1. t \in Workers /\ t # Manager /\ pc[t] = "idle" /\ conn[t] = NoConn /\ active[t] = NoConn
    BY Places DEF CallInv, TrackInv
  <1>2. c # NoConn =>
          /\ c \in Conns /\ link[c] = "connecting" /\ c \notin entries /\ \A u \in Callers : conn[u] # c
          /\ \A u \in Workers \ {t} : mine[u] # c
    BY <1>1 DEF DialInv, SoleInv
  <1>3. /\ mine' = [mine EXCEPT ![t] = NoConn] /\ call' = [call EXCEPT ![t] = "out"]
        /\ link' \in [Conns -> {"down", "connecting", "open", "closing", "hanging"}]
        /\ \A d \in Conns : d # c => link'[d] = link[d]
        /\ c # NoConn => link'[c] = "down"
        /\ UNCHANGED <<pc, lockq, conn, entries, inUse, gone, todo, closed, active, pooled, batch, loaned>>
    BY <1>2
  <1>4. TypeInv' /\ CallInv'
    BY <1>1, <1>3 DEF CallInv
  <1>5. SoleInv'
    BY <1>1, <1>3, ConnAssumption DEF SoleInv, Claims, CallInv, Lending
  <1>6. TrackInv'
    BY <1>1, <1>3 DEF TrackInv
  <1>7. ListInv'
    BY <1>1, <1>3, ConnAssumption DEF ListInv, Asking
  <1>8. QueueInv'
    BY <1>3 DEF QueueInv, Queued, Owns, Asking
  <1>9. DialInv'
    <2>1. \A u \in Callers :
             /\ pc'[u] = "connect" => link'[conn'[u]] = "connecting"
             /\ pc'[u] = "rollback" => link'[conn'[u]] = "down"
      BY <1>1, <1>2, <1>3, ConnAssumption DEF DialInv, CallInv
    <2>2. ASSUME NEW u \in Callers, call'[u] = "direct", mine'[u] # NoConn
          PROVE  /\ link'[mine'[u]] = "connecting" /\ mine'[u] \notin entries'
                 /\ \A v \in Callers : conn'[v] # mine'[u]
      <3>1. u # t /\ call[u] = "direct" /\ mine[u] # NoConn /\ u \in Workers /\ mine'[u] = mine[u]
        BY <1>1, <1>3, <2>2 DEF CallInv, Workers
      <3>2. mine[u] # c /\ mine[u] \in Conns
        BY <1>1, <1>2, <3>1
      <3> QED BY <1>3, <3>1, <3>2 DEF DialInv
    <2>3. \A d \in Conns : link'[d] = "connecting" =>
             \E u \in Callers : \/ pc'[u] = "connect" /\ conn'[u] = d
                                \/ call'[u] = "direct" /\ mine'[u] = d
      BY <1>1, <1>2, <1>3, ConnAssumption DEF DialInv
    <2> QED BY <2>1, <2>2, <2>3 DEF DialInv
  <1>10. HangInv'
    BY <1>1, <1>2, <1>3, ConnAssumption DEF HangInv, CallInv
  <1>11. EndInv' /\ SweepInv'
    BY <1>2, <1>3, ConnAssumption DEF EndInv, SweepInv
  <1>12. FoundInv'
    BY <1>1, <1>2, <1>3, ConnAssumption DEF FoundInv
  <1>13. ShutInv'
    <2>1. \A u \in Workers : Claims(u)' => Claims(u) /\ link'[conn[u]] = link[conn[u]]
      BY <1>2, <1>3, Claimed, ConnAssumption DEF Claims, Workers
    <2> QED BY <1>1, <1>2, <1>3, <2>1, ConnAssumption DEF ShutInv
  <1> QED BY <1>4, <1>5, <1>6, <1>7, <1>8, <1>9, <1>10, <1>11, <1>12, <1>13

\* A working session goes back to the list, where nobody else refers to it.
LEMMA RetIdleClient ==
    ASSUME ClientInv, NEW t \in Callers, Returning(t), RetIdle(t)
    PROVE  ClientInv'
  <1> USE DEF ClientInv, TypeInv, ClientTypeOK, RetIdle
  <1> DEFINE c == conn[t]
  <1>1. /\ t \in Tasks /\ t # Closer /\ t # Cleaner /\ mine[t] = NoConn /\ call[t] = "release"
        /\ (t # Manager => t \in Workers) /\ (t = Manager => closed)
        /\ pc[t] = "ret" /\ c \in Conns /\ c # NoConn /\ link[c] = "open" /\ c \in inUse /\ c \notin gone
    BY Places, ConnAssumption DEF Returning, CallInv, Connected, ListInv, ShutInv, FoundInv
  <1>2. /\ pc' = [pc EXCEPT ![t] = "idle"] /\ conn' = [conn EXCEPT ![t] = NoConn]
        /\ call' = [call EXCEPT ![t] = IF t = Manager THEN "closeall" ELSE "out"]
        /\ inUse' = inUse \ {c}
        /\ UNCHANGED <<link, entries, gone, todo, closed, active, mine, pooled, batch, loaned, named>>
    BY <1>1 DEF Returning, Released
  <1>3. c \notin batch /\ \A u \in Callers \ {t} : Claims(u) => conn[u] # c
    BY <1>1, Places DEF SoleInv, CallInv, Claims, Workers
  <1>4. ~closed \/ Asking' => \A u \in Callers : mine[u] # c
    <2>1. CASE t \in Workers
      BY <1>1, <2>1, ConnAssumption DEF SoleInv, Claims
    <2>2. CASE t = Manager
      <3>1. lockq[1] = Manager /\ Len(lockq) \in Nat /\ Len(lockq) >= 1
        BY <2>2, <1>1, MovedUp
      <3>2. \A u \in Callers : pc[u] = "get" => \E i \in 1 .. 0 : lockq[i] = u
        BY <3>1 DEF QueueInv
      <3> QED BY <1>1, <1>2, <2>2, <3>2 DEF Asking
    <2> QED BY <1>1, <2>1, <2>2
  <1>5. TypeInv'
    BY <1>1, <1>2, ReleaseLemma DEF CallerPc
  <1>6. CallInv'
    BY <1>1, <1>2, ConnAssumption DEF CallInv, Lending, Workers
  <1>7. SoleInv'
    <2>1. \A u \in Workers : Claims(u)' => u # t /\ Claims(u)
      BY <1>1, <1>2, ConnAssumption DEF Claims, Lending, Workers
    <2> QED BY <1>1, <1>2, <2>1, Claimed DEF SoleInv, Workers
  <1>8. TrackInv'
    BY <1>1, <1>2, Places DEF TrackInv
  <1>9. ListInv'
    <2>1. \A u \in Callers : pc'[u] = "get" => conn'[u] \notin entries'
      BY <1>1, <1>2 DEF ListInv
    <2>2. \A u \in Callers :
             pc'[u] \in {"connect", "finish", "rollback", "ret"} \/ conn'[u] \in pooled' =>
                conn'[u] \in inUse' \/ pc'[Closer] = "done"
      BY <1>1, <1>2, <1>3, Places, ConnAssumption DEF ListInv, Claims, Lending
    <2>3. \A d \in batch' : (d \in loaned' \/ d \in entries') => d \in inUse'
      BY <1>2, <1>3 DEF ListInv
    <2>4. ~closed' \/ Asking' => \A u \in Callers : mine'[u] \in entries' => mine'[u] \in inUse'
      BY <1>1, <1>2, <1>4 DEF ListInv, Asking
    <2> QED BY <2>1, <2>2, <2>3, <2>4 DEF ListInv
  <1>10. QueueInv'
    BY <1>1, <1>2, QueueLeft DEF CriticalPc, Late
  <1>11. DialInv'
    BY <1>1, <1>2, DialKept
  <1>12. HangInv'
    BY <1>1, <1>2 DEF HangInv
  <1>13. EndInv'
    BY Alone, <1>2 DEF EndInv
  <1>14. FoundInv' /\ SweepInv'
    BY <1>1, <1>2 DEF FoundInv, SweepInv, SweepPc
  <1>15. ShutInv'
    BY <1>1, <1>2 DEF ShutInv
  <1> QED BY <1>5, <1>6, <1>7, <1>8, <1>9, <1>10, <1>11, <1>12, <1>13, <1>14, <1>15

\* A dead session leaves the list; if it is being ended, a task of the client
\* ends it.
LEMMA RetDeadClient ==
    ASSUME ClientInv, NEW t \in Callers, Returning(t), RetDead(t)
    PROVE  ClientInv'
  <1> USE DEF ClientInv, TypeInv, ClientTypeOK, RetDead
  <1> DEFINE c == conn[t]
  <1>1. /\ t \in Tasks /\ t # Closer /\ t # Cleaner /\ mine[t] = NoConn /\ call[t] = "release"
        /\ (t # Manager => t \in Workers)
        /\ pc[t] = "ret" /\ c \in Conns /\ c # NoConn /\ c \in inUse /\ c \notin gone /\ pc[Closer] # "done"
    BY Places, ConnAssumption DEF Returning, CallInv, ListInv, ShutInv
  <1>2. /\ pc' = [pc EXCEPT ![t] = "idle"] /\ conn' = [conn EXCEPT ![t] = NoConn]
        /\ call' = [call EXCEPT ![t] = IF t = Manager THEN "closeall" ELSE "out"]
        /\ inUse' = inUse \ {c} /\ entries' = entries \ {c}
        /\ UNCHANGED <<link, gone, todo, closed, active, mine, pooled, batch, loaned, named>>
    BY <1>1 DEF Returning, Released
  <1>3. c \notin batch /\ \A u \in Callers \ {t} : Claims(u) => conn[u] # c
    BY <1>1, Places DEF SoleInv, CallInv, Claims, Workers
  <1>4. link[c] # "down" => \E u \in Callers : mine[u] = c
    <2>1. link[c] # "connecting"
      BY <1>1, <1>3, Places DEF DialInv, Claims, Lending
    <2>2. link[c] # "closing" /\ link[c] # "open"
      BY Alone, <1>1 DEF Connected
    <2>3. link[c] = "hanging" => \E u \in Callers : mine[u] = c
      BY <1>1 DEF HangInv
    <2> QED BY <1>1, <2>1, <2>2, <2>3
  <1>5. TypeInv'
    BY <1>1, <1>2, ReleaseLemma DEF CallerPc
  <1>6. CallInv'
    BY <1>1, <1>2, ConnAssumption DEF CallInv, Lending, Workers
  <1>7. SoleInv'
    <2>1. \A u \in Workers : Claims(u)' => u # t /\ Claims(u)
      BY <1>1, <1>2, ConnAssumption DEF Claims, Lending, Workers
    <2> QED BY <1>1, <1>2, <2>1, Claimed DEF SoleInv, Workers
  <1>8. TrackInv'
    BY <1>1, <1>2, Places DEF TrackInv
  <1>9. ListInv'
    <2>1. \A u \in Callers : pc'[u] = "get" => conn'[u] \notin entries'
      BY <1>1, <1>2 DEF ListInv
    <2>2. \A u \in Callers :
             pc'[u] \in {"connect", "finish", "rollback", "ret"} \/ conn'[u] \in pooled' =>
                conn'[u] \in inUse' \/ pc'[Closer] = "done"
      BY <1>1, <1>2, <1>3, Places, ConnAssumption DEF ListInv, Claims, Lending
    <2>3. \A d \in batch' : (d \in loaned' \/ d \in entries') => d \in inUse'
      BY <1>2, <1>3 DEF ListInv
    <2>4. ~closed' \/ Asking' => \A u \in Callers : mine'[u] \in entries' => mine'[u] \in inUse'
      BY <1>1, <1>2 DEF ListInv, Asking
    <2> QED BY <2>1, <2>2, <2>3, <2>4 DEF ListInv
  <1>10. QueueInv'
    BY <1>1, <1>2, QueueLeft DEF CriticalPc, Late
  <1>11. DialInv'
    BY <1>1, <1>2, DialKept
  <1>12. HangInv'
    BY <1>1, <1>2 DEF HangInv
  <1>13. EndInv'
    BY Alone, <1>2 DEF EndInv
  <1>14. FoundInv' /\ SweepInv'
    BY Alone, <1>1, <1>2, <1>4 DEF FoundInv, SweepInv, SweepPc
  <1>15. ShutInv'
    BY <1>1, <1>2 DEF ShutInv
  <1> QED BY <1>5, <1>6, <1>7, <1>8, <1>9, <1>10, <1>11, <1>12, <1>13, <1>14, <1>15

\* A session the pool does not list is returned only after close(), which
\* has closed it.
LEMMA RetUnknownClient ==
    ASSUME ClientInv, NEW t \in Callers, Returning(t), RetUnknown(t) \/ RetClosed(t)
    PROVE  ClientInv'
  <1> USE DEF ClientInv, TypeInv, ClientTypeOK
  <1> DEFINE c == conn[t]
  <1>1. /\ t \in Tasks /\ t # Closer /\ t # Cleaner /\ mine[t] = NoConn /\ call[t] = "release"
        /\ pc[t] = "ret" /\ RetUnknown(t)
    BY Places DEF Returning, CallInv, RetClosed
  <1> USE DEF RetUnknown
  <1>2. pc[Closer] = "done" /\ t \in Workers /\ t # Manager /\ ~Connected(c)
    BY <1>1, Places DEF ListInv, ShutInv, Claims, Connected
  <1>3. /\ pc' = [pc EXCEPT ![t] = "idle"] /\ conn' = [conn EXCEPT ![t] = NoConn]
        /\ call' = [call EXCEPT ![t] = "out"] /\ Owns(t) /\ Release
        /\ UNCHANGED <<link, entries, inUse, gone, todo, closed, active, mine, pooled, batch, loaned, named>>
    BY <1>1, <1>2 DEF Returning, Released
  <1>4. TypeInv'
    BY <1>1, <1>3, ReleaseLemma DEF CallerPc
  <1>5. CallInv'
    BY <1>1, <1>2, <1>3, ConnAssumption DEF CallInv, Lending, Workers
  <1>6. SoleInv'
    <2>1. \A u \in Workers : Claims(u)' => u # t /\ Claims(u)
      BY <1>1, <1>3, ConnAssumption DEF Claims, Lending, Workers
    <2> QED BY <1>1, <1>3, <2>1, Claimed DEF SoleInv, Workers
  <1>7. TrackInv'
    BY <1>1, <1>3 DEF TrackInv
  <1>8. ListInv'
    BY <1>1, <1>2, <1>3, ConnAssumption DEF ListInv, Asking
  <1>9. QueueInv'
    BY <1>1, <1>3, QueueLeft DEF CriticalPc, Late
  <1>10. DialInv'
    BY <1>1, <1>3, DialKept
  <1>11. HangInv'
    BY <1>1, <1>3 DEF HangInv
  <1>12. EndInv' /\ FoundInv' /\ SweepInv'
    BY <1>1, <1>3 DEF EndInv, FoundInv, SweepInv, SweepPc
  <1>13. ShutInv'
    BY <1>1, <1>2, <1>3, ConnAssumption DEF ShutInv, Claims, Lending
  <1> QED BY <1>4, <1>5, <1>6, <1>7, <1>8, <1>9, <1>10, <1>11, <1>12, <1>13

\* Ending a connection that works begins,
LEMMA HangUpClient ==
    ASSUME ClientInv, NEW t \in Callers, HangUp(t)
    PROVE  ClientInv'
  <1> USE DEF ClientInv, TypeInv, ClientTypeOK, HangUp
  <1> DEFINE c == mine[t]
  <1>1. c # NoConn /\ c \in Conns /\ link[c] = "open" /\ c \notin gone
    BY DEF CallInv, Connected, FoundInv
  <1>2. \A u \in Workers : active[u] # NoConn => u # t
    BY DEF TrackInv
  <1>3. /\ link' = [link EXCEPT ![c] = "hanging"] /\ call' = [call EXCEPT ![t] = "hungup"]
        /\ UNCHANGED <<pc, lockq, conn, entries, inUse, gone, todo, closed, active, mine, pooled, batch, loaned>>
    OBVIOUS
  <1>4. TypeInv' /\ CallInv'
    BY <1>1, <1>3, Places DEF CallInv
  <1>5. SoleInv'
    BY <1>3 DEF SoleInv, Claims
  <1>6. TrackInv'
    BY <1>2, <1>3 DEF TrackInv
  <1>7. ListInv'
    BY <1>3 DEF ListInv, Asking
  <1>8. QueueInv'
    BY <1>3 DEF QueueInv, Queued, Owns, Asking
  <1>9. DialInv'
    BY <1>1, <1>3 DEF DialInv
  <1>10. HangInv'
    BY <1>1, <1>3 DEF HangInv
  <1>11. EndInv' /\ SweepInv' /\ FoundInv'
    BY <1>1, <1>3 DEF EndInv, SweepInv, FoundInv
  <1>12. ShutInv'
    BY <1>1, <1>3 DEF ShutInv, Claims, Workers
  <1> QED BY <1>4, <1>5, <1>6, <1>7, <1>8, <1>9, <1>10, <1>11, <1>12

\* and ends.
LEMMA HungUpClient ==
    ASSUME ClientInv, NEW t \in Callers, HungUp(t)
    PROVE  ClientInv'
  <1> USE DEF ClientInv, TypeInv, ClientTypeOK, HungUp
  <1> DEFINE c == mine[t]
  <1>1. /\ c # NoConn /\ c \in Conns /\ link[c] \in {"hanging", "down"} /\ pc[t] = "idle"
        /\ call[t] \in {"hangup", "hungup"}
        /\ call[t] = "hungup" => link[c] = "hanging"
    BY DEF CallInv, HangInv
  <1>2. /\ link' = [link EXCEPT ![c] = "down"] /\ mine' = [mine EXCEPT ![t] = NoConn]
        /\ call' = [call EXCEPT ![t] = IF t = Manager THEN "closeall" ELSE "out"]
        /\ UNCHANGED <<pc, lockq, conn, entries, inUse, gone, todo, closed, active, pooled, batch, loaned>>
    BY DEF Released
  <1>3. t \in Workers => active[t] = NoConn
    BY <1>1 DEF TrackInv
  <1>4. \A u \in Callers \ {t} : call[u] = "hungup" => mine[u] # c
    BY <1>1 DEF HangInv
  <1>5. TypeInv' /\ CallInv'
    BY <1>1, <1>2 DEF CallInv, Workers
  <1>6. SoleInv'
    <2>1. \A u \in Workers : Claims(u)' => Claims(u) /\ u \in Callers
      BY <1>1, <1>2 DEF Claims, Workers
    <2> QED BY <1>2, <2>1, Claimed DEF SoleInv, Workers
  <1>7. TrackInv'
    BY <1>1, <1>2, <1>3 DEF TrackInv
  <1>8. ListInv'
    BY <1>2, ConnAssumption DEF ListInv, Asking
  <1>9. QueueInv'
    BY <1>2 DEF QueueInv, Queued, Owns, Asking
  <1>10. DialInv'
    <2>1. \A u \in Callers :
             /\ pc'[u] = "connect" => link'[conn'[u]] = "connecting"
             /\ pc'[u] = "rollback" => link'[conn'[u]] = "down"
      BY <1>1, <1>2, Claimed DEF DialInv, Claims, Lending
    <2>2. ASSUME NEW u \in Callers, call'[u] = "direct", mine'[u] # NoConn
          PROVE  /\ link'[mine'[u]] = "connecting" /\ mine'[u] \notin entries'
                 /\ \A v \in Callers : conn'[v] # mine'[u]
      <3>1. u # t /\ call[u] = "direct" /\ mine'[u] = mine[u]
        BY <1>2, <2>2
      <3> QED BY <1>1, <1>2, <2>2, <3>1 DEF DialInv
    <2>3. \A d \in Conns : link'[d] = "connecting" =>
             \E u \in Callers : \/ pc'[u] = "connect" /\ conn'[u] = d
                                \/ call'[u] = "direct" /\ mine'[u] = d
      BY <1>1, <1>2, ConnAssumption DEF DialInv
    <2> QED BY <2>1, <2>2, <2>3 DEF DialInv
  <1>11. HangInv'
    BY <1>1, <1>2, <1>4 DEF HangInv
  <1>12. EndInv' /\ SweepInv'
    BY <1>1, <1>2 DEF EndInv, SweepInv
  <1>13. FoundInv'
    BY <1>1, <1>2 DEF FoundInv
  <1>14. ShutInv'
    BY <1>1, <1>2, Claimed DEF ShutInv, Claims, Workers
  <1> QED BY <1>5, <1>6, <1>7, <1>8, <1>9, <1>10, <1>11, <1>12, <1>13, <1>14

\* A worker that closes its session, by name or as an object, forgets it: it
\* gives back what is lent to it,
LEMMA PooledClient ==
    ASSUME ClientInv, NEW t \in Workers, call[t] = "out", mine[t] \in pooled,
           Discard(t, mine[t], TRUE), active' = [active EXCEPT ![t] = NoConn],
           pooled' = pooled \ {mine[t]},
           UNCHANGED <<link, pool, current, sweep, needed, closed, named, batch, loaned>>
    PROVE  ClientInv'
  <1> USE DEF ClientInv, TypeInv, ClientTypeOK, Discard
  <1> DEFINE c == mine[t]
  <1>1. /\ t \in Callers /\ t \in Tasks /\ t # Closer /\ t # Cleaner /\ t # Manager
        /\ c \in Conns /\ c # NoConn
    BY Places, ConnAssumption DEF Workers
  <1>2. pc[t] = "using" /\ conn[t] = c
    <2>1. PICK w \in Workers : pc[w] = "using" /\ conn[w] = c
      BY DEF TrackInv
    <2>2. w \in Callers /\ mine[w] = c
      BY <2>1, Places DEF Workers
    <2> QED BY <1>1, <2>1, <2>2 DEF SoleInv
  <1>3. /\ c \notin batch /\ \A u \in Callers \ {t} : conn[u] # c /\ mine[u] # c
        /\ c \in inUse \/ pc[Closer] = "done"
        /\ pc[Closer] = "done" => link[c] = "down"
    BY <1>1, <1>2 DEF SoleInv, Claims, ListInv, ShutInv
  <1>4. /\ pc' = [pc EXCEPT ![t] = "ret"] /\ call' = [call EXCEPT ![t] = "release"]
        /\ conn' = [conn EXCEPT ![t] = c] /\ mine' = [mine EXCEPT ![t] = NoConn] /\ Enqueue(t)
        /\ UNCHANGED <<link, entries, inUse, gone, todo, closed, batch, loaned, named>>
    OBVIOUS
  <1>5. TypeInv'
    BY <1>1, <1>4, EnqueueLemma DEF CallerPc
  <1>6. CallInv'
    BY <1>1, <1>2, <1>4 DEF CallInv, Lending, Workers
  <1>7. SoleInv'
    <2>1. \A u \in Workers : Claims(u)' => u \in Callers /\ Claims(u)
      BY <1>1, <1>2, <1>4 DEF Claims, Workers
    <2>2. \A u \in Callers : conn'[u] = conn[u] /\ mine'[u] \in {mine[u], NoConn}
      BY <1>2, <1>4
    <2> QED BY <1>1, <1>4, <2>1, <2>2, Claimed DEF SoleInv, Workers
  <1>8. TrackInv'
    <2>1. \A d \in pooled' : \E u \in Workers : pc'[u] = "using" /\ conn'[u] = d
      BY <1>1, <1>2, <1>4 DEF TrackInv, Workers
    <2>2. \A u \in Workers : pc'[u] = "using" => u # t /\ pc[u] = "using" /\ conn'[u] # c
      BY <1>1, <1>3, <1>4 DEF Workers
    <2>3. ~closed' => \A u \in Workers : pc'[u] = "using" => conn'[u] \in pooled'
      BY <1>4, <2>2 DEF TrackInv, Workers
    <2>4. \A n \in Workers : active'[n] # NoConn => mine'[n] = active'[n] /\ call'[n] = "out"
      BY <1>4 DEF TrackInv
    <2> QED BY <2>1, <2>3, <2>4 DEF TrackInv
  <1>9. ListInv'
    BY <1>1, <1>2, <1>3, <1>4, ConnAssumption DEF ListInv, Asking
  <1>10. QueueInv'
    BY <1>1, <1>4, QueueJoined DEF CriticalPc, Late
  <1>11. DialInv'
    BY <1>1, <1>2, <1>4, DialKept
  <1>12. HangInv'
    BY <1>1, <1>4 DEF HangInv
  <1>13. EndInv' /\ SweepInv'
    BY <1>1, <1>4 DEF EndInv, SweepInv, SweepPc
  <1>14. FoundInv'
    BY <1>1, <1>3, <1>4 DEF FoundInv
  <1>15. ShutInv'
    BY <1>1, <1>2, <1>3, <1>4 DEF ShutInv, Claims, Lending, Workers
  <1> QED BY <1>5, <1>6, <1>7, <1>8, <1>9, <1>10, <1>11, <1>12, <1>13, <1>14, <1>15

\* and ends what is not.
LEMMA DirectClient ==
    ASSUME ClientInv, NEW t \in Workers, call[t] = "out", mine[t] # NoConn, mine[t] \notin pooled,
           Discard(t, mine[t], FALSE), active' = [active EXCEPT ![t] = NoConn],
           pooled' = pooled \ {mine[t]},
           UNCHANGED <<link, pool, current, sweep, needed, closed, named, batch, loaned>>
    PROVE  ClientInv'
  <1> USE DEF ClientInv, TypeInv, ClientTypeOK, Discard
  <1>1. /\ t \in Callers /\ t \in Tasks /\ t # Closer /\ t # Cleaner /\ t # Manager
        /\ pc[t] = "idle" \/ (pc[t] = "using" /\ conn[t] = mine[t])
    BY Places DEF Workers, CallInv
  <1>2. /\ pc' = [pc EXCEPT ![t] = "idle"] /\ call' = [call EXCEPT ![t] = "hangup"]
        /\ conn' = [conn EXCEPT ![t] = NoConn] /\ mine' = mine /\ pooled' = pooled
        /\ UNCHANGED <<lockq, link, entries, inUse, gone, todo, closed, batch, loaned, named>>
    OBVIOUS
  <1>3. TypeInv'
    BY <1>1, <1>2 DEF CallerPc
  <1>4. CallInv'
    BY <1>1, <1>2 DEF CallInv, Lending, Workers
  <1>5. SoleInv'
    <2>1. \A u \in Workers : Claims(u)' => u # t /\ u \in Callers /\ Claims(u)
      BY <1>1, <1>2, ConnAssumption DEF Claims, Lending, Workers
    <2>2. \A u \in Workers \ {t} : conn'[u] = conn[u]
      BY <1>2 DEF Workers
    <2> QED BY <1>1, <1>2, <2>1, <2>2, Claimed DEF SoleInv, Workers
  <1>6. TrackInv'
    BY <1>1, <1>2 DEF TrackInv
  <1>7. ListInv'
    BY <1>1, <1>2, ConnAssumption DEF ListInv, Asking
  <1>8. QueueInv'
    BY <1>1, <1>2, QueueStays DEF CriticalPc, Late
  <1>9. DialInv'
    BY <1>1, <1>2, DialKept
  <1>10. HangInv'
    BY <1>1, <1>2 DEF HangInv
  <1>11. EndInv' /\ SweepInv' /\ FoundInv'
    BY <1>1, <1>2 DEF EndInv, SweepInv, SweepPc, FoundInv
  <1>12. ShutInv'
    <2>1. \A u \in Workers : Claims(u)' => u # t /\ Claims(u) /\ conn'[u] = conn[u]
      BY <1>1, <1>2, ConnAssumption DEF Claims, Lending, Workers
    <2> QED BY <1>1, <1>2, <2>1 DEF ShutInv
  <1> QED BY <1>3, <1>4, <1>5, <1>6, <1>7, <1>8, <1>9, <1>10, <1>11, <1>12

\* The name that goes is the worker's own.
LEMMA CloseSessionClient ==
    ASSUME ClientInv, NEW t \in Workers, CloseSession(t) \/ CloseNamed(t)
    PROVE  ClientInv'
  <1>1. call[t] = "out" /\ mine[t] # NoConn /\ (CloseNamed(t) => active[t] = mine[t])
    BY DEF CloseSession, CloseNamed, ClientInv, TrackInv
  <1>2. /\ Discard(t, mine[t], mine[t] \in pooled) /\ pooled' = pooled \ {mine[t]}
        /\ UNCHANGED <<link, pool, current, sweep, needed, closed, named, batch, loaned>>
    BY <1>1 DEF CloseSession, CloseNamed
  <1>3. active' = [active EXCEPT ![t] = NoConn]
    <2>1. active \in [Workers -> Conns \cup {NoConn}]
      BY DEF ClientInv, TypeInv, ClientTypeOK
    <2>2. CASE CloseNamed(t)
      BY <2>2 DEF CloseNamed
    <2>3. CASE CloseSession(t)
      <3>1. \A n \in Workers : active[n] = mine[t] => n = t
        BY <1>1 DEF ClientInv, TrackInv, SoleInv
      <3>2. active[t] = NoConn \/ active[t] = mine[t]
        BY DEF ClientInv, TrackInv
      <3>3. CASE active[t] = mine[t]
        BY <2>3, <3>1, <3>3 DEF CloseSession, Unname
      <3>4. CASE active[t] # mine[t]
        <4>1. active' = active
          BY <2>3, <3>1, <3>4 DEF CloseSession, Unname
        <4> QED BY <2>1, <3>2, <3>4, <4>1
      <3> QED BY <3>3, <3>4
    <2> QED BY <2>2, <2>3
  <1>4. CASE mine[t] \in pooled
    <2>1. Discard(t, mine[t], TRUE)
      BY <1>2, <1>4 DEF Discard
    <2> QED BY <1>1, <1>2, <1>3, <1>4, <2>1, PooledClient
  <1>5. CASE mine[t] \notin pooled
    <2>1. Discard(t, mine[t], FALSE)
      BY <1>2, <1>5 DEF Discard
    <2> QED BY <1>1, <1>2, <1>3, <1>5, <2>1, DirectClient
  <1> QED BY <1>4, <1>5

\* close_all takes the registry, which is up to date,
LEMMA CloseAllClient ==
    ASSUME ClientInv, CloseAll
    PROVE  ClientInv'
  <1> USE DEF ClientInv, TypeInv, ClientTypeOK, CloseAll, vars
  <1>1. /\ Manager \in Callers /\ Manager \notin Workers /\ pc[Closer] = "open"
        /\ pc[Manager] = "idle" /\ conn[Manager] = NoConn /\ mine[Manager] = NoConn
    BY ClientAssumption DEF Workers, ShutInv, CallInv
  <1>2. /\ call' = [call EXCEPT ![Manager] = "closeall"] /\ ~closed /\ closed' /\ pooled' = {}
        /\ UNCHANGED <<vars, mine, named>>
    OBVIOUS
  <1>3. \A c \in batch' : c \in Conns /\ \E n \in Workers : mine[n] = c /\ call[n] = "out"
    BY DEF TrackInv
  <1>4. TypeInv'
    BY <1>1, <1>2
  <1>5. CallInv'
    BY <1>1, <1>2, <1>3, ConnAssumption DEF CallInv, Workers
  <1>6. SoleInv'
    <2>1. ASSUME NEW t \in Workers, Claims(t)'
          PROVE  Claims(t) /\ conn[t] \notin batch'
      <3>1. t \in Callers /\ (pc[t] \in Lending \/ call[t] = "release")
        BY <1>1, <1>2, <2>1 DEF Claims, Workers
      <3>2. call[t] # "out"
        BY <3>1, Places
      <3> QED BY <1>3, <3>1, <3>2 DEF Claims, SoleInv, Workers
    <2> QED BY <1>2, <2>1 DEF SoleInv
  <1>7. TrackInv'
    BY <1>2, ConnAssumption DEF TrackInv
  <1>8. ListInv'
    <2>1. ASSUME NEW c \in batch', c \in loaned' \/ c \in entries'
          PROVE  c \in inUse'
      <3>1. PICK n \in Workers : mine[n] = c
        BY <1>3
      <3>2. CASE c \in pooled
        <4>1. PICK w \in Workers : conn[w] = c
          BY <3>2 DEF TrackInv
        <4> QED BY <1>1, <1>2, <3>2, <4>1 DEF ListInv, Workers
      <3>3. CASE c \in entries
        BY <1>2, <3>1, <3>3 DEF ListInv, Workers
      <3> QED BY <1>2, <2>1, <3>2, <3>3
    <2> QED BY <1>2, <2>1 DEF ListInv, Asking
  <1>9. QueueInv'
    BY <1>2, QueueStays
  <1>10. DialInv'
    BY <1>1, <1>2, DialKept
  <1>11. HangInv' /\ EndInv' /\ SweepInv' /\ FoundInv'
    BY <1>1, <1>2 DEF HangInv, EndInv, SweepInv, FoundInv
  <1>12. ShutInv'
    BY <1>1, <1>2 DEF ShutInv
  <1> QED BY <1>4, <1>5, <1>6, <1>7, <1>8, <1>9, <1>10, <1>11, <1>12

\* gives back each session the pool has lent, still in use,
LEMMA CloseAllReturnClient ==
    ASSUME ClientInv, NEW c \in Conns, CloseAllRelease(c), c \in loaned
    PROVE  ClientInv'
  <1> USE DEF ClientInv, TypeInv, ClientTypeOK, CloseAllRelease, Discard
  <1>1. /\ Manager \in Callers /\ Manager \notin Workers /\ Manager \in Tasks
        /\ Manager # Closer /\ Manager # Cleaner /\ closed /\ pc[Closer] = "open"
        /\ pc[Manager] = "idle" /\ mine[Manager] = NoConn /\ c \in inUse /\ c # NoConn
    BY ClientAssumption, Places, ConnAssumption DEF Workers, ShutInv, CallInv, ListInv
  <1>2. /\ pc' = [pc EXCEPT ![Manager] = "ret"] /\ call' = [call EXCEPT ![Manager] = "release"]
        /\ conn' = [conn EXCEPT ![Manager] = c] /\ mine' = mine /\ Enqueue(Manager)
        /\ batch' = batch \ {c}
        /\ UNCHANGED <<link, entries, inUse, gone, todo, closed, active, pooled, loaned, named>>
    BY <1>1
  <1>3. TypeInv'
    BY <1>1, <1>2, EnqueueLemma DEF CallerPc
  <1>4. CallInv'
    BY <1>1, <1>2 DEF CallInv, Lending, Workers
  <1>5. SoleInv'
    <2>1. \A u \in Workers : Claims(u)' => Claims(u) /\ u \in Callers /\ conn'[u] = conn[u]
      BY <1>1, <1>2 DEF Claims, Workers
    <2> QED BY <1>1, <1>2, <2>1 DEF SoleInv, Workers
  <1>6. TrackInv'
    BY <1>1, <1>2 DEF TrackInv
  <1>7. ListInv'
    BY <1>1, <1>2 DEF ListInv, Asking
  <1>8. QueueInv'
    BY <1>1, <1>2, QueueJoined DEF CriticalPc, Late
  <1>9. DialInv'
    BY <1>1, <1>2, DialKept
  <1>10. HangInv'
    BY <1>1, <1>2 DEF HangInv
  <1>11. EndInv' /\ SweepInv' /\ FoundInv'
    BY <1>1, <1>2 DEF EndInv, SweepInv, SweepPc, FoundInv
  <1>12. ShutInv'
    BY <1>1, <1>2 DEF ShutInv
  <1> QED BY <1>3, <1>4, <1>5, <1>6, <1>7, <1>8, <1>9, <1>10, <1>11, <1>12

\* ends the others itself,
LEMMA CloseAllHangUpClient ==
    ASSUME ClientInv, NEW c \in Conns, CloseAllRelease(c), c \notin loaned
    PROVE  ClientInv'
  <1> USE DEF ClientInv, TypeInv, ClientTypeOK, CloseAllRelease, Discard
  <1>1. /\ Manager \in Callers /\ Manager \notin Workers /\ Manager \in Tasks
        /\ Manager # Closer /\ Manager # Cleaner /\ closed /\ pc[Closer] = "open"
        /\ pc[Manager] = "idle" /\ mine[Manager] = NoConn /\ conn[Manager] = NoConn /\ c # NoConn
    BY ClientAssumption, Places, ConnAssumption DEF Workers, ShutInv, CallInv
  <1>2. /\ pc' = [pc EXCEPT ![Manager] = "idle"] /\ call' = [call EXCEPT ![Manager] = "hangup"]
        /\ conn' = [conn EXCEPT ![Manager] = NoConn] /\ mine' = [mine EXCEPT ![Manager] = c]
        /\ batch' = batch \ {c}
        /\ UNCHANGED <<lockq, link, entries, inUse, gone, todo, closed, active, pooled, loaned, named>>
    OBVIOUS
  <1>3. TypeInv'
    BY <1>1, <1>2
  <1>4. CallInv'
    BY <1>1, <1>2, ConnAssumption DEF CallInv, Lending, Workers
  <1>5. SoleInv'
    <2>1. \A u \in Workers : Claims(u)' => Claims(u) /\ u \in Callers
      BY <1>1, <1>2 DEF Claims, Workers
    <2> QED BY <1>1, <1>2, <2>1 DEF SoleInv, Workers
  <1>6. TrackInv'
    BY <1>1, <1>2 DEF TrackInv
  <1>7. ListInv'
    BY <1>1, <1>2 DEF ListInv, Asking
  <1>8. QueueInv'
    BY <1>1, <1>2, QueueStays DEF CriticalPc, Late
  <1>9. DialInv'
    BY <1>1, <1>2, DialKept
  <1>10. HangInv'
    BY <1>1, <1>2 DEF HangInv
  <1>11. EndInv' /\ SweepInv' /\ FoundInv'
    BY <1>1, <1>2, ConnAssumption DEF EndInv, SweepInv, SweepPc, FoundInv
  <1>12. ShutInv'
    BY <1>1, <1>2 DEF ShutInv
  <1> QED BY <1>3, <1>4, <1>5, <1>6, <1>7, <1>8, <1>9, <1>10, <1>11, <1>12

\* and closes the pool: the cleanup task leaves the queue, and what it was
\* ending is ended.
LEMMA CloseAllPoolClient ==
    ASSUME ClientInv, CloseAllPool
    PROVE  ClientInv'
  <1> USE DEF ClientInv, TypeInv, ClientTypeOK, CloseAllPool, CloseCall
  <1>1. /\ Manager \in Callers /\ Manager \notin Workers /\ closed /\ Cleaner \in Tasks
        /\ \A t \in Callers : t # Closer /\ t # Cleaner
        /\ pc[Manager] = "idle" /\ conn[Manager] = NoConn /\ mine[Manager] = NoConn
    BY ClientAssumption, Places DEF Workers, CallInv, Tasks
  <1>2. /\ pc'[Closer] = "stopping" /\ pc'[Cleaner] = "off"
        /\ \A t \in Callers : pc'[t] = pc[t]
        /\ \A t \in Callers \ {Manager} : call'[t] = call[t]
        /\ call[Manager] = "closeall" /\ call'[Manager] = "shutdown"
        /\ pc[Closer] = "open" /\ batch = {} /\ todo' = {} /\ loaned' = {} /\ Leave(Cleaner)
        /\ UNCHANGED <<conn, entries, inUse, gone, closed, active, mine, pooled, named, batch>>
    BY <1>1, TaskAssumption DEF Tasks
  <1>3. \A c \in Conns : /\ link[c] # "closing" => link'[c] = link[c]
                         /\ link[c] = "closing" => link'[c] = "down"
    BY DEF EndInv
  <1>4. TypeInv'
    BY <1>1, <1>2, LeaveLemma DEF CleanerPc, CloserPc, Tasks
  <1> HIDE DEF CloseAllPool, CloseCall
  <1>5. CallInv'
    <2>1. ASSUME NEW t \in Callers
          PROVE  /\ call'[t] = "connect" => pc'[t] \in Lending /\ mine'[t] = NoConn
                 /\ call'[t] = "release" => pc'[t] = "ret" /\ mine'[t] = NoConn
                 /\ call'[t] = "out" => pc'[t] = "idle" \/ (pc'[t] = "using" /\ mine'[t] = conn'[t])
                 /\ call'[t] \notin {"connect", "release", "out"} => pc'[t] = "idle"
                 /\ call'[t] \in {"hangup", "hungup"} => mine'[t] # NoConn
                 /\ conn'[t] = NoConn <=> pc'[t] = "idle"
      BY <1>1, <1>2 DEF CallInv
    <2> QED BY <1>1, <1>2, <2>1 DEF CallInv, Workers
  <1>6. SoleInv'
    <2>1. \A u \in Workers : Claims(u)' => Claims(u)
      BY <1>1, <1>2 DEF Claims, Workers
    <2> QED BY <1>2, <2>1 DEF SoleInv
  <1>7. TrackInv'
    BY <1>1, <1>2 DEF TrackInv, Workers
  <1>8. ListInv'
    BY <1>1, <1>2 DEF ListInv, Asking
  <1>9. QueueInv'
    <2>1. \A t \in Tasks : pc'[t] \in CriticalPc => t # Cleaner /\ Owns(t)'
      BY <1>1, <1>2, LeaveLemma DEF QueueInv, CriticalPc, Tasks
    <2>2. \A t \in Callers : pc'[t] = "get" => Queued(t)'
      BY <1>1, <1>2, QueuedLemma, TaskAssumption DEF QueueInv, Tasks
    <2>3. ASSUME NEW k \in 1 .. Len(lockq'), lockq'[k] \in {Manager, Closer},
                 NEW t \in Callers, pc'[t] = "get"
          PROVE  \E i \in 1 .. k - 1 : lockq'[i] = t
      <3>1. pc[t] = "get" /\ t # Cleaner
        BY <1>1, <1>2, <2>3
      <3>2. CASE ~Queued(Cleaner)
        BY <1>2, <2>3, <3>1, <3>2 DEF QueueInv, Leave
      <3>3. CASE Queued(Cleaner)
        <4>1. PICK n \in 1 .. Len(lockq) :
                 /\ lockq[n] = Cleaner /\ Len(lockq') = Len(lockq) - 1
                 /\ \A i \in 1 .. n - 1 : lockq'[i] = lockq[i]
                 /\ \A i \in n .. Len(lockq) - 1 : lockq'[i] = lockq[i + 1]
          BY <1>1, <1>2, <3>3, LeftOut
        <4>2. CASE k < n
          <5>1. k \in 1 .. Len(lockq) /\ lockq[k] = lockq'[k]
            BY <2>3, <4>1, <4>2
          <5>2. PICK i \in 1 .. k - 1 : lockq[i] = t
            BY <2>3, <3>1, <5>1 DEF QueueInv
          <5>3. i \in 1 .. n - 1
            BY <4>2, <5>1
          <5> QED BY <4>1, <5>2, <5>3
        <4>3. CASE k >= n
          <5>1. k + 1 \in 1 .. Len(lockq) /\ lockq[k + 1] = lockq'[k]
            BY <2>3, <4>1, <4>3
          <5>2. PICK i \in 1 .. k : lockq[i] = t
            BY <2>3, <3>1, <5>1 DEF QueueInv
          <5>3. CASE i < n
            <6>1. i \in 1 .. k - 1 /\ i \in 1 .. n - 1
              BY <4>3, <5>1, <5>3
            <6> QED BY <4>1, <5>2, <6>1
          <5>4. CASE i > n
            <6>1. i - 1 \in n .. Len(lockq) - 1 /\ i - 1 \in 1 .. k - 1 /\ lockq'[i - 1] = t
              BY <4>1, <4>3, <5>1, <5>2, <5>4
            <6> QED BY <6>1
          <5> QED BY <3>1, <4>1, <5>2, <5>3, <5>4
        <4> QED BY <2>3, <4>1, <4>2, <4>3
      <3> QED BY <3>2, <3>3
    <2> QED BY <1>1, <1>2, <2>1, <2>2, <2>3 DEF QueueInv, Late
  <1>10. DialInv'
    BY <1>1, <1>2, <1>3, Claimed DEF DialInv, Claims, Lending
  <1>11. HangInv'
    <2>1. \A t \in Callers : call'[t] = "hungup" => t # Manager /\ call[t] = "hungup" /\ mine[t] \in Conns
      BY <1>1, <1>2 DEF CallInv
    <2> QED BY <1>1, <1>2, <1>3, <2>1 DEF HangInv
  <1>12. EndInv' /\ SweepInv'
    BY <1>2, <1>3 DEF EndInv, SweepInv, SweepPc
  <1>13. FoundInv'
    BY <1>2, <1>3 DEF FoundInv
  <1>14. ShutInv'
    BY <1>1, <1>2 DEF ShutInv
  <1> QED BY <1>4, <1>5, <1>6, <1>7, <1>8, <1>9, <1>10, <1>11, <1>12, <1>13, <1>14

\* close_all returns when the pool is closed.
LEMMA CloseAllEndClient ==
    ASSUME ClientInv, CloseAllEnd
    PROVE  ClientInv'
  <1> USE DEF ClientInv, TypeInv, ClientTypeOK, CloseAllEnd, vars
  <1>1. Manager \in Callers /\ Manager \notin Workers /\ closed
    BY ClientAssumption DEF Workers, CallInv
  <1>2. call' = [call EXCEPT ![Manager] = "out"] /\ UNCHANGED <<vars, closed, active, mine, pooled, batch, loaned>>
    OBVIOUS
  <1>3. TypeInv' /\ CallInv'
    BY <1>1, <1>2 DEF CallInv, Workers
  <1>4. SoleInv'
    <2>1. \A u \in Workers : Claims(u)' => Claims(u)
      BY <1>1, <1>2 DEF Claims, Workers
    <2> QED BY <1>2, <2>1 DEF SoleInv
  <1>5. TrackInv' /\ ListInv'
    BY <1>1, <1>2 DEF TrackInv, ListInv, Asking, Workers
  <1>6. QueueInv'
    BY <1>2, QueueStays
  <1>7. DialInv' /\ HangInv'
    BY <1>1, <1>2, DialKept DEF HangInv, CallInv
  <1>8. EndInv' /\ SweepInv' /\ FoundInv' /\ ShutInv'
    <2>1. \A u \in Workers : Claims(u)' => Claims(u)
      BY <1>1, <1>2 DEF Claims, Workers
    <2> QED BY <1>1, <1>2, <2>1 DEF EndInv, SweepInv, FoundInv, ShutInv
  <1> QED BY <1>3, <1>4, <1>5, <1>6, <1>7, <1>8

\* A step that changes no session leaves what is known of sessions alone.
LEMMA SessionsStay ==
    ASSUME ClientInv, UNCHANGED client, UNCHANGED <<conn, link>>,
           \A t \in Callers : pc'[t] = pc[t]
    PROVE  /\ ClientTypeOK' /\ CallInv' /\ SoleInv' /\ TrackInv' /\ HangInv'
           /\ Asking' = Asking /\ \A t \in Callers : Claims(t)' = Claims(t)
  <1>1. Asking' = Asking /\ \A t \in Callers : Claims(t)' = Claims(t)
    BY DEF Asking, Claims
  <1>2. ClientTypeOK' /\ CallInv' /\ HangInv'
    BY ClientAssumption DEF ClientInv, TypeInv, ClientTypeOK, CallInv, HangInv
  <1>3. SoleInv' /\ TrackInv'
    BY <1>1 DEF ClientInv, SoleInv, TrackInv, Workers
  <1> QED BY <1>1, <1>2, <1>3

\* The cleanup task starts,
LEMMA StartClient ==
    ASSUME ClientInv, Start, UNCHANGED client
    PROVE  ClientInv'
  <1> USE DEF ClientInv, TypeInv, Start
  <1>1. /\ \A t \in Callers : pc'[t] = pc[t]
        /\ pc'[Cleaner] = "sleep" /\ pc'[Closer] = pc[Closer] /\ pc[Closer] = "open"
    BY TaskAssumption DEF Tasks
  <1>2. TypeInv'
    BY <1>1, SessionsStay DEF CleanerPc
  <1>3. CallInv' /\ SoleInv' /\ TrackInv' /\ HangInv'
    BY <1>1, SessionsStay
  <1>4. ListInv' /\ DialInv'
    BY <1>1 DEF ListInv, DialInv, Asking
  <1>5. QueueInv'
    BY <1>1, QueueStays DEF CriticalPc
  <1>6. EndInv' /\ SweepInv' /\ FoundInv' /\ ShutInv'
    BY <1>1 DEF EndInv, SweepInv, SweepPc, FoundInv, ShutInv
  <1> QED BY <1>2, <1>3, <1>4, <1>5, <1>6

\* wakes and asks for the lock,
LEMMA CleanWakeClient ==
    ASSUME ClientInv, CleanWake, UNCHANGED client
    PROVE  ClientInv'
  <1> USE DEF ClientInv, TypeInv, CleanWake
  <1>1. /\ \A t \in Callers : pc'[t] = pc[t]
        /\ pc'[Cleaner] = "clean" /\ pc'[Closer] = pc[Closer] /\ pc[Closer] = "open"
        /\ Cleaner \in Tasks /\ Cleaner \notin {Manager, Closer}
    BY TaskAssumption, ClientAssumption DEF Tasks, ShutInv
  <1>2. TypeInv'
    BY <1>1, SessionsStay, EnqueueLemma DEF CleanerPc
  <1>3. CallInv' /\ SoleInv' /\ TrackInv' /\ HangInv'
    BY <1>1, SessionsStay
  <1>4. ListInv' /\ DialInv'
    BY <1>1 DEF ListInv, DialInv, Asking
  <1>5. QueueInv'
    BY <1>1, QueueJoined DEF CriticalPc
  <1>6. EndInv' /\ SweepInv' /\ FoundInv' /\ ShutInv'
    BY <1>1 DEF EndInv, SweepInv, SweepPc, FoundInv, ShutInv
  <1> QED BY <1>2, <1>3, <1>4, <1>5, <1>6

\* begins with nothing removed,
LEMMA CleanBeginClient ==
    ASSUME ClientInv, CleanBegin, UNCHANGED client
    PROVE  ClientInv'
  <1> USE DEF ClientInv, TypeInv, CleanBegin
  <1>1. /\ \A t \in Callers : pc'[t] = pc[t]
        /\ pc'[Cleaner] = "sweep" /\ pc'[Closer] = pc[Closer] /\ pc[Closer] = "open"
    BY TaskAssumption DEF Tasks, ShutInv
  <1>2. TypeInv'
    BY <1>1, SessionsStay DEF CleanerPc
  <1>3. CallInv' /\ SoleInv' /\ TrackInv' /\ HangInv'
    BY <1>1, SessionsStay
  <1>4. ListInv' /\ DialInv'
    BY <1>1 DEF ListInv, DialInv, Asking
  <1>5. QueueInv'
    BY <1>1, QueueStays DEF CriticalPc
  <1>6. EndInv' /\ SweepInv' /\ FoundInv' /\ ShutInv'
    BY <1>1 DEF EndInv, SweepInv, SweepPc, FoundInv, ShutInv
  <1> QED BY <1>2, <1>3, <1>4, <1>5, <1>6

\* drops only what is idle and down, be it so when it is visited,
LEMMA CleanVisitClient ==
    ASSUME ClientInv, UNCHANGED client, NEW c \in Conns,
           CleanKeep(c) \/ CleanRemove(c)
    PROVE  ClientInv'
  <1> USE DEF ClientInv, TypeInv, CleanKeep, CleanRemove
  <1>1. pc[Cleaner] = "sweep" /\ pc' = pc /\ pc[Closer] = "open"
        /\ conn' = conn /\ link' = link /\ lockq' = lockq /\ inUse' = inUse
    BY DEF ShutInv
  <1>2. /\ c \in todo /\ c \in entries \ gone
        /\ \E removed \in BOOLEAN :
              Visited(c, removed) /\ (removed => link[c] = "down" /\ c \notin inUse)
    BY DEF SweepInv, SweepPc, Doomed
  <1>3. /\ entries' \subseteq entries /\ inUse \subseteq entries' /\ gone' \subseteq entries' \ inUse
        /\ \A d \in Conns : d \in gone' \/ d \in entries \ entries' => link[d] = "down"
        /\ todo' = todo \ {c}
    BY <1>2 DEF Visited, FoundInv
  <1>4. TypeInv'
    BY <1>1, <1>3, SessionsStay
  <1>5. CallInv' /\ SoleInv' /\ TrackInv' /\ HangInv'
    BY <1>1, SessionsStay
  <1>6. ListInv' /\ DialInv'
    BY <1>1, <1>3 DEF ListInv, DialInv, Asking
  <1>7. QueueInv'
    BY <1>1, QueueStays
  <1>8. SweepInv'
    BY <1>1, <1>2 DEF SweepInv, SweepPc, Visited, SameKey
  <1>9. EndInv' /\ FoundInv' /\ ShutInv'
    BY <1>1, <1>3 DEF EndInv, FoundInv, ShutInv
  <1> QED BY <1>4, <1>5, <1>6, <1>7, <1>8, <1>9

\* or be it that the sweep has to end it first,
LEMMA CleanCloseClient ==
    ASSUME ClientInv, UNCHANGED client, NEW c \in Conns, CleanClose(c)
    PROVE  ClientInv'
  <1> USE DEF ClientInv, TypeInv, CleanClose
  <1>1. /\ \A t \in Callers : pc'[t] = pc[t]
        /\ pc[Cleaner] = "sweep" /\ pc'[Cleaner] = "sweepwait"
        /\ pc'[Closer] = pc[Closer] /\ pc[Closer] = "open"
        /\ UNCHANGED <<conn, lockq, entries, inUse, gone, todo>>
    BY TaskAssumption DEF Tasks, ShutInv
  <1>2. /\ c \in todo /\ c \in entries \ inUse /\ c \notin gone /\ link[c] = "open"
        /\ link' = [link EXCEPT ![c] = "closing"]
    BY <1>1 DEF SweepInv, SweepPc, Doomed, Connected
  <1>3. TypeInv'
    BY <1>1, <1>2 DEF CleanerPc, ClientTypeOK
  <1>4. CallInv' /\ SoleInv' /\ TrackInv'
    BY <1>1 DEF CallInv, SoleInv, Claims, TrackInv, Workers
  <1>5. HangInv' /\ DialInv'
    BY <1>1, <1>2 DEF HangInv, DialInv, ClientTypeOK
  <1>6. ListInv'
    BY <1>1 DEF ListInv, Asking
  <1>7. QueueInv'
    BY <1>1, QueueStays DEF CriticalPc
  <1>8. EndInv'
    BY <1>1, <1>2 DEF EndInv, ClientTypeOK
  <1>9. SweepInv' /\ FoundInv' /\ ShutInv'
    BY <1>1, <1>2 DEF SweepInv, SweepPc, FoundInv, ShutInv, ClientTypeOK
  <1> QED BY <1>3, <1>4, <1>5, <1>6, <1>7, <1>8, <1>9

\* The sweep's close ends; nothing else is at stake.
LEMMA CleanClosedClient ==
    ASSUME ClientInv, UNCHANGED client, NEW c \in Conns, CleanClosed(c)
    PROVE  ClientInv'
  <1> USE DEF ClientInv, TypeInv, CleanClosed
  <1>1. /\ \A t \in Callers : pc'[t] = pc[t]
        /\ pc[Cleaner] = "sweepwait" /\ pc'[Cleaner] = "sweep"
        /\ pc'[Closer] = pc[Closer] /\ pc[Closer] = "open"
        /\ UNCHANGED <<conn, lockq, inUse>>
    BY TaskAssumption DEF Tasks, ShutInv
  <1>2. /\ c \in todo /\ c \in entries \ inUse /\ c \notin gone /\ link[c] = "closing"
        /\ link' = [link EXCEPT ![c] = "down"] /\ Visited(c, TRUE)
    BY <1>1 DEF SweepInv, SweepPc, EndInv
  <1>3. /\ entries' \subseteq entries /\ inUse \subseteq entries' /\ gone' \subseteq entries' \ inUse
        /\ \A d \in Conns : d \in gone' \/ d \in entries \ entries' => link'[d] = "down"
        /\ todo' = todo \ {c}
    BY <1>2 DEF Visited, FoundInv, ClientTypeOK
  <1>4. TypeInv'
    BY <1>1, <1>2, <1>3 DEF CleanerPc, ClientTypeOK
  <1>5. CallInv' /\ SoleInv' /\ TrackInv'
    BY <1>1 DEF CallInv, SoleInv, Claims, TrackInv, Workers
  <1>6. HangInv' /\ DialInv'
    BY <1>1, <1>2, <1>3 DEF HangInv, DialInv, ClientTypeOK
  <1>7. ListInv'
    BY <1>1, <1>3 DEF ListInv, Asking
  <1>8. QueueInv'
    BY <1>1, QueueStays DEF CriticalPc
  <1>9. SweepInv'
    BY <1>1, <1>2 DEF SweepInv, SweepPc, Visited, SameKey
  <1>10. EndInv' /\ FoundInv' /\ ShutInv'
    BY <1>1, <1>2, <1>3 DEF EndInv, FoundInv, ShutInv, ClientTypeOK
  <1> QED BY <1>4, <1>5, <1>6, <1>7, <1>8, <1>9, <1>10

\* and ends having dropped it all.
LEMMA CleanEndClient ==
    ASSUME ClientInv, CleanEnd, UNCHANGED client
    PROVE  ClientInv'
  <1> USE DEF ClientInv, TypeInv, CleanEnd
  <1>1. /\ \A t \in Callers : pc'[t] = pc[t]
        /\ pc[Cleaner] = "sweep" /\ pc'[Cleaner] = "sleep"
        /\ pc'[Closer] = pc[Closer] /\ pc[Closer] = "open"
        /\ Cleaner \in Tasks /\ Cleaner \notin Callers /\ Cleaner # Closer /\ Owns(Cleaner)
    BY TaskAssumption DEF Tasks, ShutInv, QueueInv, CriticalPc
  <1>2. TypeInv'
    BY <1>1, SessionsStay, ReleaseLemma DEF CleanerPc
  <1>3. CallInv' /\ SoleInv' /\ TrackInv' /\ HangInv'
    BY <1>1, SessionsStay
  <1>4. ListInv' /\ DialInv'
    BY <1>1 DEF ListInv, DialInv, Asking
  <1>5. QueueInv'
    BY <1>1, QueueLeft DEF CriticalPc, Late
  <1>6. EndInv' /\ SweepInv' /\ FoundInv' /\ ShutInv'
    BY <1>1 DEF EndInv, SweepInv, SweepPc, FoundInv, ShutInv
  <1> QED BY <1>2, <1>3, <1>4, <1>5, <1>6

\* close() asks for the lock when close_all has released everything,
LEMMA CloseQueueClient ==
    ASSUME ClientInv, CloseQueue, UNCHANGED client
    PROVE  ClientInv'
  <1> USE DEF ClientInv, TypeInv, CloseQueue
  <1>1. /\ \A t \in Callers : pc'[t] = pc[t]
        /\ pc[Closer] = "stopping" /\ pc'[Closer] = "close" /\ pc'[Cleaner] = pc[Cleaner]
        /\ closed /\ Closer \in Tasks
    BY TaskAssumption DEF Tasks, ShutInv
  <1>2. TypeInv'
    BY <1>1, SessionsStay, EnqueueLemma DEF CloserPc
  <1>3. CallInv' /\ SoleInv' /\ TrackInv' /\ HangInv'
    BY <1>1, SessionsStay
  <1>4. ListInv' /\ DialInv'
    BY <1>1 DEF ListInv, DialInv, Asking
  <1>5. QueueInv'
    BY <1>1, QueueJoined DEF CriticalPc, Late
  <1>6. EndInv' /\ SweepInv' /\ FoundInv' /\ ShutInv'
    BY <1>1 DEF EndInv, SweepInv, SweepPc, FoundInv, ShutInv
  <1> QED BY <1>2, <1>3, <1>4, <1>5, <1>6

\* has it when no call asks any more,
LEMMA CloseBeginClient ==
    ASSUME ClientInv, CloseBegin, UNCHANGED client
    PROVE  ClientInv'
  <1> USE DEF ClientInv, TypeInv, CloseBegin
  <1>1. /\ \A t \in Callers : pc'[t] = pc[t]
        /\ pc[Closer] = "close" /\ pc'[Closer] = "closing" /\ pc'[Cleaner] = pc[Cleaner]
        /\ pc[Cleaner] = "off"
    BY TaskAssumption DEF Tasks, ShutInv
  <1>2. ~Asking
    <2>1. lockq[1] = Closer /\ Len(lockq) \in Nat /\ Len(lockq) >= 1
      BY HeadTailProperties DEF Owns
    <2>2. \A t \in Callers : pc[t] = "get" => \E i \in 1 .. 0 : lockq[i] = t
      BY <2>1 DEF QueueInv
    <2> QED BY <2>2 DEF Asking
  <1>3. TypeInv'
    BY <1>1, SessionsStay DEF CloserPc
  <1>4. CallInv' /\ SoleInv' /\ TrackInv' /\ HangInv' /\ Asking' = Asking
    BY <1>1, SessionsStay
  <1>5. ListInv' /\ DialInv'
    BY <1>1 DEF ListInv, DialInv, Asking
  <1>6. QueueInv'
    BY <1>1, <1>2, <1>4 DEF QueueInv, Queued, Owns, CriticalPc
  <1>7. EndInv' /\ SweepInv' /\ FoundInv' /\ ShutInv'
    BY <1>1 DEF EndInv, SweepInv, SweepPc, FoundInv, ShutInv
  <1> QED BY <1>3, <1>4, <1>5, <1>6, <1>7

\* ends each connection that works, whoever has it,
LEMMA CloseEntryClient ==
    ASSUME ClientInv, UNCHANGED client, NEW c \in Conns, CloseEntry(c)
    PROVE  ClientInv'
  <1> USE DEF ClientInv, TypeInv, CloseEntry
  <1>1. /\ \A t \in Callers : pc'[t] = pc[t]
        /\ pc[Closer] = "closing" /\ pc'[Closer] = "closewait"
        /\ pc'[Cleaner] = pc[Cleaner] /\ pc[Cleaner] = "off"
        /\ UNCHANGED <<conn, lockq, entries, inUse, gone, todo>>
    BY TaskAssumption DEF Tasks, ShutInv
  <1>2. /\ c \in todo /\ c \notin gone /\ link[c] = "open"
        /\ link' = [link EXCEPT ![c] = "closing"]
    BY DEF FoundInv, Connected
  <1>3. TypeInv'
    BY <1>1, <1>2 DEF CloserPc, ClientTypeOK
  <1>4. CallInv' /\ SoleInv' /\ TrackInv'
    BY <1>1, ClientAssumption DEF CallInv, SoleInv, Claims, TrackInv, Workers
  <1>5. HangInv' /\ DialInv'
    BY <1>1, <1>2 DEF HangInv, DialInv, ClientTypeOK
  <1>6. ListInv'
    BY <1>1 DEF ListInv, Asking
  <1>7. QueueInv'
    BY <1>1, QueueStays DEF CriticalPc, Late, QueueInv
  <1>8. EndInv'
    BY <1>1, <1>2 DEF EndInv, ClientTypeOK
  <1>9. SweepInv' /\ FoundInv'
    BY <1>1, <1>2 DEF SweepInv, SweepPc, FoundInv, ClientTypeOK, EndInv
  <1>10. ShutInv'
    BY <1>1, <1>2 DEF ShutInv, ClientTypeOK
  <1> QED BY <1>3, <1>4, <1>5, <1>6, <1>7, <1>8, <1>9, <1>10

\* until it has seen them all down,
LEMMA CloseSeenClient ==
    ASSUME ClientInv, UNCHANGED client, NEW c \in Conns, CloseEntryDead(c) \/ CloseEntryDone(c)
    PROVE  ClientInv'
  <1> USE DEF ClientInv, TypeInv, CloseEntryDead, CloseEntryDone
  <1>1. /\ \A t \in Callers : pc'[t] = pc[t]
        /\ pc[Closer] \in {"closing", "closewait"} /\ pc'[Closer] = "closing"
        /\ pc'[Cleaner] = pc[Cleaner] /\ pc[Cleaner] = "off"
        /\ pc' \in [Tasks -> CallerPc \cup CleanerPc \cup CloserPc]
        /\ UNCHANGED <<conn, lockq, entries, inUse, gone>> /\ todo' = todo \ {c}
    BY TaskAssumption DEF Tasks, ShutInv, CloserPc
  <1>2. /\ link[c] \in {"down", "closing"}
        /\ link' = [link EXCEPT ![c] = "down"]
        /\ \A d \in Conns : link'[d] # "closing"
    <2>1. CASE CloseEntryDead(c)
      BY <1>1, <2>1 DEF EndInv, ClientTypeOK
    <2>2. CASE CloseEntryDone(c)
      BY <1>1, <2>2 DEF EndInv, ClientTypeOK
    <2> QED BY <2>1, <2>2
  <1> HIDE DEF CloseEntryDead, CloseEntryDone
  <1>3. TypeInv'
    BY <1>1, <1>2 DEF CloserPc, ClientTypeOK
  <1>4. CallInv' /\ SoleInv' /\ TrackInv'
    BY <1>1, ClientAssumption DEF CallInv, SoleInv, Claims, TrackInv, Workers
  <1>5. HangInv'
    BY <1>1, <1>2 DEF HangInv, ClientTypeOK
  <1>6. DialInv'
    BY <1>1, <1>2 DEF DialInv, ClientTypeOK
  <1>7. ListInv'
    BY <1>1 DEF ListInv, Asking
  <1>8. QueueInv'
    <2>1. \A t \in Tasks : pc'[t] \in CriticalPc => pc[t] \in CriticalPc \/ Owns(t)
      BY <1>1, TaskAssumption DEF CriticalPc, QueueInv, Tasks
    <2> QED BY <1>1, <2>1, QueueStays DEF Late
  <1>9. EndInv' /\ SweepInv' /\ FoundInv'
    BY <1>1, <1>2 DEF EndInv, SweepInv, SweepPc, FoundInv, ClientTypeOK
  <1>10. ShutInv'
    BY <1>1, <1>2 DEF ShutInv, ClientTypeOK
  <1> QED BY <1>3, <1>4, <1>5, <1>6, <1>7, <1>8, <1>9, <1>10

\* and forgets them: what a worker still has is down.
LEMMA CloseEndClient ==
    ASSUME ClientInv, CloseEnd, UNCHANGED client
    PROVE  ClientInv'
  <1> USE DEF ClientInv, TypeInv, CloseEnd
  <1>1. /\ \A t \in Callers : pc'[t] = pc[t]
        /\ pc[Closer] = "closing" /\ pc'[Closer] = "done" /\ pc'[Cleaner] = pc[Cleaner]
        /\ pc[Cleaner] = "off" /\ closed /\ batch = {} /\ ~Asking
        /\ Closer \in Tasks /\ Closer \notin Callers /\ Closer # Cleaner /\ Owns(Closer)
        /\ \A c \in entries : link[c] = "down"
    BY TaskAssumption DEF Tasks, ShutInv, QueueInv, CriticalPc
  <1>2. TypeInv'
    BY <1>1, SessionsStay, ReleaseLemma DEF CloserPc
  <1>3. /\ CallInv' /\ SoleInv' /\ TrackInv' /\ HangInv'
        /\ Asking' = Asking /\ \A t \in Callers : Claims(t)' = Claims(t)
    BY <1>1, SessionsStay
  <1>4. ListInv' /\ DialInv'
    BY <1>1, <1>3 DEF ListInv, DialInv
  <1>5. QueueInv'
    BY <1>1, QueueLeft DEF CriticalPc, Late
  <1>6. EndInv' /\ SweepInv' /\ FoundInv'
    BY <1>1 DEF EndInv, SweepInv, SweepPc, FoundInv
  <1>7. ShutInv'
    <2>1. ASSUME NEW t \in Workers, Claims(t)'
          PROVE  link[conn[t]] = "down"
      <3>1. t \in Callers /\ Claims(t) /\ pc[t] # "get" /\ (call[t] = "release" => pc[t] = "ret")
        BY <1>1, <1>3, <2>1, Places DEF Workers, Asking
      <3>2. conn[t] \in inUse
        BY <1>1, <3>1 DEF ListInv, Claims, Lending
      <3> QED BY <1>1, <3>2
    <2> QED BY <1>1, <2>1 DEF ShutInv
  <1> QED BY <1>2, <1>3, <1>4, <1>5, <1>6, <1>7

\* A connection that drops is nobody's business until it is used.
LEMMA DropClient ==
    ASSUME ClientInv, UNCHANGED client, NEW c \in Conns, Drop(c)
    PROVE  ClientInv'
  <1> USE DEF ClientInv, TypeInv, ClientTypeOK, Drop, Connected
  <1>1. /\ link[c] = "open" /\ link' = [link EXCEPT ![c] = "down"]
        /\ UNCHANGED <<pc, lockq, conn, entries, inUse, gone, todo>>
    OBVIOUS
  <1>2. TypeInv'
    BY <1>1
  <1>3. CallInv' /\ SoleInv' /\ TrackInv'
    BY <1>1 DEF CallInv, SoleInv, Claims, TrackInv
  <1>4. ListInv'
    BY <1>1 DEF ListInv, Asking
  <1>5. QueueInv'
    BY <1>1, QueueStays
  <1>6. DialInv' /\ HangInv'
    BY <1>1 DEF DialInv, HangInv
  <1>7. EndInv' /\ SweepInv' /\ FoundInv'
    BY <1>1 DEF EndInv, SweepInv, FoundInv
  <1>8. ShutInv'
    BY <1>1 DEF ShutInv, Claims
  <1> QED BY <1>2, <1>3, <1>4, <1>5, <1>6, <1>7, <1>8

\* A stuttering step changes nothing the invariant speaks of.
LEMMA StutterClient ==
    ASSUME ClientInv, UNCHANGED clientVars
    PROVE  ClientInv'
  <1> USE DEF ClientInv, TypeInv, clientVars, vars
  <1>1. /\ ClientTypeOK' /\ CallInv' /\ SoleInv' /\ TrackInv' /\ HangInv'
        /\ Asking' = Asking /\ \A t \in Callers : Claims(t)' = Claims(t)
    BY SessionsStay
  <1>2. TypeInv' /\ ListInv' /\ DialInv'
    BY <1>1 DEF ListInv, DialInv
  <1>3. QueueInv'
    BY QueueStays
  <1>4. EndInv' /\ SweepInv' /\ FoundInv' /\ ShutInv'
    BY <1>1 DEF EndInv, SweepInv, FoundInv, ShutInv, Workers
  <1> QED BY <1>1, <1>2, <1>3, <1>4

\* At first the client knows no session, and the pool lists none.
LEMMA ClientInitInv == ClientInit => ClientInv
  <1> SUFFICES ASSUME ClientInit PROVE ClientInv
    OBVIOUS
  <1> USE DEF ClientInit, Init
  <1>1. /\ \A t \in Callers : t \in Tasks /\ pc[t] = "idle"
        /\ pc[Cleaner] = "off" /\ pc[Closer] = "open" /\ Manager \in Callers
        /\ \A t \in Tasks : pc[t] \notin CriticalPc
    BY TaskAssumption, ClientAssumption DEF Tasks, CriticalPc
  <1>2. TypeInv
    <2>1. ClientTypeOK
      BY DEF ClientTypeOK
    <2>2. pc \in [Tasks -> CallerPc \cup CleanerPc \cup CloserPc]
      BY DEF CallerPc, CleanerPc, CloserPc
    <2>3. /\ lockq \in Seq(Tasks) /\ conn \in [Callers -> Conns \cup {NoConn}]
          /\ entries \subseteq Conns /\ inUse \subseteq entries /\ gone \subseteq entries \ inUse
          /\ todo \subseteq Conns
      OBVIOUS
    <2> QED BY <1>1, <2>1, <2>2, <2>3 DEF TypeInv, CallerPc, CleanerPc, CloserPc
  <1>3. CallInv
    BY <1>1 DEF CallInv, Workers
  <1>4. SoleInv /\ TrackInv
    BY <1>1 DEF SoleInv, TrackInv, Claims, Lending, Workers
  <1>5. ListInv
    BY <1>1, ConnAssumption DEF ListInv
  <1>6. QueueInv
    BY <1>1 DEF QueueInv, Asking
  <1>7. DialInv /\ HangInv /\ EndInv /\ FoundInv /\ ShutInv
    BY <1>1 DEF DialInv, HangInv, EndInv, FoundInv, ShutInv
  <1>8. SweepInv
    BY <1>1 DEF SweepInv, SweepPc
  <1> QED BY <1>2, <1>3, <1>4, <1>5, <1>6, <1>7, <1>8 DEF ClientInv

\* Every step of a call once made keeps the invariant.
LEMMA TaskStepClient ==
    ASSUME ClientInv, NEW t \in Callers, TaskStep(t)
    PROVE  ClientInv'
  <1>1. CASE PoolDials(t)
    BY <1>1, GetCreateClient, ConnectClient DEF PoolDials
  <1>2. CASE PoolLends(t)
    BY <1>2, GetReuseClient, FinishClient DEF PoolLends
  <1>3. CASE Returning(t)
    BY <1>3, RetIdleClient, RetDeadClient, RetUnknownClient DEF Returning
  <1> QED
    BY <1>1, <1>2, <1>3, PoolFullClient, FallBackClient, DirectDialClient, DirectOkClient,
       DirectFailClient, HangUpClient, HungUpClient
       DEF TaskStep

\* So does every step of close_all,
LEMMA CloseAllStepClient ==
    ASSUME ClientInv, CloseAllStep
    PROVE  ClientInv'
  BY CloseAllPoolClient, CloseAllEndClient, CloseAllReturnClient, CloseAllHangUpClient
     DEF CloseAllStep

\* and every step of a sweep or of close().
LEMMA HousekeepingClient ==
    ASSUME ClientInv, CleanerStep \/ CloserStep, UNCHANGED client
    PROVE  ClientInv'
  <1>1. CASE CleanerStep
    BY <1>1, CleanWakeClient, CleanBeginClient, CleanVisitClient, CleanCloseClient,
       CleanClosedClient, CleanEndClient
       DEF CleanerStep
  <1>2. CASE CloserStep
    BY <1>2, CloseQueueClient, CloseBeginClient, CloseEntryClient, CloseSeenClient,
       CloseEndClient
       DEF CloserStep
  <1> QED BY <1>1, <1>2

-----------------------------------------------------------------------------
(* Theorems *)

\* Every step of the composition keeps ClientInv.
LEMMA ClientStep == ClientInv /\ [ClientNext]_clientVars => ClientInv'
  BY TaskStepClient, CloseAllStepClient, HousekeepingClient, ConnectCallClient,
     ConnectDirectClient, CloseSessionClient, CloseAllClient, StartClient, DropClient,
     StutterClient
     DEF ClientNext

\* ClientInv holds in every reachable state of the client, for every set of
\* workers and sessions and every capacity, with or without sessions past
\* the pool (client.py:79-192).
THEOREM ClientInvariant == ClientSpec => []ClientInv
  BY ClientInitInv, ClientStep, PTL DEF ClientSpec

\* The client's variables keep their types.
THEOREM ClientTypes == ClientSpec => []ClientTypeOK
  <1>1. ClientInv => ClientTypeOK
    BY DEF ClientInv, TypeInv
  <1> QED BY <1>1, ClientInvariant, PTL

\* Two users of an open client never have the same session
\* (client.py:96-119, 148-192).
THEOREM SharedTheorem == ClientSpec => []NothingShared
  <1>1. ASSUME ClientInv
        PROVE  NothingShared
    <2>1. ~closed => mine[Manager] = NoConn
      BY <1>1 DEF ClientInv, TypeInv, ClientTypeOK, CallInv
    <2>2. \A t \in Callers \ {Manager} : t \in Workers
      BY DEF Workers
    <2> QED BY <1>1, <2>1, <2>2 DEF ClientInv, SoleInv, NothingShared
  <1> QED BY <1>1, ClientInvariant, PTL

\* _pooled_sessions has exactly the pool's sessions that users have, until
\* close_all takes them over (client.py:79-192).
THEOREM TrackedTheorem == ClientSpec => []PooledAreTracked
  <1>1. ASSUME ClientInv, ~closed
        PROVE  pooled = {mine[t] : t \in {u \in Workers : pc[u] = "using"}}
    <2>1. \A t \in Workers : pc[t] = "using" => mine[t] = conn[t]
      BY <1>1, Places DEF Workers
    <2> QED BY <1>1, <2>1 DEF ClientInv, TrackInv
  <1>2. ClientInv => PooledAreTracked
    BY <1>1 DEF PooledAreTracked
  <1> QED BY <1>2, ClientInvariant, PTL

\* A session goes by at most one name, and only while somebody has it
\* (client.py:154-157).
THEOREM NamesTheorem == ClientSpec => []NamesAreCurrent
  <1>1. ClientInv => NamesAreCurrent
    BY DEF ClientInv, TrackInv, SoleInv, NamesAreCurrent
  <1> QED BY <1>1, ClientInvariant, PTL

\* The client gives back only what the pool has lent and not got back, be
\* the call a close_session overtaken by close_all (client.py:158-159,
\* 169-173).
THEOREM ReturnsTheorem == ClientSpec => ReturnsOnlyLeases
  <1>1. ASSUME ClientInv, NEW t \in Callers, call[t] = "release", RetIdle(t) \/ RetDead(t)
        PROVE  conn[t] \in inUse
    BY <1>1 DEF ClientInv, ListInv, ShutInv, RetIdle, RetDead
  <1>2. ClientInv => [\A t \in Callers : call[t] = "release" /\ (RetIdle(t) \/ RetDead(t)) =>
                         conn[t] \in inUse]_clientVars
    BY <1>1
  <1> QED BY <1>2, ClientInvariant, PTL DEF ReturnsOnlyLeases

\* What is open once the pool is closed was opened past it
\* (client.py:79, 165, 176).
THEOREM PoolStaysClosedTheorem == ClientSpec => []PoolStaysClosed
  <1>1. ClientInv => PoolStaysClosed
    BY DEF ClientInv, FoundInv, ShutInv, PoolStaysClosed, Physical
  <1> QED BY <1>1, ClientInvariant, PTL

====
