------------------------------ MODULE TunnelProofs ------------------------------
(***************************************************************************)
(* Theorems about Tunnel, for any number of listeners and close_alls.      *)
(* TunnelInv is inductive; one lemma per action shows that a step keeps it.*)
(***************************************************************************)
EXTENDS Tunnel, SequenceTheorems, TLAPS

Up == {"open", "closing", "closed"}

-----------------------------------------------------------------------------
(* The inductive invariant *)

\* create_tunnel opens its own in order, before anybody else does anything.
OwnInv ==
    \A l \in Own :
        /\ socket[l] \in {"opening", "failed"} => \A m \in Own : m > l => socket[m] = "none"
        /\ socket[l] = "opening" =>
              /\ body = "running" /\ Len(listeners) = l - 1
              /\ \A n \in Listeners \ Own : socket[n] = "none"
              /\ \A k \in Calls : ~Busy(k)

\* What is in the list was opened.
ListInv == \A i \in 1 .. Len(listeners) : socket[listeners[i]] \in Up

\* Alone, a close_all has closed what is before its place in the list, and what
\* is open is in the list.
AloneInv ==
    ~overlapped =>
        /\ \A l \in Listeners : socket[l] = "open" =>
              \E i \in 1 .. Len(listeners) : listeners[i] = l
        /\ \A j, k \in Calls : Busy(j) /\ Busy(k) => j = k
        /\ \A k \in Calls : Busy(k) =>
              /\ at[k] \in 1 .. Len(listeners)
              /\ \A i \in 1 .. at[k] : socket[listeners[i]] # "open"

\* create_tunnel's own are down, for good,
OwnDown == \A l \in Own : socket[l] \in {"none", "failed", "closed"}

\* or the list was never cleared: it begins with them, and every close_all
\* waits for the one after those that it has seen closed.
Uncleared ==
    /\ body # "over"
    /\ \A l \in Own : socket[l] \in Up => l <= Len(listeners) /\ listeners[l] = l
    /\ \A k \in Calls : Busy(k) =>
          /\ at[k] \in 1 .. Len(listeners) /\ waits[k] = listeners[at[k]]
          /\ \A i \in 1 .. at[k] - 1 : socket[listeners[i]] = "closed"

TunnelInv == TypeOK /\ OwnInv /\ ListInv /\ AloneInv /\ (OwnDown \/ Uncleared)

USE TunnelAssumption DEF Up

\* At first there is no tunnel.
LEMMA InitInv ==
    ASSUME Init
    PROVE  TunnelInv
  <1> USE DEF Init
  <1>1. listeners \in Seq(Listeners) /\ Len(listeners) = 0
    BY EmptySeq
  <1>2. 1 \in Own /\ Own \subseteq Listeners
    BY DEF Own, Listeners
  <1>3. TypeOK
    BY <1>1 DEF TypeOK
  <1>4. OwnInv
    BY <1>1, <1>2 DEF OwnInv, Busy, Own
  <1>5. ListInv /\ AloneInv
    BY <1>1 DEF ListInv, AloneInv, Busy
  <1>6. Uncleared
    BY <1>1, <1>2 DEF Uncleared, Busy
  <1> QED BY <1>3, <1>4, <1>5, <1>6 DEF TunnelInv

-----------------------------------------------------------------------------
(* Listeners *)

\* An opened listener joins the end of the list.
LEMMA OpenedInv ==
    ASSUME TunnelInv, NEW l \in Listeners, Opened(l)
    PROVE  TunnelInv'
  <1> USE DEF TunnelInv
  <1>1. /\ listeners \in Seq(Listeners) /\ listeners' \in Seq(Listeners)
        /\ Len(listeners') = Len(listeners) + 1 /\ Len(listeners) \in Nat
        /\ listeners'[Len(listeners) + 1] = l
        /\ \A i \in 1 .. Len(listeners) : listeners'[i] = listeners[i]
    BY AppendProperties DEF Opened, TypeOK
  <1>2. /\ socket[l] = "opening" /\ UNCHANGED <<body, at, waits, overlapped>>
        /\ socket' = [s \in Listeners |-> IF s = l THEN "open"
                                          ELSE IF s = l + 1 /\ s \in Own THEN "opening"
                                          ELSE socket[s]]
    BY DEF Opened, Onwards
  <1>3. Own \subseteq Listeners /\ \A m \in Own : m - 1 \in Listeners => m - 1 \in Own
    BY DEF Own, Listeners
  <1>4. \A s \in Own : s = l + 1 => l \in Own /\ socket[s] = "none"
    BY <1>2, <1>3 DEF OwnInv, Own, Listeners
  <1>5. \A s \in Listeners : socket[s] \in Up => socket'[s] = socket[s]
    BY <1>2, <1>4
  <1>6. TypeOK'
    BY <1>1, <1>2 DEF TypeOK
  <1>7. ListInv'
    BY <1>1, <1>2, <1>5 DEF ListInv
  <1>8. OwnInv'
    <2> SUFFICES ASSUME NEW m \in Own, socket'[m] \in {"opening", "failed"}
                 PROVE  /\ \A n \in Own : n > m => socket'[n] = "none"
                        /\ socket'[m] = "opening" =>
                              /\ body' = "running" /\ Len(listeners') = m - 1
                              /\ \A n \in Listeners \ Own : socket'[n] = "none"
                              /\ \A k \in Calls : ~Busy(k)'
      BY DEF OwnInv
    <2>1. m # l
      BY <1>2, <1>3
    <2>2. CASE m = l + 1
      <3>1. l \in Own /\ Len(listeners) = l - 1 /\ body = "running" /\ \A k \in Calls : ~Busy(k)
        BY <2>2, <1>2, <1>4 DEF OwnInv
      <3>2. \A n \in Own : n > m => socket[n] = "none" /\ n # l /\ n # l + 1
        BY <2>2, <3>1, <1>2 DEF OwnInv, Own
      <3>3. Len(listeners') = m - 1
        BY <2>2, <3>1, <1>1, <1>3 DEF Own
      <3>4. \A n \in Listeners \ Own : socket[n] = "none" /\ n # l /\ n # l + 1
        BY <2>2, <3>1, <1>2 DEF OwnInv
      <3> QED BY <3>1, <3>2, <3>3, <3>4, <1>2, <1>3 DEF Busy
    <2>3. CASE m # l + 1
      <3>1. socket[m] = socket'[m]
        BY <2>1, <2>3, <1>2, <1>3
      <3>2. l \notin Own
        BY <3>1, <1>2, <2>1 DEF OwnInv, Own
      <3>3. \A n \in Own : socket'[n] = socket[n]
        BY <3>2, <1>2, <1>3, <1>4
      <3>4. socket[m] # "opening"
        BY <3>2, <1>2 DEF OwnInv
      <3> QED BY <3>1, <3>3, <3>4 DEF OwnInv
    <2> QED BY <2>2, <2>3
  <1>9. AloneInv'
    <2> SUFFICES ASSUME ~overlapped
                 PROVE  /\ \A s \in Listeners : socket'[s] = "open" =>
                              \E i \in 1 .. Len(listeners') : listeners'[i] = s
                        /\ \A j, k \in Calls : Busy(j)' /\ Busy(k)' => j = k
                        /\ \A k \in Calls : Busy(k)' =>
                              /\ at'[k] \in 1 .. Len(listeners')
                              /\ \A i \in 1 .. at'[k] : socket'[listeners'[i]] # "open"
      BY <1>2 DEF AloneInv
    <2>1. ASSUME NEW s \in Listeners, socket'[s] = "open"
          PROVE  \E i \in 1 .. Len(listeners') : listeners'[i] = s
      <3>1. CASE s = l
        BY <3>1, <1>1
      <3>2. CASE s # l
        <4>1. socket[s] = "open"
          BY <2>1, <3>2, <1>2
        <4>2. PICK i \in 1 .. Len(listeners) : listeners[i] = s
          BY <4>1 DEF AloneInv
        <4> QED BY <4>2, <1>1
      <3> QED BY <3>1, <3>2
    <2>2. ASSUME NEW k \in Calls, Busy(k)
          PROVE  /\ at[k] \in 1 .. Len(listeners')
                 /\ \A i \in 1 .. at[k] : socket'[listeners'[i]] # "open"
      <3>1. at[k] \in 1 .. Len(listeners) /\ \A i \in 1 .. at[k] : socket[listeners[i]] # "open"
        BY <2>2 DEF AloneInv
      <3>2. \A i \in 1 .. Len(listeners) : socket'[listeners'[i]] = socket[listeners[i]]
        BY <1>1, <1>5 DEF ListInv
      <3> QED BY <3>1, <3>2, <1>1
    <2> QED BY <2>1, <2>2, <1>2 DEF AloneInv, Busy
  <1>10. CASE OwnDown
    <2>1. l \notin Own
      BY <1>10, <1>2 DEF OwnDown
    <2>2. OwnDown'
      BY <1>10, <2>1, <1>2, <1>3, <1>4 DEF OwnDown
    <2> QED BY <2>2, <1>6, <1>7, <1>8, <1>9
  <1>11. CASE Uncleared
    <2>1. ASSUME NEW s \in Own, socket'[s] \in Up
          PROVE  s <= Len(listeners') /\ listeners'[s] = s
      <3>1. CASE s = l
        <4>1. Len(listeners) = l - 1
          BY <3>1, <1>2 DEF OwnInv
        <4> QED BY <3>1, <4>1, <1>1 DEF Own
      <3>2. CASE s # l
        <4>1. socket[s] \in Up
          BY <2>1, <3>2, <1>2, <1>3
        <4>2. s <= Len(listeners) /\ listeners[s] = s
          BY <4>1, <1>11 DEF Uncleared
        <4> QED BY <4>2, <1>1 DEF Own
      <3> QED BY <3>1, <3>2
    <2>2. ASSUME NEW k \in Calls, Busy(k)
          PROVE  /\ at[k] \in 1 .. Len(listeners') /\ waits[k] = listeners'[at[k]]
                 /\ \A i \in 1 .. at[k] - 1 : socket'[listeners'[i]] = "closed"
      <3>1. /\ at[k] \in 1 .. Len(listeners) /\ waits[k] = listeners[at[k]]
            /\ \A i \in 1 .. at[k] - 1 : socket[listeners[i]] = "closed"
        BY <2>2, <1>11 DEF Uncleared
      <3>2. \A i \in 1 .. Len(listeners) : socket'[listeners'[i]] = socket[listeners[i]]
        BY <1>1, <1>5 DEF ListInv
      <3> QED BY <3>1, <3>2, <1>1
    <2>3. Uncleared'
      BY <2>1, <2>2, <1>2, <1>11 DEF Uncleared, Busy
    <2> QED BY <2>3, <1>6, <1>7, <1>8, <1>9
  <1> QED BY <1>10, <1>11

\* A listener is being opened, could not be, or has released its port: none
\* comes to be open, and what is listed stays up.
LEMMA OtherFrame ==
    ASSUME TunnelInv, NEW l \in Listeners, NEW w \in {"opening", "failed", "closed"},
           socket' = [socket EXCEPT ![l] = w], w = "closed" <=> socket[l] = "closing",
           socket[l] \in {"none", "opening", "closing"},
           body' \in {"running", "raising", body},
           UNCHANGED <<listeners, at, waits, overlapped>>
    PROVE  TypeOK' /\ ListInv' /\ AloneInv' /\ (Uncleared => Uncleared')
  <1> USE DEF TunnelInv
  <1>1. \A i \in 1 .. Len(listeners) : listeners[i] \in Listeners
    BY ElementOfSeq DEF TypeOK
  <1>2. socket \in [Listeners -> {"none", "opening", "failed", "open", "closing", "closed"}]
    BY DEF TypeOK
  <1>3. \A s \in Listeners : /\ socket[s] \in Up <=> socket'[s] \in Up
                             /\ socket'[s] = "open" <=> socket[s] = "open"
                             /\ socket[s] = "closed" => socket'[s] = "closed"
    BY <1>2
  <1>4. TypeOK'
    BY <1>2 DEF TypeOK
  <1>5. ListInv'
    BY <1>1, <1>3 DEF ListInv
  <1>6. AloneInv'
    BY <1>1, <1>3 DEF AloneInv, TypeOK, Busy
  <1>7. ASSUME Uncleared
        PROVE  Uncleared'
    <2>1. \A s \in Own : socket'[s] \in Up => s <= Len(listeners) /\ listeners[s] = s
      BY <1>3, <1>7 DEF Uncleared, Own, Listeners
    <2>2. \A k \in Calls : Busy(k) =>
             /\ at[k] \in 1 .. Len(listeners) /\ waits[k] = listeners[at[k]]
             /\ \A i \in 1 .. at[k] - 1 : socket'[listeners[i]] = "closed"
      <3> SUFFICES ASSUME NEW k \in Calls, Busy(k)
                   PROVE  /\ at[k] \in 1 .. Len(listeners) /\ waits[k] = listeners[at[k]]
                          /\ \A i \in 1 .. at[k] - 1 : socket'[listeners[i]] = "closed"
        OBVIOUS
      <3>1. /\ at[k] \in 1 .. Len(listeners) /\ waits[k] = listeners[at[k]]
            /\ \A i \in 1 .. at[k] - 1 : socket[listeners[i]] = "closed"
        BY <1>7 DEF Uncleared
      <3> QED BY <3>1, <1>1, <1>3
    <2> QED BY <2>1, <2>2, <1>7 DEF Uncleared, Busy
  <1> QED BY <1>4, <1>5, <1>6, <1>7

\* A task adds a listener, once create_tunnel has opened all its own.
LEMMA AddInv ==
    ASSUME TunnelInv, NEW l \in Listeners, Add(l)
    PROVE  TunnelInv'
  <1> USE DEF TunnelInv
  <1>1. /\ socket[l] = "none" /\ socket' = [socket EXCEPT ![l] = "opening"]
        /\ UNCHANGED <<listeners, body, at, waits, overlapped>>
        /\ \A m \in Own : socket[m] \in Up
    BY DEF Add, Yielded
  <1>2. TypeOK' /\ ListInv' /\ AloneInv' /\ (Uncleared => Uncleared')
    BY <1>1, OtherFrame
  <1>3. l \notin Own /\ \A m \in Own : socket'[m] = socket[m]
    BY <1>1 DEF TypeOK, Own, Listeners
  <1>4. OwnInv' /\ (OwnDown => OwnDown')
    BY <1>1, <1>3 DEF OwnInv, OwnDown
  <1> QED BY <1>2, <1>4

\* A listener cannot be opened; one of its own ends create_tunnel.
LEMMA OpenFailsInv ==
    ASSUME TunnelInv, NEW l \in Listeners, OpenFails(l)
    PROVE  TunnelInv'
  <1> USE DEF TunnelInv
  <1>1. /\ socket[l] = "opening" /\ socket' = [socket EXCEPT ![l] = "failed"]
        /\ UNCHANGED <<listeners, at, waits, overlapped>>
        /\ body' \in {"raising", body}
    BY DEF OpenFails
  <1>2. TypeOK' /\ ListInv' /\ AloneInv' /\ (Uncleared => Uncleared')
    BY <1>1, OtherFrame
  <1>3. \A m \in Own : m # l => socket[m] # "opening"
    BY <1>1 DEF OwnInv, Own
  <1>4. \A m \in Own : socket'[m] = IF m = l THEN "failed" ELSE socket[m]
    BY <1>1 DEF TypeOK, Own, Listeners
  <1>5. OwnInv' /\ (OwnDown => OwnDown')
    BY <1>1, <1>3, <1>4 DEF OwnInv, OwnDown
  <1> QED BY <1>2, <1>5

\* A closed listener releases its port.
LEMMA ReleasedInv ==
    ASSUME TunnelInv, NEW l \in Listeners, Released(l)
    PROVE  TunnelInv'
  <1> USE DEF TunnelInv
  <1>1. /\ socket[l] = "closing" /\ socket' = [socket EXCEPT ![l] = "closed"]
        /\ UNCHANGED <<listeners, body, at, waits, overlapped>>
    BY DEF Released
  <1>2. TypeOK' /\ ListInv' /\ AloneInv' /\ (Uncleared => Uncleared')
    BY <1>1, OtherFrame
  <1>3. \A m \in Listeners : socket'[m] = IF m = l THEN "closed" ELSE socket[m]
    BY <1>1 DEF TypeOK
  <1>4. Own \subseteq Listeners
    BY DEF Own, Listeners
  <1>5. OwnInv'
    BY <1>1, <1>3, <1>4 DEF OwnInv, Busy
  <1>6. OwnDown => OwnDown'
    BY <1>1, <1>3, <1>4 DEF OwnDown
  <1> QED BY <1>2, <1>5, <1>6

-----------------------------------------------------------------------------
(* close_all *)

\* Call k goes on from the listener it has seen closed, or begins.
Turn(k, i) ==
    \/ /\ Busy(k) /\ i = at[k] + 1 /\ socket[waits[k]] = "closed"
       /\ overlapped' = overlapped
    \/ /\ i = 1
       /\ overlapped' = (overlapped \/ \E j \in Calls : Busy(j))

\* Where nothing overlapped by then, no other close_all is busy.
LEMMA TurnAlone ==
    ASSUME TunnelInv, NEW k \in Calls, NEW i, Turn(k, i), ~overlapped'
    PROVE  ~overlapped /\ \A j \in Calls : Busy(j) => j = k
  <1>1. CASE Busy(k) /\ overlapped' = overlapped
    <2>1. ~overlapped
      BY <1>1
    <2> QED BY <2>1, <1>1 DEF TunnelInv, AloneInv
  <1>2. CASE overlapped' = (overlapped \/ \E j \in Calls : Busy(j))
    BY <1>2
  <1> QED BY <1>1, <1>2, Zenon DEF Turn

\* There is another listener: it is closed, and waited for.
LEMMA NextListener ==
    ASSUME TunnelInv, NEW k \in Calls, NEW i \in 1 .. Len(listeners), Turn(k, i), Visit(k, i),
           \A l \in Own : socket[l] # "opening",
           body' \in {"running", "leaving", body}
    PROVE  TunnelInv'
  <1> USE DEF TunnelInv
  <1>1. /\ \A j \in 1 .. Len(listeners) : listeners[j] \in Listeners
        /\ Len(listeners) \in Nat /\ Own \subseteq Listeners
    BY ElementOfSeq DEF TypeOK, Own, Listeners
  <1>2. /\ socket' = [socket EXCEPT ![listeners[i]] = IF @ = "open" THEN "closing" ELSE @]
        /\ at' = [at EXCEPT ![k] = i] /\ waits' = [waits EXCEPT ![k] = listeners[i]]
        /\ listeners' = listeners
    BY DEF Visit
  <1>3. \A s \in Listeners :
            socket'[s] = IF s = listeners[i] /\ socket[s] = "open" THEN "closing" ELSE socket[s]
    BY <1>1, <1>2 DEF TypeOK
  <1>4. /\ at'[k] = i /\ waits'[k] = listeners[i] /\ Busy(k)'
        /\ \A j \in Calls \ {k} : at'[j] = at[j] /\ waits'[j] = waits[j] /\ (Busy(j)' <=> Busy(j))
    BY <1>1, <1>2 DEF TypeOK, Busy, Listeners
  <1>5. overlapped' \in BOOLEAN
    BY DEF Turn, TypeOK
  <1>6. TypeOK'
    BY <1>1, <1>2, <1>5 DEF TypeOK
  <1>7. ListInv'
    BY <1>1, <1>2, <1>3 DEF ListInv
  <1>8. OwnInv'
    BY <1>1, <1>3 DEF OwnInv
  <1>9. AloneInv'
    <2> SUFFICES ASSUME ~overlapped'
                 PROVE  AloneInv'
      BY DEF AloneInv
    <2>1. ~overlapped /\ \A j \in Calls : Busy(j) => j = k
      BY TurnAlone
    <2>2. \A l \in Listeners : socket'[l] = "open" => \E j \in 1 .. Len(listeners) : listeners[j] = l
      BY <2>1, <1>3 DEF AloneInv
    <2>3. \A j \in 1 .. i : socket'[listeners[j]] # "open"
      <3> SUFFICES ASSUME NEW j \in 1 .. i
                   PROVE  socket'[listeners[j]] # "open"
        OBVIOUS
      <3>1. CASE j = i
        BY <3>1, <1>1, <1>3
      <3>2. CASE j # i
        <4>1. Busy(k) /\ at[k] = i - 1
          BY <3>2 DEF Turn, TypeOK
        <4>2. j \in 1 .. at[k] /\ j \in 1 .. Len(listeners)
          BY <4>1, <3>2, <1>1
        <4>3. socket[listeners[j]] # "open"
          BY <4>1, <4>2, <2>1 DEF AloneInv
        <4> QED BY <4>2, <4>3, <1>1, <1>3
      <3> QED BY <3>1, <3>2
    <2> QED BY <2>1, <2>2, <2>3, <1>2, <1>4 DEF AloneInv
  <1>10. OwnDown => OwnDown'
    BY <1>1, <1>3 DEF OwnDown
  <1>11. ASSUME Uncleared
         PROVE  Uncleared'
    <2>1. body' # "over"
      BY <1>11 DEF Uncleared
    <2>2. \A l \in Own : socket'[l] \in Up => l <= Len(listeners) /\ listeners[l] = l
      BY <1>1, <1>3, <1>11 DEF Uncleared
    <2>3. \A j \in 1 .. i - 1 : socket'[listeners[j]] = "closed"
      <3> SUFFICES ASSUME NEW j \in 1 .. i - 1
                   PROVE  socket'[listeners[j]] = "closed"
        OBVIOUS
      <3>1. Busy(k) /\ at[k] = i - 1 /\ socket[waits[k]] = "closed"
        BY DEF Turn, TypeOK
      <3>2. /\ at[k] \in 1 .. Len(listeners) /\ waits[k] = listeners[at[k]]
            /\ \A n \in 1 .. at[k] - 1 : socket[listeners[n]] = "closed"
        BY <3>1, <1>11 DEF Uncleared
      <3>3. socket[listeners[j]] = "closed" /\ listeners[j] \in Listeners
        BY <3>1, <3>2, <1>1
      <3> QED BY <3>3, <1>3
    <2>4. ASSUME NEW j \in Calls \ {k}, Busy(j)
          PROVE  /\ at[j] \in 1 .. Len(listeners) /\ waits[j] = listeners[at[j]]
                 /\ \A n \in 1 .. at[j] - 1 : socket'[listeners[n]] = "closed"
      <3>1. /\ at[j] \in 1 .. Len(listeners) /\ waits[j] = listeners[at[j]]
            /\ \A n \in 1 .. at[j] - 1 : socket[listeners[n]] = "closed"
        BY <2>4, <1>11 DEF Uncleared
      <3> QED BY <3>1, <1>1, <1>3
    <2> QED BY <2>1, <2>2, <2>3, <2>4, <1>2, <1>4 DEF Uncleared
  <1> QED BY <1>6, <1>7, <1>8, <1>9, <1>10, <1>11

\* There is none: the list is cleared, and all of create_tunnel's are down.
LEMMA LastListener ==
    ASSUME TunnelInv, NEW k \in Calls, NEW i \in Nat, i > Len(listeners), Turn(k, i), Visit(k, i),
           \A l \in Own : socket[l] # "opening",
           body' \in {"running", "raising", "leaving", "over"}
    PROVE  TunnelInv' /\ OwnDown'
  <1> USE DEF TunnelInv
  <1>1. /\ \A j \in 1 .. Len(listeners) : listeners[j] \in Listeners
        /\ Len(listeners) \in Nat /\ Own \subseteq Listeners
    BY ElementOfSeq DEF TypeOK, Own, Listeners
  <1>2. /\ listeners' = <<>> /\ at' = [at EXCEPT ![k] = 0]
        /\ waits' = [waits EXCEPT ![k] = 0] /\ socket' = socket
    BY <1>1 DEF Visit
  <1>3. /\ at'[k] = 0 /\ ~Busy(k)'
        /\ \A j \in Calls \ {k} : at'[j] = at[j] /\ waits'[j] = waits[j] /\ (Busy(j)' <=> Busy(j))
    BY <1>2 DEF TypeOK, Busy
  <1>4. overlapped' \in BOOLEAN
    BY DEF Turn, TypeOK
  <1>5. listeners' \in Seq(Listeners) /\ Len(listeners') = 0
    BY <1>2, EmptySeq
  <1>6. TypeOK'
    BY <1>2, <1>4, <1>5 DEF TypeOK
  <1>7. ListInv' /\ OwnInv'
    BY <1>2, <1>5 DEF ListInv, OwnInv
  <1>8. AloneInv'
    <2> SUFFICES ASSUME ~overlapped'
                 PROVE  AloneInv'
      BY DEF AloneInv
    <2>1. ~overlapped /\ \A j \in Calls : Busy(j) => j = k
      BY TurnAlone
    <2>2. \A j \in 1 .. Len(listeners) : socket[listeners[j]] # "open"
      <3>1. CASE Busy(k) /\ i = at[k] + 1
        BY <3>1, <2>1, <1>1 DEF AloneInv
      <3>2. CASE i = 1
        BY <3>2, <1>1
      <3> QED BY <3>1, <3>2 DEF Turn
    <2>3. \A l \in Listeners : socket[l] # "open"
      BY <2>1, <2>2 DEF AloneInv
    <2>4. \A j \in Calls : ~Busy(j)'
      BY <2>1, <1>3
    <2> QED BY <2>3, <2>4, <1>2 DEF AloneInv
  <1>9. OwnDown'
    <2>1. CASE OwnDown
      BY <2>1, <1>2 DEF OwnDown
    <2>2. CASE Uncleared
      <3>1. \A j \in 1 .. Len(listeners) : socket[listeners[j]] = "closed"
        <4>1. CASE Busy(k) /\ i = at[k] + 1 /\ socket[waits[k]] = "closed"
          <5>1. /\ at[k] = Len(listeners) /\ waits[k] = listeners[at[k]]
                /\ \A n \in 1 .. at[k] - 1 : socket[listeners[n]] = "closed"
            BY <4>1, <2>2, <1>1 DEF Uncleared
          <5> QED BY <5>1, <4>1, <1>1
        <4>2. CASE i = 1
          BY <4>2, <1>1
        <4> QED BY <4>1, <4>2 DEF Turn
      <3>2. \A l \in Own : socket[l] \in Up => socket[l] = "closed"
        BY <3>1, <2>2 DEF Uncleared, Own
      <3> QED BY <3>2, <1>1, <1>2 DEF OwnDown, TypeOK
    <2> QED BY <2>1, <2>2
  <1> QED BY <1>6, <1>7, <1>8, <1>9

\* Somebody calls close_all.
LEMMA CloseAllInv ==
    ASSUME TunnelInv, NEW k \in Closers, CloseAll(k)
    PROVE  TunnelInv'
  <1>1. /\ k \in Calls /\ Turn(k, 1) /\ Visit(k, 1) /\ body' = body
        /\ \A l \in Own : socket[l] # "opening"
    BY DEF Calls, CloseAll, Begin, Turn, Yielded
  <1>2. body' \in {"running", "raising", "leaving", "over"} /\ Len(listeners) \in Nat
    BY <1>1 DEF TunnelInv, TypeOK
  <1> QED BY <1>1, <1>2, NextListener, LastListener

\* A close_all goes on.
LEMMA ResumeInv ==
    ASSUME TunnelInv, NEW k \in Calls, Resume(k)
    PROVE  TunnelInv'
  <1>1. /\ Turn(k, at[k] + 1) /\ Visit(k, at[k] + 1)
        /\ body' = IF k = Exit /\ waits'[k] = 0 THEN "over" ELSE body
    BY DEF Resume, Turn
  <1>2. \A l \in Own : socket[l] # "opening"
    BY DEF Resume, TunnelInv, OwnInv
  <1>3. /\ body \in {"running", "raising", "leaving", "over"} /\ Len(listeners) \in Nat
        /\ at[k] + 1 \in Nat \ {0} /\ \A j \in 1 .. Len(listeners) : listeners[j] \in Listeners
    BY ElementOfSeq DEF TunnelInv, TypeOK
  <1>4. CASE at[k] + 1 <= Len(listeners)
    <2>1. waits'[k] = listeners[at[k] + 1] /\ listeners[at[k] + 1] # 0
      BY <1>1, <1>3, <1>4 DEF Visit, TunnelInv, TypeOK, Listeners
    <2> QED BY <2>1, <1>1, <1>2, <1>3, <1>4, NextListener
  <1>5. CASE at[k] + 1 > Len(listeners)
    BY <1>1, <1>2, <1>3, <1>5, LastListener
  <1> QED BY <1>3, <1>4, <1>5

\* create_tunnel leaves, and closes what it has opened.
LEMMA LeaveInv ==
    ASSUME TunnelInv, Leave
    PROVE  TunnelInv'
  <1>1. /\ Exit \in Calls /\ Turn(Exit, 1) /\ Visit(Exit, 1)
        /\ body' = IF listeners = <<>> THEN "over" ELSE "leaving"
    BY DEF Calls, Leave, Begin, Turn
  <1>2. \A l \in Own : socket[l] # "opening"
    BY DEF Leave, Yielded, TunnelInv, OwnInv
  <1>3. listeners \in Seq(Listeners) /\ Len(listeners) \in Nat
    BY DEF TunnelInv, TypeOK
  <1>4. CASE 1 <= Len(listeners)
    <2>1. body' = "leaving"
      BY <1>1, <1>4
    <2> QED BY <2>1, <1>1, <1>2, <1>3, <1>4, NextListener
  <1>5. CASE 1 > Len(listeners)
    BY <1>1, <1>2, <1>3, <1>5, LastListener
  <1> QED BY <1>3, <1>4, <1>5

-----------------------------------------------------------------------------
(* The theorems *)

\* Every step keeps the invariant.
LEMMA NextInv ==
    ASSUME TunnelInv, [Next]_vars
    PROVE  TunnelInv'
  <1>1. CASE Leave
    BY <1>1, LeaveInv
  <1>2. CASE \E k \in Closers : CloseAll(k)
    BY <1>2, CloseAllInv
  <1>3. CASE \E k \in Calls : Resume(k)
    BY <1>3, ResumeInv
  <1>4. CASE \E l \in Listeners : Add(l) \/ Opened(l) \/ OpenFails(l) \/ Released(l)
    BY <1>4, AddInv, OpenedInv, OpenFailsInv, ReleasedInv
  <1>5. CASE UNCHANGED vars
    BY <1>5 DEF vars, TunnelInv, TypeOK, OwnInv, ListInv, AloneInv, OwnDown, Uncleared, Busy
  <1> QED BY <1>1, <1>2, <1>3, <1>4, <1>5 DEF Next

\* TunnelInv is an invariant of every tunnel (proxy.py:30-79).
THEOREM TunnelInvariant == Spec => []TunnelInv
  BY InitInv, NextInv, PTL DEF Spec

\* An open listener is in the list, unless two close_alls overlapped.
THEOREM ForgottenTheorem == Spec => []NothingForgotten
  <1>1. TunnelInv => NothingForgotten
    <2>1. TunnelInv => DOMAIN listeners = 1 .. Len(listeners)
      BY LenProperties DEF TunnelInv, TypeOK
    <2> QED BY <2>1 DEF TunnelInv, AloneInv, NothingForgotten
  <1> QED BY <1>1, TunnelInvariant, PTL

\* A create_tunnel that is over has released its ports, whoever closed them.
THEOREM TornDownTheorem == Spec => []TornDown
  <1>1. TunnelInv => TornDown
    BY DEF TunnelInv, OwnDown, Uncleared, TornDown
  <1> QED BY <1>1, TunnelInvariant, PTL
===============================================================================
