----------------------------- MODULE SessionProofs -----------------------------
(***************************************************************************)
(* Theorems about Session, for batches and files of every size and every   *)
(* number of permits.  SessionInv is inductive; each of its parts is kept  *)
(* by the few actions that touch its variables.                            *)
(***************************************************************************)
EXTENDS Session, FiniteSetTheorems, SequenceTheorems, TLAPS

-----------------------------------------------------------------------------
(* The inductive invariant *)

\* Who waits is queued, once; who is done has an answer, and only they.
QueueInv ==
    /\ \A i \in 1 .. Len(waiting) : pc[waiting[i]] = "queued"
    /\ \A i, j \in 1 .. Len(waiting) : waiting[i] = waiting[j] => i = j
    /\ \A c \in Commands : answer[c] = "none" <=> pc[c] # "done"

\* No member breaks the batch, and none is cancelled unless the caller is.
BatchInv ==
    /\ batch # "broken"
    /\ batch # "quit" => \A c \in Members : answer[c] # "cancelled"
    /\ batch = "returned" => \A c \in Members : pc[c] = "done"

\* An append goes on where the local file ends; what is asked for is there.
FileInv ==
    /\ dl \in {"get", "append"} => size <= remote
    /\ dl = "append" => resume /\ pos = Len(local) + 1

SessionInv ==
    TypeOK /\ ClosedIsFinal /\ QueueInv /\ StatsAddUp /\ BatchInv /\ FileInv /\ ResumeKeepsPlace

-----------------------------------------------------------------------------
(* Counting answers *)

\* There are finitely many commands.
LEMMA CommandsFinite == IsFiniteSet(Commands)
  BY SessionAssumption, FS_Interval DEF Commands

\* The commands that ended with a.
EndedWith(a) == {c \in Commands : answer[c] = a}

\* One command gets the answer b: those that ended with b are one more.
LEMMA CountLemma ==
    ASSUME TypeOK, NEW c \in Commands, answer[c] = "none",
           NEW b, answer' = [answer EXCEPT ![c] = b],
           NEW a, a # "none"
    PROVE  Cardinality(EndedWith(a)') =
              IF a = b THEN Cardinality(EndedWith(a)) + 1 ELSE Cardinality(EndedWith(a))
  <1>1. IsFiniteSet(EndedWith(a))
    BY CommandsFinite, FS_Subset DEF EndedWith
  <1>2. CASE a = b
    <2>1. EndedWith(a)' = EndedWith(a) \cup {c} /\ c \notin EndedWith(a)
      BY <1>2 DEF TypeOK, EndedWith
    <2> QED BY <2>1, <1>1, <1>2, FS_AddElement
  <1>3. CASE a # b
    <2>1. EndedWith(a)' = EndedWith(a)
      BY <1>3 DEF TypeOK, EndedWith
    <2> QED BY <2>1, <1>3
  <1> QED BY <1>2, <1>3

\* A step of command c that keeps what is said of answers.
Moved(c) ==
    /\ pc' \in [Commands -> {"new", "queued", "running", "done"}]
    /\ answer' \in [Commands -> {"none", "result", "error", "refused", "cancelled"}]
    /\ {executed', errors'} \subseteq Nat /\ batch' = batch
    /\ \A d \in Commands : answer'[d] = "none" <=> pc'[d] # "done"
    /\ \A d \in Commands \ {c} : pc'[d] = pc[d]
    /\ StatsAddUp' /\ BatchInv'

\* A command that has no answer yet gets one, and is counted for it; what is
\* not captured, its cancellation, only comes from the group.
LEMMA AnswerLemma ==
    ASSUME SessionInv, NEW c \in Commands, pc[c] # "done",
           NEW a \in {"result", "error", "refused", "cancelled"}, Answered(c, a),
           c \in Members /\ a = "cancelled" => batch = "quit",
           executed' = IF a = "result" THEN executed + 1 ELSE executed,
           errors' = IF a = "error" THEN errors + 1 ELSE errors
    PROVE  Moved(c)
  <1> USE DEF SessionInv
  <1>1. answer[c] = "none"
    BY DEF QueueInv
  <1>2. /\ pc' = [pc EXCEPT ![c] = "done"]
        /\ answer' = [answer EXCEPT ![c] = a]
        /\ batch' = batch
    BY DEF Answered, Captured
  <1>3. executed \in Nat /\ errors \in Nat
    BY DEF TypeOK
  <1>4. StatsAddUp'
    <2>1. Cardinality(EndedWith("result")') =
             IF "result" = a THEN Cardinality(EndedWith("result")) + 1
                             ELSE Cardinality(EndedWith("result"))
      BY <1>1, <1>2, CountLemma
    <2>2. Cardinality(EndedWith("error")') =
             IF "error" = a THEN Cardinality(EndedWith("error")) + 1
                            ELSE Cardinality(EndedWith("error"))
      BY <1>1, <1>2, CountLemma
    <2>3. executed = Cardinality(EndedWith("result")) /\ errors = Cardinality(EndedWith("error"))
      BY DEF StatsAddUp, EndedWith
    <2>4. executed' = Cardinality(EndedWith("result")') /\ errors' = Cardinality(EndedWith("error")')
      BY <2>1, <2>2, <2>3
    <2> QED BY <2>4 DEF StatsAddUp, EndedWith
  <1>5. BatchInv'
    BY <1>2 DEF BatchInv, TypeOK, QueueInv
  <1>6. {executed', errors'} \subseteq Nat
    BY <1>3
  <1> QED BY <1>1, <1>2, <1>4, <1>5, <1>6 DEF Moved, TypeOK, QueueInv

\* A command that got its permit is sent, or meets a session without connection.
LEMMA SendsLemma ==
    ASSUME SessionInv, NEW c \in Commands, pc[c] # "done", Sends(c), executed' = executed
    PROVE  Moved(c) /\ pc'[c] # "queued"
  <1>1. CASE conn # "none"
    <2>1. pc' = [pc EXCEPT ![c] = "running"] /\ UNCHANGED <<answer, errors, executed, batch>>
      BY <1>1 DEF Sends
    <2>2. StatsAddUp' /\ BatchInv'
      BY <2>1 DEF SessionInv, TypeOK, StatsAddUp, BatchInv
    <2> QED BY <2>1, <2>2 DEF Moved, SessionInv, TypeOK, QueueInv
  <1>2. CASE conn = "none"
    <2>1. Answered(c, "error") /\ errors' = errors + 1
      BY <1>2 DEF Sends
    <2>2. Moved(c)
      BY <2>1, AnswerLemma
    <2> QED BY <2>1, <2>2 DEF Answered, SessionInv, TypeOK
  <1> QED BY <1>1, <1>2

-----------------------------------------------------------------------------
(* Steps of commands *)

\* A step of a command leaves alone what is said of the connection and the file.
LEMMA CommandFrame ==
    ASSUME SessionInv, NEW c \in Commands, Moved(c), waiting' \in Seq(Commands),
           UNCHANGED <<link, file>>
    PROVE  TypeOK' /\ ClosedIsFinal' /\ FileInv' /\ ResumeKeepsPlace'
  BY DEF SessionInv, Moved, link, file, TypeOK, ClosedIsFinal, FileInv, ResumeKeepsPlace

\* A step of a command that was not queued and is not now leaves the queue.
LEMMA QueueFrame ==
    ASSUME SessionInv, NEW c \in Commands, Moved(c), waiting' = waiting, pc[c] # "queued"
    PROVE  QueueInv'
  <1>1. \A i \in 1 .. Len(waiting) : waiting[i] \in Commands \ {c}
    BY DEF SessionInv, TypeOK, QueueInv
  <1> QED BY <1>1 DEF SessionInv, TypeOK, QueueInv, Moved

\* A command is refused.
LEMMA RefusedInv ==
    ASSUME SessionInv, NEW c \in Commands, Refused(c)
    PROVE  SessionInv'
  <1>1. Moved(c)
    BY AnswerLemma DEF Refused, Begins
  <1>2. QueueInv'
    BY <1>1, QueueFrame DEF Refused, Begins
  <1>3. TypeOK' /\ ClosedIsFinal' /\ FileInv' /\ ResumeKeepsPlace'
    BY <1>1, CommandFrame DEF Refused, SessionInv, TypeOK
  <1> QED BY <1>1, <1>2, <1>3 DEF SessionInv, Moved

\* A command ends with a result.
LEMMA ResultInv ==
    ASSUME SessionInv, NEW c \in Commands, Result(c)
    PROVE  SessionInv'
  <1>1. Moved(c)
    BY AnswerLemma DEF Result
  <1>2. QueueInv'
    BY <1>1, QueueFrame DEF Result
  <1>3. TypeOK' /\ ClosedIsFinal' /\ FileInv' /\ ResumeKeepsPlace'
    BY <1>1, CommandFrame DEF Result, SessionInv, TypeOK
  <1> QED BY <1>1, <1>2, <1>3 DEF SessionInv, Moved

\* A command ends with an error.
LEMMA FailsInv ==
    ASSUME SessionInv, NEW c \in Commands, Fails(c)
    PROVE  SessionInv'
  <1>1. Moved(c)
    BY AnswerLemma DEF Fails
  <1>2. QueueInv'
    BY <1>1, QueueFrame DEF Fails
  <1>3. TypeOK' /\ ClosedIsFinal' /\ FileInv' /\ ResumeKeepsPlace'
    BY <1>1, CommandFrame DEF Fails, SessionInv, TypeOK
  <1> QED BY <1>1, <1>2, <1>3 DEF SessionInv, Moved

\* A command begins: it is sent, or it is the last to wait.
LEMMA ExecuteInv ==
    ASSUME SessionInv, NEW c \in Commands, Execute(c)
    PROVE  SessionInv'
  <1>1. pc[c] = "new" /\ UNCHANGED <<link, executed, file>>
    BY DEF Execute, Begins
  <1>2. CASE Sends(c) /\ UNCHANGED waiting
    <2>1. Moved(c)
      BY <1>1, <1>2, SendsLemma
    <2>2. QueueInv'
      BY <1>1, <1>2, <2>1, QueueFrame
    <2>3. TypeOK' /\ ClosedIsFinal' /\ FileInv' /\ ResumeKeepsPlace'
      BY <1>1, <1>2, <2>1, CommandFrame DEF SessionInv, TypeOK
    <2> QED BY <2>1, <2>2, <2>3 DEF SessionInv, Moved
  <1>3. CASE /\ pc' = [pc EXCEPT ![c] = "queued"] /\ waiting' = Append(waiting, c)
             /\ UNCHANGED <<answer, errors, batch>>
    <2>1. StatsAddUp' /\ BatchInv'
      BY <1>1, <1>3 DEF SessionInv, TypeOK, StatsAddUp, BatchInv
    <2>2. Moved(c)
      BY <1>1, <1>3, <2>1 DEF Moved, SessionInv, TypeOK, QueueInv
    <2>3. /\ waiting \in Seq(Commands) /\ waiting' \in Seq(Commands)
          /\ Len(waiting') = Len(waiting) + 1 /\ waiting'[Len(waiting) + 1] = c
          /\ \A i \in 1 .. Len(waiting) : waiting'[i] = waiting[i]
      BY <1>3, AppendProperties DEF SessionInv, TypeOK
    <2>4. \A i \in 1 .. Len(waiting) : waiting[i] \in Commands \ {c}
      BY <1>1, <2>3 DEF SessionInv, QueueInv
    <2>5. \A i \in 1 .. Len(waiting') : pc'[waiting'[i]] = "queued"
      BY <1>3, <2>3, <2>4 DEF SessionInv, TypeOK, QueueInv
    <2>6. \A i, j \in 1 .. Len(waiting') : waiting'[i] = waiting'[j] => i = j
      BY <2>3, <2>4 DEF SessionInv, QueueInv
    <2>7. QueueInv'
      BY <2>2, <2>5, <2>6 DEF QueueInv, Moved
    <2>8. TypeOK' /\ ClosedIsFinal' /\ FileInv' /\ ResumeKeepsPlace'
      BY <1>1, <2>2, <2>3, CommandFrame
    <2> QED BY <2>2, <2>7, <2>8 DEF SessionInv, Moved
  <1> QED BY <1>2, <1>3 DEF Execute

\* The first that waits gets its permit.
LEMMA WakeInv ==
    ASSUME SessionInv, NEW c \in Commands, Wake(c)
    PROVE  SessionInv'
  <1>1. /\ waiting \in Seq(Commands) /\ waiting # <<>> /\ c = waiting[1]
        /\ waiting' = Tail(waiting) /\ Sends(c) /\ UNCHANGED <<link, executed, file>>
    BY DEF Wake, SessionInv, TypeOK
  <1>2. /\ waiting' \in Seq(Commands) /\ Len(waiting') = Len(waiting) - 1 /\ Len(waiting) \in Nat
        /\ \A i \in 1 .. Len(waiting') : waiting'[i] = waiting[i + 1]
    BY <1>1, HeadTailProperties
  <1>3. pc[c] = "queued"
    BY <1>1 DEF SessionInv, QueueInv
  <1>4. Moved(c)
    BY <1>1, <1>3, SendsLemma
  <1>5. \A i \in 1 .. Len(waiting') : waiting'[i] \in Commands \ {c} /\ pc[waiting'[i]] = "queued"
    BY <1>1, <1>2 DEF SessionInv, QueueInv
  <1>6. \A i, j \in 1 .. Len(waiting') : waiting'[i] = waiting'[j] => i = j
    BY <1>2 DEF SessionInv, QueueInv
  <1>7. QueueInv'
    BY <1>4, <1>5, <1>6 DEF QueueInv, Moved
  <1>8. TypeOK' /\ ClosedIsFinal' /\ FileInv' /\ ResumeKeepsPlace'
    BY <1>1, <1>2, <1>4, CommandFrame
  <1> QED BY <1>4, <1>7, <1>8 DEF SessionInv, Moved

\* A command is cancelled, and leaves the queue: one of its own with its
\* caller, a member of the batch by its group.
LEMMA CancelInv ==
    ASSUME SessionInv, NEW c \in Commands, Cancel(c) \/ Stop(c)
    PROVE  SessionInv'
  <1>0. /\ Leaves(c) /\ pc[c] # "done"
        /\ c \in Members => batch = "quit"
    BY DEF Cancel, Stop, SessionInv, BatchInv
  <1>1. Moved(c)
    BY <1>0, AnswerLemma DEF Leaves
  <1>2. waiting \in Seq(Commands)
    BY DEF SessionInv, TypeOK
  <1>3. CASE UNCHANGED waiting /\ pc[c] # "queued"
    <2>1. QueueInv'
      BY <1>1, <1>3, QueueFrame
    <2>2. TypeOK' /\ ClosedIsFinal' /\ FileInv' /\ ResumeKeepsPlace'
      BY <1>1, <1>2, <1>3, <1>0, CommandFrame DEF Leaves
    <2> QED BY <1>1, <2>1, <2>2 DEF SessionInv, Moved
  <1>4. CASE \E k \in DOMAIN waiting : waiting[k] = c /\ waiting' = RemoveAt(waiting, k)
    <2>1. PICK k \in 1 .. Len(waiting) : waiting[k] = c /\ waiting' = RemoveAt(waiting, k)
      BY <1>2, <1>4
    <2> DEFINE a == SubSeq(waiting, 1, k - 1)
               b == SubSeq(waiting, k + 1, Len(waiting))
    <2>2. /\ a \in Seq(Commands) /\ Len(a) = k - 1
          /\ \A i \in 1 .. k - 1 : a[i] = waiting[i]
      BY <1>2, <2>1, SubSeqProperties
    <2>3. /\ b \in Seq(Commands) /\ Len(b) = Len(waiting) - k
          /\ \A i \in 1 .. Len(waiting) - k : b[i] = waiting[i + k]
      BY <1>2, <2>1, SubSeqProperties
    <2>4. waiting' = a \o b
      BY <2>1 DEF RemoveAt
    <2> HIDE DEF a, b
    <2>5. /\ waiting' \in Seq(Commands) /\ Len(waiting') = Len(waiting) - 1
          /\ \A i \in 1 .. Len(waiting') :
                waiting'[i] = IF i < k THEN waiting[i] ELSE waiting[i + 1]
      <3>1. /\ Len(waiting) \in Nat /\ k \in 1 .. Len(waiting)
            /\ waiting' \in Seq(Commands) /\ Len(waiting') = Len(a) + Len(b)
            /\ \A i \in 1 .. Len(a) + Len(b) :
                  waiting'[i] = IF i <= Len(a) THEN a[i] ELSE b[i - Len(a)]
        <4>1. Len(waiting) \in Nat
          BY <1>2
        <4>2. a \in Seq(Commands) /\ b \in Seq(Commands)
          BY <2>2, <2>3
        <4>3. /\ a \o b \in Seq(Commands) /\ Len(a \o b) = Len(a) + Len(b)
              /\ \A i \in 1 .. Len(a) + Len(b) :
                    (a \o b)[i] = IF i <= Len(a) THEN a[i] ELSE b[i - Len(a)]
          BY <4>2, ConcatProperties
        <4> QED BY <2>1, <2>4, <4>1, <4>3
      <3>2. Len(waiting') = Len(waiting) - 1
        BY <2>2, <2>3, <3>1
      <3>3. ASSUME NEW i \in 1 .. Len(waiting')
            PROVE  waiting'[i] = IF i < k THEN waiting[i] ELSE waiting[i + 1]
        <4>1. CASE i < k
          BY <2>2, <2>3, <3>1, <3>2, <4>1
        <4>2. CASE ~(i < k)
          BY <2>2, <2>3, <3>1, <3>2, <4>2
        <4> QED BY <4>1, <4>2
      <3> QED BY <3>1, <3>2, <3>3
    <2>6. \A i \in 1 .. Len(waiting') : waiting'[i] \in Commands \ {c} /\ pc[waiting'[i]] = "queued"
      BY <1>2, <2>1, <2>5 DEF SessionInv, QueueInv
    <2>7. \A i, j \in 1 .. Len(waiting') : waiting'[i] = waiting'[j] => i = j
      BY <1>2, <2>1, <2>5 DEF SessionInv, QueueInv
    <2>8. QueueInv'
      BY <1>1, <2>6, <2>7 DEF QueueInv, Moved
    <2>9. TypeOK' /\ ClosedIsFinal' /\ FileInv' /\ ResumeKeepsPlace'
      BY <1>1, <2>5, <1>0, CommandFrame DEF Leaves
    <2> QED BY <1>1, <2>8, <2>9 DEF SessionInv, Moved
  <1> QED BY <1>0, <1>3, <1>4 DEF Leaves

\* The caller of the batch is cancelled, or gets the answers of its members.
LEMMA BatchEndInv ==
    ASSUME SessionInv, Quit \/ Join
    PROVE  SessionInv'
  <1>1. /\ UNCHANGED <<link, pc, answer, waiting, executed, errors, file>>
        /\ batch = "open" /\ batch' \in {"quit", "returned"}
        /\ batch' = "returned" => \A c \in Members : pc[c] = "done"
    BY DEF Quit, Join
  <1>2. TypeOK' /\ ClosedIsFinal' /\ FileInv' /\ ResumeKeepsPlace'
    BY <1>1 DEF SessionInv, link, file, TypeOK, ClosedIsFinal, FileInv, ResumeKeepsPlace
  <1>3. QueueInv' /\ StatsAddUp' /\ BatchInv'
    BY <1>1 DEF SessionInv, QueueInv, StatsAddUp, BatchInv
  <1> QED BY <1>2, <1>3 DEF SessionInv

-----------------------------------------------------------------------------
(* Steps of the connection and of the download *)

\* A step that touches no command keeps what is said of them.
LEMMA OtherFrame ==
    ASSUME SessionInv, UNCHANGED commands
    PROVE  QueueInv' /\ StatsAddUp' /\ BatchInv'
  BY DEF SessionInv, commands, QueueInv, StatsAddUp, BatchInv

\* connect and close: what is closed stays without a connection, because
\* neither can come between the other's two steps.
LEMMA LinkInv ==
    ASSUME SessionInv,
           Connect \/ ConnectOk \/ ConnectFails \/ Lose \/ Close \/ CloseEnd
    PROVE  SessionInv'
  <1>1. UNCHANGED <<commands, file>>
    BY DEF Connect, ConnectOk, ConnectFails, Lose, Close, CloseEnd
  <1>2. ClosedIsFinal' /\ closed' \in BOOLEAN /\ conn' \in {"none", "up", "down"}
                       /\ lock' \in {"free", "connect", "close"}
    <2>1. /\ closed \in BOOLEAN /\ conn \in {"none", "up", "down"}
          /\ lock \in {"free", "connect", "close"} /\ ClosedIsFinal
      BY DEF SessionInv, TypeOK
    <2>2. CASE Connect \/ ConnectOk \/ ConnectFails
      BY <2>1, <2>2 DEF ClosedIsFinal, Connect, ConnectOk, ConnectFails
    <2>3. CASE Lose \/ CloseEnd
      BY <2>1, <2>3 DEF ClosedIsFinal, Lose, CloseEnd
    <2>4. CASE Close
      BY <2>1, <2>4 DEF ClosedIsFinal, Close
    <2> QED BY <2>2, <2>3, <2>4
  <1>3. TypeOK' /\ FileInv' /\ ResumeKeepsPlace'
    BY <1>1, <1>2 DEF SessionInv, commands, file, TypeOK, FileInv, ResumeKeepsPlace
  <1> QED BY <1>1, <1>2, <1>3, OtherFrame DEF SessionInv

\* A step of the download keeps what is said of the rest.
LEMMA FileFrame ==
    ASSUME SessionInv, UNCHANGED <<link, commands>>,
           local' \in Seq(1 .. FileSize \cup {Hole}),
           dl' \in {"idle", "stat", "get", "append", "ok"}, resume' \in BOOLEAN,
           size' \in 0 .. FileSize, pos' \in 1 .. FileSize + 1, remote' \in 1 .. FileSize,
           FileInv', ResumeKeepsPlace'
    PROVE  SessionInv'
  <1>1. TypeOK' /\ ClosedIsFinal'
    BY DEF SessionInv, link, commands, TypeOK, ClosedIsFinal
  <1> QED BY <1>1, OtherFrame DEF SessionInv

\* A download begins.
LEMMA DownloadInv ==
    ASSUME SessionInv, Download
    PROVE  SessionInv'
  <1>1. FileInv' /\ ResumeKeepsPlace'
    BY DEF SessionInv, Download, FileInv, ResumeKeepsPlace
  <1> QED BY <1>1, FileFrame, SessionAssumption DEF SessionInv, TypeOK, Download

\* It compares what is there with what there is.
LEMMA StatInv ==
    ASSUME SessionInv, Stat
    PROVE  SessionInv'
  <1> USE SessionAssumption
  <1>1. Len(local) \in Nat /\ remote \in 1 .. FileSize /\ UNCHANGED <<resume, local, remote>>
    BY DEF SessionInv, TypeOK, Stat
  <1>2. size' = remote /\ dl' \in {"get", "ok", "append"}
    BY DEF Stat
  <1>3. dl' = "ok" => resume /\ Len(local) >= remote
    BY <1>1 DEF Stat
  <1>4. dl' = "append" => resume /\ Len(local) < remote /\ pos' = Len(local) + 1
    BY <1>1 DEF Stat
  <1>5. dl' # "append" => pos' = 1
    BY DEF Stat
  <1>6. FileInv'
    BY <1>1, <1>2, <1>4 DEF FileInv
  <1>7. ResumeKeepsPlace'
    BY <1>1, <1>2, <1>3 DEF SessionInv, ResumeKeepsPlace
  <1>8. size' \in 0 .. FileSize /\ pos' \in 1 .. FileSize + 1
    BY <1>1, <1>2, <1>4, <1>5
  <1> QED BY <1>1, <1>2, <1>6, <1>7, <1>8, FileFrame DEF SessionInv, TypeOK, Stat

\* A piece is appended where it belongs, or the file is complete.
LEMMA AppendRestInv ==
    ASSUME SessionInv, AppendRest
    PROVE  SessionInv'
  <1> USE SessionAssumption
  <1>1. /\ dl = "append" /\ resume /\ pos = Len(local) + 1 /\ size <= remote
        /\ UNCHANGED <<resume, size, remote>>
    BY DEF SessionInv, FileInv, AppendRest
  <1>2. /\ local \in Seq(1 .. FileSize \cup {Hole}) /\ Len(local) \in Nat
        /\ pos \in 1 .. FileSize + 1 /\ remote \in 1 .. FileSize /\ size \in 0 .. FileSize
    BY DEF SessionInv, TypeOK
  <1>3. CASE pos <= remote
    <2>1. local' = Append(local, pos) /\ pos' = pos + 1 /\ dl' = dl
      BY <1>3 DEF AppendRest
    <2>2. pos \in 1 .. FileSize \cup {Hole}
      BY <1>2, <1>3
    <2>3. /\ local' \in Seq(1 .. FileSize \cup {Hole}) /\ Len(local') = Len(local) + 1
          /\ \A k \in 1 .. Len(local) : local'[k] = local[k]
          /\ local'[Len(local) + 1] = pos
      BY <1>2, <2>1, <2>2, AppendProperties
    <2>4. FileInv'
      BY <1>1, <1>2, <2>1, <2>3 DEF FileInv
    <2>5. \A k \in DOMAIN local' : local'[k] \in {k, Hole}
      BY <1>1, <1>2, <2>3 DEF SessionInv, ResumeKeepsPlace
    <2>6. ResumeKeepsPlace'
      BY <1>1, <2>1, <2>5 DEF ResumeKeepsPlace
    <2> QED BY <1>1, <1>2, <1>3, <2>1, <2>3, <2>4, <2>6, FileFrame
            DEF SessionInv, TypeOK, AppendRest
  <1>4. CASE ~(pos <= remote)
    <2>1. local' = local /\ pos' = 1 /\ dl' = "ok"
      BY <1>4 DEF AppendRest
    <2>2. FileInv' /\ ResumeKeepsPlace'
      BY <1>1, <1>2, <1>4, <2>1 DEF SessionInv, FileInv, ResumeKeepsPlace
    <2> QED BY <1>1, <1>2, <2>1, <2>2, FileFrame DEF SessionInv, TypeOK, AppendRest
  <1> QED BY <1>3, <1>4

\* The whole file is fetched.
LEMMA GetInv ==
    ASSUME SessionInv, Get
    PROVE  SessionInv'
  <1> USE SessionAssumption
  <1>1. /\ remote \in 1 .. FileSize /\ size \in 0 .. FileSize /\ size <= remote
        /\ local' = [k \in 1 .. remote |-> k] /\ dl' = "ok"
        /\ UNCHANGED <<link, commands, resume, size, pos, remote>>
    BY DEF SessionInv, TypeOK, FileInv, Get
  <1>2. /\ local' \in Seq(1 .. FileSize \cup {Hole}) /\ Len(local') = remote
        /\ \A k \in DOMAIN local' : local'[k] = k
    BY <1>1
  <1>3. FileInv' /\ ResumeKeepsPlace'
    BY <1>1, <1>2 DEF FileInv, ResumeKeepsPlace
  <1> QED BY <1>1, <1>2, <1>3, FileFrame DEF SessionInv, TypeOK

\* It breaks off, and may leave holes, but nothing in a wrong place.
LEMMA DownloadFailsInv ==
    ASSUME SessionInv, DownloadFails
    PROVE  SessionInv'
  <1> USE SessionAssumption
  <1>1. /\ dl' = "idle" /\ resume' = FALSE /\ size' = 0 /\ pos' = 1
        /\ UNCHANGED <<link, commands, remote>> /\ remote \in 1 .. FileSize
    BY DEF DownloadFails, SessionInv, TypeOK
  <1>2. /\ local' \in Seq(1 .. FileSize \cup {Hole})
        /\ \A k \in DOMAIN local' : local'[k] \in {k, Hole}
    <2>1. CASE local' = local
      BY <2>1 DEF SessionInv, TypeOK, ResumeKeepsPlace
    <2>2. CASE \E n \in 0 .. remote : local' \in Torn(n)
      <3>1. PICK n \in 0 .. remote : local' \in Torn(n)
        BY <2>2
      <3>2. /\ n \in Nat /\ local' \in [1 .. n -> 1 .. FileSize \cup {Hole}]
            /\ \A k \in 1 .. n : local'[k] \in {k, Hole}
        BY <1>1, <3>1 DEF Torn
      <3> QED BY <3>2
    <2> QED BY <2>1, <2>2 DEF DownloadFails
  <1>3. FileInv' /\ ResumeKeepsPlace'
    BY <1>1, <1>2 DEF FileInv, ResumeKeepsPlace
  <1>4. size' \in 0 .. FileSize /\ pos' \in 1 .. FileSize + 1 /\ remote' \in 1 .. FileSize
    BY <1>1
  <1>5. UNCHANGED <<link, commands>>
    BY <1>1
  <1> QED BY <1>1, <1>2, <1>3, <1>4, <1>5, FileFrame

\* The remote file grows.
LEMMA GrowInv ==
    ASSUME SessionInv, Grow
    PROVE  SessionInv'
  <1>1. FileInv' /\ ResumeKeepsPlace'
    BY SessionAssumption DEF SessionInv, TypeOK, Grow, FileInv, ResumeKeepsPlace
  <1> QED BY <1>1, FileFrame, SessionAssumption DEF SessionInv, TypeOK, Grow

-----------------------------------------------------------------------------
(* The theorems *)

\* The initial state satisfies the invariant.
LEMMA InitInv ==
    ASSUME Init
    PROVE  SessionInv
  <1> USE SessionAssumption DEF Init
  <1>1. TypeOK
    <2>1. waiting \in Seq(Commands) /\ local \in Seq(1 .. FileSize \cup {Hole})
      BY EmptySeq
    <2>2. remote \in 1 .. FileSize /\ pos \in 1 .. FileSize + 1 /\ size \in 0 .. FileSize
      OBVIOUS
    <2>3. closed \in BOOLEAN /\ resume \in BOOLEAN
      OBVIOUS
    <2>4. /\ pc \in [Commands -> {"new", "queued", "running", "done"}]
          /\ answer \in [Commands -> {"none", "result", "error", "refused", "cancelled"}]
      OBVIOUS
    <2>5. {executed, errors} \subseteq Nat
      OBVIOUS
    <2> QED BY <2>1, <2>2, <2>3, <2>4, <2>5 DEF TypeOK
  <1>2. ClosedIsFinal /\ FileInv /\ ResumeKeepsPlace
    BY DEF ClosedIsFinal, FileInv, ResumeKeepsPlace
  <1>3. QueueInv /\ BatchInv
    <2>1. Len(waiting) = 0 /\ Members \subseteq Commands
      BY DEF Members, Commands
    <2>2. QueueInv
      BY <2>1 DEF QueueInv
    <2>3. BatchInv
      BY <2>1 DEF BatchInv
    <2> QED BY <2>2, <2>3
  <1>4. StatsAddUp
    <2>1. EndedWith("result") = {} /\ EndedWith("error") = {}
      BY DEF EndedWith
    <2> QED BY <2>1, FS_EmptySet DEF StatsAddUp, EndedWith
  <1> QED BY <1>1, <1>2, <1>3, <1>4 DEF SessionInv

\* Every step keeps it.
LEMMA NextInv ==
    ASSUME SessionInv, [Next]_vars
    PROVE  SessionInv'
  <1>1. CASE Connect \/ ConnectOk \/ ConnectFails \/ Lose \/ Close \/ CloseEnd
    BY <1>1, LinkInv
  <1>2. CASE \E c \in Commands : Progress(c) \/ Cancel(c)
    <2>1. PICK c \in Commands : Progress(c) \/ Cancel(c)
      BY <1>2
    <2> QED BY <2>1, ExecuteInv, RefusedInv, WakeInv, ResultInv, FailsInv, CancelInv
            DEF Progress
  <1>3. CASE Quit \/ Join
    BY <1>3, BatchEndInv
  <1>4. CASE Download \/ DownloadStep \/ Grow
    BY <1>4, DownloadInv, StatInv, AppendRestInv, GetInv, DownloadFailsInv, GrowInv
       DEF DownloadStep
  <1>5. CASE UNCHANGED vars
    <2>1. UNCHANGED <<link, commands, file>>
      BY <1>5 DEF vars
    <2> QED BY <2>1, FileFrame
            DEF SessionInv, TypeOK, file, FileInv, ResumeKeepsPlace
  <1> QED BY <1>1, <1>2, <1>3, <1>4, <1>5 DEF Next

\* SessionInv is an invariant of every session (session.py:108-150, 283-348,
\* 405-500).
THEOREM SessionInvariant == Spec => []SessionInv
  BY InitInv, NextInv, PTL DEF Spec

\* The variables have their types.
THEOREM SessionTypes == Spec => []TypeOK
  BY SessionInvariant, PTL DEF SessionInv

\* A session whose close() has ended has no connection and never gets one.
THEOREM ClosedTheorem == Spec => []ClosedIsFinal
  BY SessionInvariant, PTL DEF SessionInv

\* Each command that ran is counted once, in the counter it belongs to.
THEOREM StatsTheorem == Spec => []StatsAddUp
  BY SessionInvariant, PTL DEF SessionInv

\* The group of a batch, which cancels the others when a member ends with what
\* is not captured, never does: a refusal, a timeout, a lost and a closed
\* session are captured.  Only with the caller are members cancelled, and a
\* batch that returns has an answer for each (session.py:325-348).
THEOREM BatchTheorem == Spec => []BatchCaptures
  <1>1. Members \subseteq Commands
    BY SessionAssumption DEF Members, Commands
  <1>2. SessionInv => BatchCaptures
    BY <1>1 DEF SessionInv, TypeOK, QueueInv, BatchInv, BatchCaptures
  <1> QED BY <1>2, SessionInvariant, PTL

\* What is interrupted and resumed is never in the wrong place.
THEOREM ResumeTheorem == Spec => []ResumeKeepsPlace
  BY SessionInvariant, PTL DEF SessionInv
===============================================================================
