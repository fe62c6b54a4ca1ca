---------------------------- MODULE MmStreamProofs ----------------------------
(***************************************************************************)
(* The inductive invariant of MmStream and the theorems that follow from   *)
(* it, for any number of buffers and of consumer threads.                  *)
(***************************************************************************)
EXTENDS MmStream, FiniteSetTheorems, TLAPS

(* The control thread's position determines the stream's state. *)
ActivePcs == {"scan", "condwait", "streamon", "abort", "abortwait", "run",
              "offwait", "off", "release", "join"}

StateOfPc ==
    /\ cpc = "add" => state = "INITED"
    /\ cpc = "down" => state \in {"NOTUSED", "ACQUIRED", "CFG"}
    /\ cpc = "get" => state = "CFG"
    /\ cpc \in {"reg", "regloop", "put"} => state = "BUFFED"
    /\ cpc \in {"start", "unreg"} => state = "REG"
    /\ cpc \in ActivePcs => state = "ACTIVE"

AllIdle == \A t \in Threads : pc[t] = "idle"

(* Outside a running stream the driver fills nothing and the poll thread    *)
(* has no frame in its hands.                                               *)
DriverPhase ==
    /\ streaming => cpc \in {"run", "offwait", "off"}
    /\ cpc \notin {"run", "offwait", "off"} =>
         filled = {} /\ ppc \in {"poll", "notify", "dq"}

(* The command queue is empty unless the stream is active with a callback.  *)
CmdPhase ==
    /\ cpc \notin ActivePcs => cmdQ = Zero
    /\ cpc \in ActivePcs /\ HasCb => cmdActive
    /\ ~HasCb => cmdQ = Zero
    /\ linked => Linkable

(* The consumers have returned what they had before the next start.         *)
ConsumerPhase ==
    /\ cpc \in {"down", "add", "get", "reg"} => tokens = Zero
    /\ cpc \in {"down", "add", "get", "reg", "regloop", "start"} => AllIdle
    /\ cpc = "put" => AllIdle \/ (~reqbufs /\ Kernel = {})

(* mm_stream_reg_buf has dealt with the buffers below its index only.       *)
RegPhase ==
    cpc = "regloop" =>
        /\ regIdx >= 1
        /\ \A b \in Bufs : b >= regIdx => tokens[b] = 0
        /\ \A b \in Kernel : b < regIdx

Phases == DriverPhase /\ CmdPhase /\ ConsumerPhase /\ RegPhase

(* The references somebody holds on b. *)
Held(b) == tokens[b] + cmdQ[b] + PollRefs(b) + Cardinality(Dropping(b))

Counts ==
    \A b \in Bufs : /\ InUse(b) => refcnt[b] = Held(b)
                    /\ cpc = "unreg" => refcnt[b] >= Held(b)

(* Where an unreferenced buffer is: in the driver, with one thread that     *)
(* requeues it, or with the poll thread -- in at most one of these.         *)
Location ==
    /\ kq \cap filled = {}
    /\ \A b \in Kernel : Free(b) /\ Requeuing(b) = {} /\ ~Dequeued(b)
    /\ \A b \in Bufs : Dequeued(b) => Free(b) /\ Requeuing(b) = {}
    /\ cpc # "put" =>
         \A b \in Bufs, t \in Threads :
            t \in Requeuing(b) => Free(b) /\ Requeuing(b) = {t}

Consistent == StateOfPc /\ Phases /\ Counts /\ Location

IInv == TypeOK /\ (~overrun => Consistent)

-----------------------------------------------------------------------------
(* Type correctness.                                                        *)

(* The initial values have their types (mm_stream_t zeroed by memset). *)
THEOREM TypeInit == Init => TypeOK
<1> SUFFICES ASSUME Init PROVE TypeFlags /\ TypeShared /\ TypePoll /\ TypeThreads
  BY DEF TypeOK
<1>1. TypeShared
  BY DEF Init, TypeShared, Zero, States, CtlPcs
<1>2. TypePoll
  BY DEF Init, TypePoll, PollPcs, NoBuf
<1>3. TypeThreads
  BY DEF Init, TypeThreads, Zero, DonePcs, NoBuf
<1>4. TypeFlags
  BY DEF Init, TypeFlags
<1> QED
  BY <1>1, <1>2, <1>3, <1>4

(* Appending a command or taking one keeps the pipe a sequence of commands. *)
LEMMA Appended ==
  ASSUME NEW p \in Seq({"async", "sync"})
  PROVE  /\ Append(p, "async") \in Seq({"async", "sync"})
         /\ Append(p, "sync") \in Seq({"async", "sync"})
         /\ p # <<>> => Tail(p) \in Seq({"async", "sync"})
OBVIOUS

(* Every step keeps the types of the flags. *)
LEMMA FlagsStep ==
  ASSUME TypeFlags, [Next]_vars
  PROVE  TypeFlags'
<1> USE DEF TypeFlags, ctlVars, bufVars, kernVars, pollVars, cmdVars
<1>1. CASE UNCHANGED vars
  BY <1>1 DEF vars
<1>2. CASE AddStream \/ Acquire \/ SetFmt \/ ChannelStart
             \/ StreamonScan \/ StreamonTimeout \/ RegBufDone
  <2>1. UNCHANGED <<alloc, linked, reqbufs, streaming, entry, polled, cmdActive, cmdExit, overrun>>
    BY <1>2 DEF AddStream, Acquire, SetFmt, ChannelStart, StreamonScan, StreamonTimeout, RegBufDone
  <2> QED
    BY <2>1
<1>3. CASE Release \/ GetBuf
  BY <1>3, ZenonT(60) DEF Release, GetBuf
<1>4. CASE RegBuf
  BY <1>4 DEF RegBuf
<1>5. CASE RegBufStep \/ RegBufFail
  BY <1>5, ZenonT(60) DEF RegBufStep, RegQueue, RegHold, RegBufFail, PollAdd
<1>6. CASE Start \/ ReleaseCmd
  BY <1>6, ConstAssumption, ZenonT(60) DEF Start, ReleaseCmd
<1>7. CASE JoinCmd \/ UnregBuf \/ PutBuf
  BY <1>7 DEF JoinCmd, UnregBuf, PutBuf
<1>8. CASE Streamon
  BY <1>8 DEF Streamon
<1>9. CASE StreamonAbort \/ Streamoff1
  BY <1>9 DEF StreamonAbort, Streamoff1, PollDel
<1>10. CASE Streamoff2
  BY <1>10 DEF Streamoff2
<1>11. CASE PollData \/ Notify \/ DqbufEmpty
  BY <1>11 DEF PollData, Notify, DqbufEmpty
<1>12. CASE ProcPipe \/ DqCount
  BY <1>12 DEF ProcPipe, DqCount, PollDel
<1>13. CASE (\E b \in Bufs : Dqbuf(b)) \/ TakeRefs \/ NotifyChannel \/ NotifyLinked \/ NotifyApp
  BY <1>13 DEF Dqbuf, TakeRefs, NotifyChannel, NotifyLinked, NotifyApp
<1>14. CASE LinkStream
  BY <1>14 DEF LinkStream
<1>15. CASE \E b \in Bufs : MapBuf(b) \/ KernelFill(b) \/ DispatchApp(b)
  BY <1>15 DEF MapBuf, KernelFill, DispatchApp
<1>16. CASE \E w \in Workers, b \in Bufs : Qbuf(w, b)
  BY <1>16 DEF Qbuf
<1>17. CASE \E t \in Threads : BufDone(t)
  BY <1>17 DEF BufDone, DoneCheck, DoneDec, QbufCount, QbufIoctl, QbufUndo, DoneMark,
       PollAdd, PollDel
<1> QED
  BY <1>1, <1>2, <1>3, <1>4, <1>5, <1>6, <1>7, <1>17, <1>8, <1>9, <1>10, <1>11, <1>12,
     <1>13, <1>14, <1>15, <1>16
  DEF Next, Control, Poll

(* Every step keeps the types of what control thread and buf_lock own. *)
LEMMA SharedStep ==
  ASSUME TypeOK, [Next]_vars
  PROVE  TypeShared'
<1> USE DEF TypeOK, TypeShared, ctlVars, bufVars, kernVars
<1>1. CASE UNCHANGED vars
  BY <1>1 DEF vars
<1>2. CASE AddStream \/ Acquire \/ SetFmt \/ ChannelStart \/ GetBuf
  BY <1>2 DEF AddStream, Acquire, SetFmt, ChannelStart, GetBuf, States, CtlPcs
<1>3. CASE Release \/ RegBuf \/ UnregBuf \/ PutBuf
  BY <1>3 DEF Release, RegBuf, UnregBuf, PutBuf, States, CtlPcs, Zero
<1>4. CASE RegBufStep
  <2>1. CASE RegQueue(regIdx)
    BY <1>4, <2>1 DEF RegBufStep, RegQueue
  <2>2. CASE RegHold(regIdx)
    BY <1>4, <2>2 DEF RegBufStep, RegHold
  <2> QED
    BY <1>4, <2>1, <2>2 DEF RegBufStep
<1>5. CASE RegBufFail \/ RegBufDone \/ Start \/ StreamonScan \/ StreamonTimeout
  BY <1>5 DEF RegBufFail, RegBufDone, Start, StreamonScan, StreamonTimeout, States, CtlPcs
<1>6. CASE Streamon \/ StreamonAbort \/ Streamoff1 \/ Streamoff2 \/ ReleaseCmd \/ JoinCmd
  BY <1>6 DEF Streamon, StreamonAbort, Streamoff1, Streamoff2, ReleaseCmd, JoinCmd, States, CtlPcs
<1>7. CASE ProcPipe \/ PollData \/ Notify \/ (\E b \in Bufs : Dqbuf(b)) \/ DqbufEmpty
  BY <1>7 DEF ProcPipe, PollData, Notify, Dqbuf, DqbufEmpty, CtlPcs
<1>8. CASE DqCount \/ TakeRefs
  BY <1>8 DEF DqCount, TakeRefs, One
<1>9. CASE NotifyChannel \/ NotifyLinked \/ NotifyApp
  BY <1>9 DEF NotifyChannel, NotifyLinked, NotifyApp, One
<1>10. CASE LinkStream
  BY <1>10 DEF LinkStream
<1>11. ASSUME NEW b \in Bufs, MapBuf(b) \/ KernelFill(b) PROVE TypeShared'
  BY <1>11 DEF MapBuf, KernelFill, CtlPcs
<1>12. ASSUME NEW b \in Bufs, DispatchApp(b) \/ (\E w \in Workers : Qbuf(w, b)) PROVE TypeShared'
  BY <1>12 DEF DispatchApp, Qbuf
<1>13. ASSUME NEW t \in Threads, BufDone(t) PROVE TypeShared'
  <2>1. CASE DoneCheck(t) \/ DoneDec(t)
    BY <2>1 DEF DoneCheck, DoneDec
  <2>2. CASE QbufCount(t) \/ QbufUndo(t)
    BY <2>2 DEF QbufCount, QbufUndo
  <2>3. CASE QbufIoctl(t) \/ DoneMark(t)
    BY <2>3 DEF QbufIoctl, DoneMark, TypeThreads
  <2> QED
    BY <1>13, <2>1, <2>2, <2>3 DEF BufDone
<1> QED
  BY <1>10, <1>1, <1>2, <1>3, <1>4, <1>5, <1>6, <1>7, <1>8, <1>9, <1>11, <1>12, <1>13
  DEF Next, Control, Poll

(* Every step keeps the types of the poll thread: it has a frame when it should. *)
LEMMA PollStep ==
  ASSUME TypePoll, [Next]_vars
  PROVE  TypePoll'
<1> DEFINE Cmds == Seq({"async", "sync"})
<1>1. \/ pipe' = pipe \/ pipe' = Append(pipe, "async") \/ pipe' = Append(pipe, "sync")
      \/ pipe' = pipe \o <<"async", "async">>
      \/ pipe # <<>> /\ pipe' = Tail(pipe)
  <2>1. CASE UNCHANGED vars
    BY <2>1 DEF vars, pollVars
  <2>2. CASE Control
    BY <2>2 DEF Control, AddStream, Acquire, SetFmt, Release,
       ChannelStart, GetBuf, RegBuf, RegBufStep, RegQueue, RegHold, RegBufFail, RegBufDone,
       Start, StreamonScan, StreamonTimeout, Streamon, StreamonAbort, Streamoff1, Streamoff2,
       ReleaseCmd, JoinCmd, UnregBuf, PutBuf, PollAdd, PollDel, pollVars
  <2>3. CASE Poll
    BY <2>3 DEF Poll, ProcPipe, PollData, Notify, Dqbuf, DqbufEmpty, DqCount, TakeRefs,
       NotifyChannel, NotifyLinked, NotifyApp, PollDel
  <2>4. CASE LinkStream \/ (\E b \in Bufs : MapBuf(b) \/ KernelFill(b) \/ DispatchApp(b))
             \/ (\E w \in Workers, b \in Bufs : Qbuf(w, b))
    BY <2>4 DEF LinkStream, MapBuf, KernelFill, DispatchApp, Qbuf, pollVars
  <2>5. CASE \E t \in Threads : BufDone(t)
    BY <2>5 DEF BufDone, DoneCheck, DoneDec, QbufCount, QbufIoctl, QbufUndo, DoneMark,
       PollAdd, PollDel, pollVars
  <2> QED
    BY <2>1, <2>2, <2>3, <2>4, <2>5 DEF Next
<1>2. pipe \o <<"async", "async">> = Append(Append(pipe, "async"), "async")
  BY DEF TypePoll
<1>3. /\ pipe \in Cmds /\ Append(pipe, "async") \in Cmds /\ Append(pipe, "sync") \in Cmds
      /\ Append(Append(pipe, "async"), "async") \in Cmds
      /\ pipe # <<>> => Tail(pipe) \in Cmds
  BY Appended DEF TypePoll
<1>4. pipe' \in Cmds
  BY <1>1, <1>2, <1>3, Zenon
<1>5. ppc' \in PollPcs /\ pbuf' \in Bufs \cup {NoBuf}
        /\ (ppc' \in {"count", "ref", "chan", "link", "enq"} => pbuf' \in Bufs)
  <2> USE DEF TypePoll, PollPcs
  <2>1. CASE UNCHANGED <<ppc, pbuf>>
    BY <2>1
  <2>2. CASE Poll
    BY <2>2 DEF Poll, ProcPipe, PollData, Notify, Dqbuf, DqbufEmpty, DqCount, TakeRefs,
       NotifyChannel, NotifyLinked, NotifyApp
  <2>3. Control => UNCHANGED <<ppc, pbuf>>
    BY DEF Control, AddStream, Acquire, SetFmt, Release,
       ChannelStart, GetBuf, RegBuf, RegBufStep, RegBufFail, RegBufDone,
       Start, StreamonScan, StreamonTimeout, Streamon, StreamonAbort, Streamoff1, Streamoff2,
       ReleaseCmd, JoinCmd, UnregBuf, PutBuf, pollVars
  <2>4. ~Control /\ ~Poll => UNCHANGED <<ppc, pbuf>>
    BY DEF Next, LinkStream, MapBuf, KernelFill, DispatchApp, Qbuf, BufDone, DoneCheck, DoneDec,
       QbufCount, QbufIoctl, QbufUndo, DoneMark, pollVars, vars
  <2> QED
    BY <2>1, <2>2, <2>3, <2>4
<1> QED
  BY <1>4, <1>5 DEF TypePoll

(* Every step keeps the types of the command thread and the consumers. *)
LEMMA ThreadsStep ==
  ASSUME TypeOK, [Next]_vars
  PROVE  TypeThreads'
<1> USE DEF TypeThreads, cmdVars, doneVars, DonePcs
<1>1. TypeThreads
  BY DEF TypeOK
<1>2. CASE UNCHANGED <<cmdQ, tokens, pc, cur>>
  BY <1>1, <1>2
<1>3. CASE RegBufStep
  BY <1>1, <1>3 DEF RegBufStep, RegQueue, RegHold
<1>4. CASE Start
  BY <1>1, <1>4 DEF Start, Zero
<1>5. Control => RegBufStep \/ Start \/ UNCHANGED <<cmdQ, tokens, pc, cur>>
  BY DEF Control, AddStream, Acquire, SetFmt, Release,
       ChannelStart, GetBuf, RegBuf, RegBufFail, RegBufDone,
       StreamonScan, StreamonTimeout, Streamon, StreamonAbort, Streamoff1, Streamoff2,
       ReleaseCmd, JoinCmd, UnregBuf, PutBuf
<1>6. CASE NotifyChannel \/ NotifyLinked \/ NotifyApp
  BY <1>1, <1>6 DEF NotifyChannel, NotifyLinked, NotifyApp, One, TypeOK, TypePoll
<1>7. Poll => NotifyChannel \/ NotifyLinked \/ NotifyApp \/ UNCHANGED <<cmdQ, tokens, pc, cur>>
  BY DEF Poll, ProcPipe, PollData, Notify, Dqbuf, DqbufEmpty, DqCount, TakeRefs
<1>8. ASSUME NEW b \in Bufs, DispatchApp(b) PROVE TypeThreads'
  BY <1>1, <1>8 DEF DispatchApp, Threads
<1>9. ASSUME NEW w \in Workers, NEW b \in Bufs, Qbuf(w, b) PROVE TypeThreads'
  <2>1. w \in Threads /\ cmdQ' = cmdQ
    BY <1>9 DEF Qbuf, Threads
  <2>2. tokens' \in [Bufs -> Nat]
    BY <1>1, <1>9 DEF Qbuf
  <2>3. \/ UNCHANGED <<pc, cur>>
        \/ pc' = [pc EXCEPT ![w] = "check"] /\ cur' = [cur EXCEPT ![w] = b]
    BY <1>9 DEF Qbuf
  <2>4. pc' \in [Threads -> DonePcs] /\ cur' \in [Threads -> Bufs \cup {NoBuf}]
    BY <1>1, <2>1, <2>3
  <2>5. \A t \in Threads : pc'[t] # "idle" => cur'[t] \in Bufs
    BY <1>1, <2>1, <2>3
  <2> QED
    BY <1>1, <2>1, <2>2, <2>4, <2>5
<1>10. ASSUME NEW t \in Threads, BufDone(t) PROVE TypeThreads'
  <2>1. UNCHANGED <<cmdQ, tokens>>
    BY <1>10 DEF BufDone, DoneCheck, DoneDec, QbufCount, QbufIoctl, QbufUndo, DoneMark
  <2>2. \/ UNCHANGED <<pc, cur>>
        \/ pc' = [pc EXCEPT ![t] = "idle"] /\ cur' = [cur EXCEPT ![t] = NoBuf]
        \/ pc[t] # "idle" /\ cur' = cur /\ \E s \in DonePcs : pc' = [pc EXCEPT ![t] = s]
    BY <1>10 DEF BufDone, DoneCheck, DoneDec, QbufCount, QbufIoctl, QbufUndo, DoneMark, Return
  <2>3. pc' \in [Threads -> DonePcs] /\ cur' \in [Threads -> Bufs \cup {NoBuf}]
    BY <1>1, <2>2
  <2>4. \A u \in Threads : pc'[u] # "idle" => cur'[u] \in Bufs
    BY <1>1, <2>2
  <2> QED
    BY <1>1, <2>1, <2>3, <2>4
<1>11. (LinkStream \/ \E b \in Bufs : MapBuf(b) \/ KernelFill(b)) \/ UNCHANGED vars
        => UNCHANGED <<cmdQ, tokens, pc, cur>>
  BY DEF LinkStream, MapBuf, KernelFill, vars
<1> QED
  BY <1>2, <1>3, <1>4, <1>5, <1>6, <1>7, <1>8, <1>9, <1>10, <1>11 DEF Next

(* Every action keeps the types of the variables. *)
THEOREM TypeStep == TypeOK /\ [Next]_vars => TypeOK'
BY FlagsStep, SharedStep, PollStep, ThreadsStep DEF TypeOK

(* Every reachable state is well typed. *)
THEOREM TypeCorrect == Spec => []TypeOK
<1> QED
  BY TypeInit, TypeStep, PTL DEF Spec
-----------------------------------------------------------------------------
(* Consistency of the reference counts with the places where buffers are.   *)

(* The threads are finitely many, so are those that drop a buffer; a buffer *)
(* is free when nobody holds a reference.                                   *)
LEMMA HeldFacts ==
  ASSUME TypeOK, NEW b \in Bufs
  PROVE  /\ IsFiniteSet(Dropping(b))
         /\ tokens[b] \in Nat /\ cmdQ[b] \in Nat /\ refcnt[b] \in Nat
         /\ PollRefs(b) \in Nat
         /\ Cardinality(Dropping(b)) \in Nat
         /\ Cardinality(Dropping(b)) = 0 <=> Dropping(b) = {}
         /\ Held(b) \in Nat
         /\ Free(b) <=> Held(b) = 0
<1>1. IsFiniteSet(Threads)
  BY ConstAssumption, FS_AddElement DEF Threads
<1>2. IsFiniteSet(Dropping(b))
  BY <1>1, FS_Subset DEF Dropping
<1>3. Cardinality(Dropping(b)) \in Nat
  BY <1>2, FS_CardinalityType
<1>4. Cardinality(Dropping(b)) = 0 <=> Dropping(b) = {}
  BY <1>2, FS_EmptySet
<1>5. tokens[b] \in Nat /\ cmdQ[b] \in Nat /\ refcnt[b] \in Nat
  BY DEF TypeOK, TypeThreads, TypeShared
<1>6. PollRefs(b) \in Nat
  BY DEF PollRefs, One
<1>7. Held(b) \in Nat
  BY ONLY <1>3, <1>5, <1>6 DEF Held
<1>8. Held(b) <= 0 <=> (/\ tokens[b] <= 0 /\ cmdQ[b] <= 0 /\ PollRefs(b) <= 0
                        /\ Cardinality(Dropping(b)) <= 0)
  BY ONLY <1>3, <1>5, <1>6 DEF Held
<1>9. /\ Held(b) <= 0 <=> Held(b) = 0
      /\ tokens[b] <= 0 <=> tokens[b] = 0
      /\ cmdQ[b] <= 0 <=> cmdQ[b] = 0
  BY ONLY <1>5, <1>7
<1>10. PollRefs(b) <= 0 <=> PollRefs(b) = 0
  BY ONLY <1>6
<1>11. Cardinality(Dropping(b)) <= 0 <=> Cardinality(Dropping(b)) = 0
  BY ONLY <1>3
<1>12. Free(b) <=> Held(b) = 0
  BY <1>4, <1>8, <1>9, <1>10, <1>11, Zenon DEF Free
<1> QED
  BY <1>2, <1>3, <1>4, <1>5, <1>6, <1>7, <1>12

(* Whoever does not move in mm_stream_buf_done drops and requeues as before. *)
LEMMA SameThreads ==
  ASSUME pc' = pc, cur' = cur, NEW b \in Bufs
  PROVE  Dropping(b)' = Dropping(b) /\ Requeuing(b)' = Requeuing(b)
BY DEF Dropping, Requeuing

(* A step that leaves the poll thread where it is leaves it what it holds. *)
LEMMA SamePoll ==
  ASSUME ppc' = ppc, pbuf' = pbuf, NEW b \in Bufs
  PROVE  PollRefs(b)' = PollRefs(b) /\ (Dequeued(b)' <=> Dequeued(b))
BY DEF PollRefs, Dequeued

(* Between frames the poll thread has nothing in its hands. *)
LEMMA PollEmpty ==
  ASSUME ppc \in {"poll", "notify", "dq"}, NEW b \in Bufs
  PROVE  PollRefs(b) = 0 /\ ~Dequeued(b)
BY DEF PollRefs, Dequeued

(* The same after a step. *)
LEMMA PollEmptyNext ==
  ASSUME ppc' \in {"poll", "notify", "dq"}, NEW b \in Bufs
  PROVE  PollRefs(b)' = 0 /\ ~Dequeued(b)'
BY DEF PollRefs, Dequeued

(* With all threads idle nobody drops or requeues. *)
LEMMA IdleEmpty ==
  ASSUME AllIdle, NEW b \in Bufs
  PROVE  Dropping(b) = {} /\ Requeuing(b) = {}
BY DEF AllIdle, Dropping, Requeuing

(* A step that moves no buffer and no reference, and brings no buffer into  *)
(* use, keeps counts and places consistent.                                 *)
LEMMA QuietStep ==
  ASSUME TypeOK, Counts, Location,
         UNCHANGED <<refcnt, tokens, cmdQ, pc, cur, ppc, pbuf, kq, filled>>,
         cpc = "put" => cpc' = "put",
         \A b \in Bufs : InUse(b)' => InUse(b),
         cpc' = "unreg" => cpc = "unreg" \/ \A b \in Bufs : InUse(b)
  PROVE  Counts' /\ Location'
<1>1. \A b \in Bufs : /\ Dropping(b)' = Dropping(b) /\ Requeuing(b)' = Requeuing(b)
                      /\ PollRefs(b)' = PollRefs(b) /\ (Dequeued(b)' <=> Dequeued(b))
  BY SameThreads, SamePoll
<1>2. \A b \in Bufs : Held(b)' = Held(b) /\ (Free(b)' <=> Free(b))
  BY <1>1 DEF Held, Free
<1>3. Counts'
  <2> SUFFICES ASSUME NEW b \in Bufs
               PROVE  /\ InUse(b)' => refcnt'[b] = Held(b)'
                      /\ cpc' = "unreg" => refcnt'[b] >= Held(b)'
    BY DEF Counts
  <2>1. CASE InUse(b)
    <3>1. refcnt[b] = Held(b) /\ refcnt[b] \in Nat
      BY <2>1, HeldFacts DEF Counts
    <3> QED
      BY <1>2, <3>1
  <2>2. CASE ~InUse(b)
    BY <1>2, <2>2 DEF Counts
  <2> QED
    BY <2>1, <2>2
<1>4. Location'
  <2>1. (kq \cap filled = {})' /\ Kernel' = Kernel /\ Kernel \subseteq Bufs
    BY DEF Location, Kernel, TypeOK, TypeShared
  <2>2. \A b \in Kernel' : (Free(b) /\ Requeuing(b) = {} /\ ~Dequeued(b))'
    BY <1>1, <1>2, <2>1 DEF Location
  <2>3. \A b \in Bufs : Dequeued(b)' => (Free(b) /\ Requeuing(b) = {})'
    BY <1>1, <1>2 DEF Location
  <2>4. cpc' # "put" => \A b \in Bufs, t \in Threads :
            (t \in Requeuing(b))' => (Free(b) /\ Requeuing(b) = {t})'
    BY <1>1, <1>2 DEF Location
  <2> QED
    BY <2>1, <2>2, <2>3, <2>4 DEF Location
<1> QED
  BY <1>3, <1>4

(* The control thread's position determines the state after every step.     *)
LEMMA StateStep ==
  ASSUME TypeOK, StateOfPc, Next
  PROVE  StateOfPc'
<1> USE DEF StateOfPc, ActivePcs
<1>1. CASE UNCHANGED <<state, cpc>>
  BY <1>1
<1>2. CASE AddStream \/ Acquire \/ SetFmt \/ Release \/ ChannelStart \/ GetBuf
  BY <1>2 DEF AddStream, Acquire, SetFmt, Release, ChannelStart, GetBuf
<1>3. CASE RegBuf \/ RegBufStep \/ RegBufFail \/ RegBufDone \/ Start
  BY <1>3 DEF RegBuf, RegBufStep, RegBufFail, RegBufDone, Start
<1>4. CASE StreamonScan \/ StreamonTimeout \/ Streamon \/ StreamonAbort
  BY <1>4 DEF StreamonScan, StreamonTimeout, Streamon, StreamonAbort
<1>5. CASE Streamoff1 \/ Streamoff2 \/ ReleaseCmd \/ JoinCmd \/ UnregBuf \/ PutBuf
  BY <1>5 DEF Streamoff1, Streamoff2, ReleaseCmd, JoinCmd, UnregBuf, PutBuf
<1>6. ASSUME NEW b \in Bufs, MapBuf(b) PROVE StateOfPc'
  BY <1>6 DEF MapBuf
<1>7. CASE ProcPipe
  BY <1>7 DEF ProcPipe
<1>8. Control => \/ AddStream \/ Acquire \/ SetFmt \/ Release \/ ChannelStart \/ GetBuf
                 \/ RegBuf \/ RegBufStep \/ RegBufFail \/ RegBufDone \/ Start
                 \/ StreamonScan \/ StreamonTimeout \/ Streamon \/ StreamonAbort
                 \/ Streamoff1 \/ Streamoff2 \/ ReleaseCmd \/ JoinCmd \/ UnregBuf \/ PutBuf
  BY DEF Control
<1>9. Poll => ProcPipe \/ UNCHANGED <<state, cpc>>
  BY DEF Poll, PollData, Notify, Dqbuf, DqbufEmpty, DqCount, TakeRefs,
         NotifyChannel, NotifyLinked, NotifyApp, ctlVars
<1>10. LinkStream \/ (\E b \in Bufs : KernelFill(b) \/ DispatchApp(b))
         \/ (\E w \in Workers, b \in Bufs : Qbuf(w, b)) \/ (\E t \in Threads : BufDone(t))
         => UNCHANGED <<state, cpc>>
  BY DEF LinkStream, KernelFill, DispatchApp, Qbuf, BufDone, DoneCheck, DoneDec,
         QbufCount, QbufIoctl, QbufUndo, DoneMark, ctlVars
<1> QED
  BY <1>1, <1>2, <1>3, <1>4, <1>5, <1>6, <1>7, <1>8, <1>9, <1>10 DEF Next

(* Every step keeps DriverPhase: what the driver may hold in each phase. *)
LEMMA DriverStep ==
  ASSUME TypeOK, StateOfPc, DriverPhase, Next, ~overrun'
  PROVE  DriverPhase'
<1> USE DEF DriverPhase, StateOfPc, ActivePcs, ctlVars, kernVars, pollVars
<1>1. CASE UNCHANGED <<streaming, cpc, filled, ppc>>
  BY <1>1
<1>2. CASE AddStream \/ Acquire \/ SetFmt \/ Release \/ ChannelStart \/ GetBuf
  BY <1>2 DEF AddStream, Acquire, SetFmt, Release, ChannelStart, GetBuf
<1>3. CASE RegBuf \/ RegBufStep \/ RegBufFail \/ RegBufDone \/ Start
  BY <1>3 DEF RegBuf, RegBufStep, RegBufFail, RegBufDone, Start
<1>4. CASE StreamonScan \/ StreamonTimeout \/ StreamonAbort
  <2>1. /\ cpc \in {"scan", "condwait", "abort"}
        /\ cpc' \in {"streamon", "condwait", "abort", "abortwait", "release"}
    BY <1>4 DEF StreamonScan, StreamonTimeout, StreamonAbort
  <2>2. UNCHANGED <<streaming, filled, ppc>>
    BY <1>4 DEF StreamonScan, StreamonTimeout, StreamonAbort
  <2> QED
    BY <2>1, <2>2
<1>5. CASE Streamon
  BY <1>5 DEF Streamon
<1>6. CASE Streamoff1 \/ ReleaseCmd \/ JoinCmd
  <2>1. \/ cpc = "run" /\ cpc' \in {"offwait", "off"}
        \/ cpc \in {"release", "join"} /\ cpc' \in {"join", "unreg"}
    BY <1>6 DEF Streamoff1, ReleaseCmd, JoinCmd
  <2>2. UNCHANGED <<streaming, filled, ppc>>
    BY <1>6 DEF Streamoff1, ReleaseCmd, JoinCmd
  <2> QED
    BY <2>1, <2>2
<1>7. CASE UnregBuf \/ PutBuf
  BY <1>7 DEF UnregBuf, PutBuf
<1>8. CASE Streamoff2
  BY <1>8 DEF Streamoff2, Notifying, TypeOK, TypePoll, PollPcs
<1>9. CASE Poll
  BY <1>9 DEF Poll, ProcPipe, PollData, Notify, Dqbuf, DqbufEmpty, DqCount,
              TakeRefs, NotifyChannel, NotifyLinked, NotifyApp
<1>10. ASSUME NEW b \in Bufs, MapBuf(b) \/ KernelFill(b) \/ DispatchApp(b)
      PROVE  DriverPhase'
  <2>1. CASE MapBuf(b)
    BY <2>1 DEF MapBuf
  <2>2. CASE KernelFill(b)
    BY <2>2 DEF KernelFill
  <2>3. CASE DispatchApp(b)
    BY <2>3 DEF DispatchApp
  <2> QED
    BY <1>10, <2>1, <2>2, <2>3
<1>11. LinkStream \/ (\E w \in Workers, b \in Bufs : Qbuf(w, b))
        \/ (\E t \in Threads : BufDone(t)) => UNCHANGED <<streaming, cpc, filled, ppc>>
  BY DEF LinkStream, Qbuf, BufDone, DoneCheck, DoneDec, QbufCount, QbufIoctl,
         QbufUndo, DoneMark
<1> QED
  BY <1>1, <1>2, <1>3, <1>4, <1>5, <1>6, <1>7, <1>8, <1>9, <1>10, <1>11 DEF Next, Control

(* Every step keeps CmdPhase: when the command thread can have frames. *)
LEMMA CmdStep ==
  ASSUME TypeOK, StateOfPc, DriverPhase, CmdPhase, Next
  PROVE  CmdPhase'
<1> USE DEF CmdPhase, ActivePcs, ctlVars, bufVars, cmdVars
<1>1. CASE UNCHANGED <<cpc, cmdQ, cmdActive, linked>>
  BY <1>1 DEF Zero
<1>2. CASE AddStream \/ Acquire \/ SetFmt \/ Release \/ ChannelStart \/ GetBuf
  BY <1>2 DEF AddStream, Acquire, SetFmt, Release, ChannelStart, GetBuf, Zero
<1>3. CASE RegBuf \/ RegBufStep \/ RegBufFail \/ RegBufDone
  BY <1>3 DEF RegBuf, RegBufStep, RegBufFail, RegBufDone, Zero
<1>4. CASE Start
  BY <1>4 DEF Start, Zero
<1>5. CASE StreamonScan \/ StreamonTimeout \/ Streamon \/ StreamonAbort
  <2>1. /\ cpc \in {"scan", "condwait", "streamon", "abort"}
        /\ cpc' \in {"streamon", "condwait", "abort", "abortwait", "release", "run"}
    BY <1>5 DEF StreamonScan, StreamonTimeout, Streamon, StreamonAbort
  <2>2. UNCHANGED <<cmdQ, cmdActive, linked>>
    BY <1>5 DEF StreamonScan, StreamonTimeout, Streamon, StreamonAbort
  <2> QED
    BY <2>1, <2>2 DEF Zero
<1>6. CASE Streamoff1 \/ Streamoff2 \/ ReleaseCmd
  <2>1. \/ cpc \in {"run", "off"} /\ cpc' \in {"offwait", "off", "release"}
        \/ cpc = "release" /\ HasCb /\ cpc' = "join"
        \/ cpc = "release" /\ ~HasCb /\ cpc' = "unreg"
    BY <1>6 DEF Streamoff1, Streamoff2, ReleaseCmd
  <2>2. UNCHANGED <<cmdQ, cmdActive, linked>>
    BY <1>6 DEF Streamoff1, Streamoff2, ReleaseCmd
  <2> QED
    BY <2>1, <2>2 DEF Zero
<1>7. CASE JoinCmd
  BY <1>7 DEF JoinCmd, Zero
<1>8. CASE UnregBuf \/ PutBuf
  BY <1>8 DEF  UnregBuf, PutBuf, Zero
<1>9. ASSUME NEW b \in Bufs, MapBuf(b) \/ KernelFill(b) \/ DispatchApp(b)
      PROVE  CmdPhase'
  <2>1. CASE MapBuf(b)
    BY <2>1 DEF MapBuf, Zero
  <2>2. CASE KernelFill(b)
    BY <2>2 DEF KernelFill, Zero
  <2>3. CASE DispatchApp(b)
    BY <2>3 DEF DispatchApp, Zero
  <2> QED
    BY <1>9, <2>1, <2>2, <2>3
<1>10. CASE LinkStream
  BY <1>10 DEF LinkStream, Zero
<1>11. CASE ProcPipe \/ NotifyApp
  BY <1>11 DEF ProcPipe, NotifyApp, DriverPhase, Zero
<1>12. Poll => ProcPipe \/ NotifyApp \/ UNCHANGED <<cpc, cmdQ, cmdActive, linked>>
  BY DEF Poll, PollData, Notify, Dqbuf, DqbufEmpty, DqCount,
         TakeRefs, NotifyChannel, NotifyLinked
<1>13. (\E w \in Workers, b \in Bufs : Qbuf(w, b)) \/ (\E t \in Threads : BufDone(t))
        => UNCHANGED <<cpc, cmdQ, cmdActive, linked>>
  BY DEF Qbuf, BufDone, DoneCheck, DoneDec, QbufCount, QbufIoctl, QbufUndo, DoneMark
<1> QED
  BY <1>1, <1>2, <1>3, <1>4, <1>5, <1>6, <1>7, <1>8, <1>9, <1>10, <1>11, <1>12, <1>13 DEF Next, Control

(* Every step keeps ConsumerPhase: when consumers can have frames. *)
LEMMA ConsumerStep ==
  ASSUME TypeOK, StateOfPc, DriverPhase, CmdPhase, ConsumerPhase, Next
  PROVE  ConsumerPhase'
<1> USE DEF ConsumerPhase, AllIdle, Kernel, ctlVars, kernVars, doneVars
<1>1. CASE UNCHANGED <<cpc, tokens, pc, reqbufs, kq, filled>>
  BY <1>1 DEF Zero
<1>2. CASE AddStream \/ Acquire \/ ChannelStart \/ GetBuf
  BY <1>2 DEF AddStream, Acquire, ChannelStart, GetBuf, Zero
<1>3. CASE Release
  BY <1>3 DEF Release, Zero
<1>4. CASE RegBuf
  BY <1>4 DEF RegBuf
<1>5. CASE RegBufStep
  <2>1. cpc = "regloop" /\ cpc' = "regloop" /\ pc' = pc
    BY <1>5 DEF RegBufStep
  <2> QED
    BY <2>1
<1>6. CASE RegBufFail \/ RegBufDone
  BY <1>6 DEF RegBufFail, RegBufDone, bufVars
<1>7. CASE Start \/ StreamonScan \/ StreamonTimeout \/ Streamon \/ StreamonAbort
             \/ Streamoff1 \/ Streamoff2 \/ ReleaseCmd \/ JoinCmd
  <2>1. cpc' \notin {"down", "add", "get", "reg", "regloop", "start", "put"}
    BY <1>7 DEF Start, StreamonScan, StreamonTimeout, Streamon, StreamonAbort,
                Streamoff1, Streamoff2, ReleaseCmd, JoinCmd
  <2> QED
    BY <2>1
<1>8. CASE UnregBuf
  BY <1>8 DEF UnregBuf
<1>9. CASE PutBuf
  BY <1>9 DEF PutBuf, ConsumersDone, Zero
<1>10. CASE ProcPipe \/ (\E b \in Bufs : MapBuf(b))
  <2>1. /\ cpc' # cpc => /\ cpc \in {"offwait", "abortwait", "condwait"}
                         /\ cpc' \in {"off", "release", "streamon"}
        /\ UNCHANGED <<tokens, pc, reqbufs, kq, filled>>
    BY <1>10 DEF ProcPipe, MapBuf
  <2> QED
    BY <2>1 DEF Zero
<1>11. CASE (\E b \in Bufs : Dqbuf(b) \/ KernelFill(b))
  <2>1. Kernel' \subseteq Kernel /\ UNCHANGED <<cpc, tokens, pc, reqbufs>>
    BY <1>11 DEF Dqbuf, KernelFill
  <2> QED
    BY <2>1 DEF Zero
<1>12. CASE NotifyChannel \/ NotifyLinked
  <2>1. cpc \in {"run", "offwait", "off"} /\ cpc' = cpc
    BY <1>12 DEF NotifyChannel, NotifyLinked, DriverPhase
  <2> QED
    BY <2>1
<1>13. ASSUME NEW b \in Bufs, DispatchApp(b) PROVE ConsumerPhase'
  <2>1. cmdQ # Zero /\ cpc' = cpc
    BY <1>13 DEF DispatchApp, Zero
  <2>2. cpc \in ActivePcs
    BY <2>1 DEF CmdPhase
  <2> QED
    BY <2>1, <2>2 DEF ActivePcs
<1>14. ASSUME NEW w \in Workers, NEW b \in Bufs, Qbuf(w, b) PROVE ConsumerPhase'
  <2>1. tokens # Zero /\ cpc \notin {"regloop", "start"} /\ cpc' = cpc
    BY <1>14 DEF Qbuf, Zero
  <2>2. cpc \notin {"down", "add", "get", "reg", "regloop", "start"}
    BY <2>1
  <2>3. cpc = "put" => state # "ACTIVE"
    BY DEF StateOfPc
  <2>4. cpc = "put" => pc' = pc /\ UNCHANGED <<reqbufs, kq, filled>>
    BY <1>14, <2>3 DEF Qbuf
  <2> QED
    BY <2>1, <2>2, <2>4
<1>15. ASSUME NEW t \in Threads, BufDone(t) PROVE ConsumerPhase'
  <2>1. pc[t] # "idle" /\ cpc' = cpc
    BY <1>15 DEF BufDone, DoneCheck, DoneDec, QbufCount, QbufIoctl, QbufUndo, DoneMark
  <2>2. ~reqbufs => UNCHANGED <<kq, filled, reqbufs>>
    BY <1>15 DEF BufDone, DoneCheck, DoneDec, QbufCount, QbufIoctl, QbufUndo, DoneMark
  <2> QED
    BY <2>1, <2>2
<1>16. (LinkStream \/ SetFmt \/ PollData \/ Notify \/ DqbufEmpty \/ DqCount \/ TakeRefs \/ NotifyApp)
        => UNCHANGED <<cpc, tokens, pc, reqbufs, kq, filled>>
  BY DEF LinkStream, SetFmt, PollData, Notify, DqbufEmpty, DqCount, TakeRefs, NotifyApp
<1> QED
  BY <1>1, <1>2, <1>3, <1>4, <1>5, <1>6, <1>7, <1>8, <1>9, <1>10, <1>11, <1>12,
     <1>13, <1>14, <1>15, <1>16 DEF Next, Control, Poll

(* Every step keeps RegPhase: what mm_stream_reg_buf has set up so far. *)
LEMMA RegStep ==
  ASSUME TypeOK, StateOfPc, DriverPhase, CmdPhase, ConsumerPhase, RegPhase, Next
  PROVE  RegPhase'
<1> USE DEF RegPhase, Kernel, ctlVars, kernVars, doneVars
<1>1. CASE cpc' # "regloop"
  BY <1>1
<1>2. CASE UNCHANGED <<cpc, regIdx, tokens, kq, filled>>
  BY <1>2
<1>3. CASE RegBuf
  BY <1>3 DEF RegBuf, ConsumerPhase, Zero
<1>4. CASE RegBufStep
  <2>1. cpc = "regloop" /\ regIdx \in Bufs /\ regIdx' = regIdx + 1 /\ filled' = filled
    BY <1>4 DEF RegBufStep
  <2>2. tokens' \in [Bufs -> Nat] /\ \A b \in Bufs : b # regIdx => tokens'[b] = tokens[b]
    BY <1>4 DEF RegBufStep, RegQueue, RegHold, TypeOK, TypeThreads
  <2>3. kq' \subseteq kq \cup {regIdx}
    BY <1>4 DEF RegBufStep, RegQueue, RegHold
  <2>4. kq \subseteq Bufs /\ filled \subseteq Bufs
    BY DEF TypeOK, TypeShared
  <2> QED
    BY <2>1, <2>2, <2>3, <2>4 DEF Bufs
<1>5. CASE cpc = "regloop" /\ ~RegBufStep
  <2>1. filled = {} /\ cmdQ = Zero /\ AllIdle /\ ~streaming
    BY <1>5 DEF DriverPhase, CmdPhase, ConsumerPhase, ActivePcs
  <2>2. \A b \in Bufs : ~Dqbuf(b) /\ ~KernelFill(b) /\ ~DispatchApp(b)
    BY <2>1 DEF Dqbuf, KernelFill, DispatchApp, Zero
  <2>3. ~NotifyChannel /\ ~NotifyLinked
    BY <1>5 DEF NotifyChannel, NotifyLinked, DriverPhase
  <2>4. \A t \in Threads : ~BufDone(t)
    BY <2>1 DEF BufDone, DoneCheck, DoneDec, QbufCount, QbufIoctl, QbufUndo,
                DoneMark, AllIdle
  <2>5. \A w \in Workers, b \in Bufs : ~Qbuf(w, b)
    BY <1>5 DEF Qbuf
  <2>6. (\E b \in Bufs : MapBuf(b)) \/ LinkStream \/ Poll => UNCHANGED <<regIdx, tokens, kq, filled>>
    BY <2>2, <2>3 DEF MapBuf, LinkStream, Poll, ProcPipe, PollData, Notify, DqbufEmpty,
                      DqCount, TakeRefs, NotifyApp
  <2>7. Control => cpc' # "regloop"
    BY <1>5 DEF Control, AddStream, Acquire, SetFmt, Release, ChannelStart, GetBuf, RegBuf,
       RegBufFail, RegBufDone, Start, StreamonScan, StreamonTimeout, Streamon,
       StreamonAbort, Streamoff1, Streamoff2, ReleaseCmd, JoinCmd, UnregBuf, PutBuf
  <2> QED
    BY <1>1, <1>5, <2>2, <2>4, <2>5, <2>6, <2>7 DEF Next
<1>6. cpc' = "regloop" => cpc = "regloop" \/ RegBuf
  BY DEF Next, Control, AddStream, Acquire, SetFmt, Release, ChannelStart, GetBuf, RegBufStep,
       RegBufFail, RegBufDone, Start, StreamonScan, StreamonTimeout, Streamon,
       StreamonAbort, Streamoff1, Streamoff2, ReleaseCmd, JoinCmd, UnregBuf, PutBuf,
       Poll, ProcPipe, PollData, Notify, Dqbuf, DqbufEmpty, DqCount, TakeRefs, NotifyChannel,
       NotifyLinked, NotifyApp, LinkStream, MapBuf, KernelFill, DispatchApp, Qbuf,
       BufDone, DoneCheck, DoneDec, QbufCount, QbufIoctl, QbufUndo, DoneMark
<1> QED
  BY <1>1, <1>3, <1>4, <1>5, <1>6

(* A step that disturbs the references and the place of one buffer only is  *)
(* judged by that buffer alone.                                             *)
LEMMA OneBufferStep ==
  ASSUME TypeOK, Counts, Location, cpc' = cpc, regIdx' = regIdx, NEW b \in Bufs,
         \A c \in Bufs \ {b} :
            /\ refcnt'[c] = refcnt[c] /\ Held(c)' = Held(c) /\ (Free(c)' <=> Free(c))
            /\ Requeuing(c)' = Requeuing(c) /\ (Dequeued(c)' <=> Dequeued(c))
            /\ c \in Kernel' => c \in Kernel,
         Kernel' \subseteq Bufs, (kq \cap filled)' = {},
         InUse(b) => refcnt'[b] = Held(b)',
         cpc = "unreg" => refcnt'[b] >= Held(b)',
         b \in Kernel' => Free(b)' /\ Requeuing(b)' = {} /\ ~Dequeued(b)',
         Dequeued(b)' => Free(b)' /\ Requeuing(b)' = {},
         cpc # "put" => \A t \in Threads :
            t \in Requeuing(b)' => Free(b)' /\ Requeuing(b)' = {t}
  PROVE  Counts' /\ Location'
<1>1. ASSUME NEW c \in Bufs
      PROVE  /\ InUse(c)' => refcnt'[c] = Held(c)'
             /\ cpc' = "unreg" => refcnt'[c] >= Held(c)'
  <2>1. InUse(c)' <=> InUse(c)
    BY DEF InUse
  <2>2. CASE c = b
    BY <2>1, <2>2
  <2>3. CASE c # b
    BY <2>1, <2>3 DEF Counts
  <2> QED
    BY <2>2, <2>3
<1>2. Counts'
  BY <1>1 DEF Counts
<1>3. \A c \in Kernel' : Free(c)' /\ Requeuing(c)' = {} /\ ~Dequeued(c)'
  BY DEF Location
<1>4. \A c \in Bufs : Dequeued(c)' => Free(c)' /\ Requeuing(c)' = {}
  BY DEF Location
<1>5. cpc' # "put" => \A c \in Bufs, t \in Threads :
            t \in Requeuing(c)' => Free(c)' /\ Requeuing(c)' = {t}
  BY DEF Location
<1> QED
  BY <1>2, <1>3, <1>4, <1>5 DEF Location

(* Steps that move nothing. *)
LEMMA QuietActions ==
  ASSUME TypeOK, Consistent, ~overrun',
         \/ AddStream \/ Acquire \/ SetFmt \/ ChannelStart \/ GetBuf \/ RegBufFail
         \/ RegBufDone \/ Start \/ StreamonScan \/ StreamonTimeout \/ Streamon
         \/ StreamonAbort \/ Streamoff1 \/ ReleaseCmd \/ JoinCmd
         \/ ProcPipe \/ LinkStream \/ (\E b \in Bufs : MapBuf(b))
  PROVE  Counts' /\ Location'
<1> USE DEF Consistent, Phases
<1>1. UNCHANGED <<refcnt, tokens, pc, cur, ppc, pbuf, kq, filled>>
  BY DEF AddStream, Acquire, SetFmt, ChannelStart, GetBuf, RegBufFail, RegBufDone,
         Start, StreamonScan, StreamonTimeout, Streamon, StreamonAbort, Streamoff1,
         ReleaseCmd, JoinCmd, ProcPipe, LinkStream, MapBuf, bufVars, kernVars,
         pollVars, doneVars
<1>2. cmdQ' = cmdQ
  <2>1. CASE Start
    BY <2>1 DEF Start, CmdPhase, ActivePcs
  <2> QED
    BY <2>1 DEF AddStream, Acquire, SetFmt, ChannelStart, GetBuf, RegBufFail, RegBufDone,
         StreamonScan, StreamonTimeout, Streamon, StreamonAbort, Streamoff1,
         ReleaseCmd, JoinCmd, ProcPipe, LinkStream, MapBuf, cmdVars
<1>3. \A b \in Bufs : InUse(b)' => InUse(b)
  <2>1. CASE RegBufDone
    <3>1. cpc = "regloop" /\ regIdx \in Nat /\ regIdx >= 1 /\ regIdx \notin Bufs
      BY <2>1 DEF RegBufDone, RegPhase, TypeOK, TypeShared
    <3>2. \A b \in Bufs : b < regIdx
      BY <3>1, ConstAssumption DEF Bufs
    <3> QED
      BY <3>1, <3>2 DEF InUse
  <2> QED
    BY <2>1 DEF InUse, AddStream, Acquire, SetFmt, ChannelStart, GetBuf, RegBufFail,
         Start, StreamonScan, StreamonTimeout, Streamon, StreamonAbort, Streamoff1,
         ReleaseCmd, JoinCmd, ProcPipe, LinkStream, MapBuf, ctlVars
<1>4. /\ cpc = "put" => cpc' = "put"
      /\ cpc' = "unreg" => cpc \in {"unreg", "release", "join"}
  BY DEF AddStream, Acquire, SetFmt, ChannelStart, GetBuf, RegBufFail, RegBufDone,
         Start, StreamonScan, StreamonTimeout, Streamon, StreamonAbort, Streamoff1,
         ReleaseCmd, JoinCmd, ProcPipe, LinkStream, MapBuf, ctlVars
<1>5. cpc' = "unreg" => cpc = "unreg" \/ \A b \in Bufs : InUse(b)
  BY <1>4 DEF InUse
<1> QED
  BY <1>1, <1>2, <1>3, <1>4, <1>5, QuietStep

(* Steps of the control thread that empty the driver or reset the counts.   *)
LEMMA ResetActions ==
  ASSUME TypeOK, Consistent, ~overrun',
         Release \/ RegBuf \/ Streamoff2 \/ UnregBuf \/ PutBuf
  PROVE  Counts' /\ Location'
<1> USE DEF Consistent, Phases
<1>1. /\ UNCHANGED <<tokens, cmdQ, pc, cur, ppc, pbuf>>
      /\ Kernel' \subseteq Kernel /\ (kq \cap filled)' = {}
  BY DEF Release, RegBuf, Streamoff2, UnregBuf, PutBuf, bufVars, kernVars, pollVars,
         cmdVars, doneVars, Kernel, Location
<1>2. \A b \in Bufs : /\ Dropping(b)' = Dropping(b) /\ Requeuing(b)' = Requeuing(b)
                      /\ PollRefs(b)' = PollRefs(b) /\ (Dequeued(b)' <=> Dequeued(b))
  BY <1>1, SameThreads, SamePoll
<1>3. \A b \in Bufs : Held(b)' = Held(b) /\ (Free(b)' <=> Free(b))
  BY <1>1, <1>2 DEF Held, Free
<1>4. Counts'
  <2>1. CASE Streamoff2
    <3>1. UNCHANGED refcnt /\ cpc' # "unreg" /\ \A b \in Bufs : InUse(b)
      BY <2>1 DEF Streamoff2, bufVars, InUse
    <3>2. \A b \in Bufs : refcnt'[b] = Held(b)'
      BY <3>1, <1>3 DEF Counts
    <3> QED
      BY <3>1, <3>2 DEF Counts
  <2>2. CASE ~Streamoff2
    <3>1. cpc' # "unreg" /\ \A b \in Bufs : ~InUse(b)'
      BY <2>2 DEF Release, RegBuf, UnregBuf, PutBuf, InUse, Bufs
    <3> QED
      BY <3>1 DEF Counts
  <2> QED
    BY <2>1, <2>2
<1>5. cpc' # "put" => cpc # "put" \/ AllIdle
  BY DEF Release, RegBuf, Streamoff2, UnregBuf, PutBuf, ConsumersDone, AllIdle
<1>6. cpc' # "put" => \A b \in Bufs, t \in Threads :
            t \in Requeuing(b)' => Free(b)' /\ Requeuing(b)' = {t}
  <2>1. CASE AllIdle
    BY <2>1, <1>2, IdleEmpty
  <2>2. CASE ~AllIdle
    BY <2>2, <1>2, <1>3, <1>5 DEF Location
  <2> QED
    BY <2>1, <2>2
<1>7. \A b \in Kernel' : Free(b)' /\ Requeuing(b)' = {} /\ ~Dequeued(b)'
  <2>1. Kernel \subseteq Bufs
    BY DEF Kernel, TypeOK, TypeShared
  <2> QED
    BY <2>1, <1>1, <1>2, <1>3 DEF Location
<1>8. \A b \in Bufs : Dequeued(b)' => Free(b)' /\ Requeuing(b)' = {}
  BY <1>2, <1>3 DEF Location
<1> QED
  BY <1>1, <1>4, <1>6, <1>7, <1>8 DEF Location

(* One buffer of mm_stream_reg_buf: it is queued, or starts with the HAL.   *)
LEMMA RegBufStepKeeps ==
  ASSUME TypeOK, Consistent, RegBufStep
  PROVE  Counts' /\ Location'
<1> USE DEF Consistent, Phases
<1>1. /\ cpc = "regloop" /\ cpc' = "regloop" /\ regIdx \in Bufs /\ regIdx' = regIdx + 1
      /\ UNCHANGED <<cmdQ, pc, cur, ppc, pbuf, filled>>
  BY DEF RegBufStep, cmdVars
<1>2. /\ filled = {} /\ cmdQ = Zero /\ AllIdle /\ ppc \in {"poll", "notify", "dq"}
      /\ tokens[regIdx] = 0 /\ regIdx \notin Kernel
  BY <1>1 DEF DriverPhase, CmdPhase, ConsumerPhase, RegPhase, ActivePcs, Bufs
<1>3. \A b \in Bufs : /\ Dropping(b) = {} /\ Requeuing(b) = {}
                      /\ PollRefs(b) = 0 /\ ~Dequeued(b)
  BY <1>2, IdleEmpty, PollEmpty
<1>4. \A b \in Bufs : /\ Dropping(b)' = {} /\ Requeuing(b)' = {}
                      /\ PollRefs(b)' = 0 /\ ~Dequeued(b)'
  BY <1>1, <1>3, SameThreads, SamePoll
<1>5. \A b \in Bufs : Held(b) = tokens[b] /\ Held(b)' = tokens'[b]
  <2>1. Cardinality({}) = 0
    BY FS_EmptySet
  <2>2. \A b \in Bufs : tokens[b] \in Nat /\ tokens'[b] \in Nat /\ cmdQ[b] = 0
    BY <1>2, RegBufStep DEF TypeOK, TypeThreads, Zero, RegBufStep, RegQueue, RegHold
  <2> QED
    BY <1>1, <1>3, <1>4, <2>1, <2>2 DEF Held
<1>6. \A b \in Bufs : Free(b)' <=> tokens'[b] = 0
  BY <1>1, <1>2, <1>4 DEF Free, Zero
<1>7. \A b \in Bufs : Free(b) <=> tokens[b] = 0
  BY <1>2, <1>3 DEF Free, Zero
<1>8. \A c \in Bufs : c # regIdx => refcnt'[c] = refcnt[c] /\ tokens'[c] = tokens[c]
  BY DEF RegBufStep, RegQueue, RegHold, TypeOK, TypeShared, TypeThreads
<1>9. \A c \in Bufs : InUse(c)' => c = regIdx \/ InUse(c)
  BY <1>1 DEF InUse, Bufs
<1>10. CASE RegQueue(regIdx)
  <2>1. kq' = kq \cup {regIdx} /\ refcnt'[regIdx] = 0 /\ tokens' = tokens
    BY <1>1, <1>10 DEF RegQueue, TypeOK, TypeShared
  <2>2. Counts'
    BY <1>1, <1>2, <1>5, <1>8, <1>9, <2>1 DEF Counts
  <2>3. \A c \in Kernel' : Free(c)' /\ Requeuing(c)' = {} /\ ~Dequeued(c)'
    <3>1. \A c \in Kernel' : c \in Bufs /\ (c = regIdx \/ c \in Kernel)
      BY <1>1, <2>1 DEF Kernel, TypeOK, TypeShared
    <3> QED
      BY <3>1, <1>2, <1>4, <1>6, <1>7, <2>1 DEF Location
  <2>4. (kq \cap filled)' = {}
    BY <1>1, <1>2
  <2> QED
    BY <1>4, <2>2, <2>3, <2>4 DEF Location
<1>11. CASE RegHold(regIdx)
  <2>1. kq' = kq /\ refcnt'[regIdx] = 1 /\ tokens'[regIdx] = 1
    BY <1>1, <1>2, <1>11 DEF RegHold, TypeOK, TypeShared, TypeThreads, RegBufStep
  <2>2. Counts'
    BY <1>1, <1>5, <1>8, <1>9, <2>1 DEF Counts
  <2>3. \A c \in Kernel' : Free(c)' /\ Requeuing(c)' = {} /\ ~Dequeued(c)'
    <3>1. \A c \in Kernel' : c \in Bufs /\ c \in Kernel /\ c # regIdx
      BY <1>1, <1>2, <2>1 DEF Kernel, TypeOK, TypeShared
    <3> QED
      BY <3>1, <1>4, <1>6, <1>7, <1>8 DEF Location
  <2>4. (kq \cap filled)' = {}
    BY <1>1, <1>2
  <2> QED
    BY <1>4, <2>2, <2>3, <2>4 DEF Location
<1> QED
  BY <1>10, <1>11 DEF RegBufStep

(* The poll thread looks at the descriptor and finds nothing to take.       *)
LEMMA PollNothing ==
  ASSUME TypeOK, Consistent, PollData \/ Notify \/ DqbufEmpty
  PROVE  Counts' /\ Location'
<1> USE DEF Consistent
<1>1. /\ ppc \in {"poll", "notify", "dq"} /\ ppc' \in {"poll", "notify", "dq"}
      /\ UNCHANGED <<cpc, regIdx, refcnt, tokens, cmdQ, pc, cur, kq, filled>>
  BY DEF PollData, Notify, DqbufEmpty, ctlVars, bufVars, kernVars, cmdVars, doneVars
<1>2. \A b \in Bufs : /\ Dropping(b)' = Dropping(b) /\ Requeuing(b)' = Requeuing(b)
                      /\ PollRefs(b)' = PollRefs(b) /\ (Dequeued(b)' <=> Dequeued(b))
  BY <1>1, SameThreads, PollEmpty, PollEmptyNext
<1>3. \A b \in Bufs : Held(b)' = Held(b) /\ (Free(b)' <=> Free(b))
  BY <1>1, <1>2 DEF Held, Free
<1>4. \A b \in Bufs : InUse(b)' <=> InUse(b)
  BY <1>1 DEF InUse
<1>5. Counts'
  BY <1>1, <1>3, <1>4 DEF Counts
<1>6. (kq \cap filled = {})' /\ Kernel' = Kernel /\ Kernel \subseteq Bufs
  BY <1>1 DEF Location, Kernel, TypeOK, TypeShared
<1>7. \A b \in Kernel' : Free(b)' /\ Requeuing(b)' = {} /\ ~Dequeued(b)'
  BY <1>2, <1>3, <1>6 DEF Location
<1>8. \A b \in Bufs : Dequeued(b)' => Free(b)' /\ Requeuing(b)' = {}
  BY <1>2, <1>3 DEF Location
<1>9. cpc' # "put" => \A b \in Bufs, t \in Threads :
            t \in Requeuing(b)' => Free(b)' /\ Requeuing(b)' = {t}
  BY <1>1, <1>2, <1>3 DEF Location
<1> QED
  BY <1>5, <1>6, <1>7, <1>8, <1>9 DEF Location

(* The driver fills a buffer, or the poll thread takes one out of it.       *)
LEMMA KernelFillKeeps ==
  ASSUME TypeOK, Consistent, NEW b \in Bufs, KernelFill(b)
  PROVE  Counts' /\ Location'
<1> USE DEF Consistent
<1>1. /\ UNCHANGED <<cpc, regIdx, refcnt, tokens, cmdQ, pc, cur, ppc, pbuf>>
      /\ Kernel' = Kernel /\ (kq \cap filled)' = {}
  BY DEF KernelFill, ctlVars, bufVars, pollVars, cmdVars, doneVars, Kernel, Location
<1>2. \A c \in Bufs : /\ Dropping(c)' = Dropping(c) /\ Requeuing(c)' = Requeuing(c)
                      /\ PollRefs(c)' = PollRefs(c) /\ (Dequeued(c)' <=> Dequeued(c))
  BY <1>1, SameThreads, SamePoll
<1>3. \A c \in Bufs : Held(c)' = Held(c) /\ (Free(c)' <=> Free(c))
  BY <1>1, <1>2 DEF Held, Free
<1>4. \A c \in Bufs : InUse(c)' <=> InUse(c)
  BY <1>1 DEF InUse
<1>5. Counts'
  BY <1>1, <1>3, <1>4 DEF Counts
<1>6. \A c \in Kernel' : Free(c)' /\ Requeuing(c)' = {} /\ ~Dequeued(c)'
  BY <1>1, <1>2, <1>3 DEF Location, Kernel, TypeOK, TypeShared
<1> QED
  BY <1>1, <1>2, <1>3, <1>5, <1>6 DEF Location

(* VIDIOC_DQBUF moves a buffer from the driver to the poll thread. *)
LEMMA DqbufKeeps ==
  ASSUME TypeOK, Consistent, NEW b \in Bufs, Dqbuf(b)
  PROVE  Counts' /\ Location'
<1> USE DEF Consistent
<1>1. /\ ppc = "dq" /\ ppc' = "count" /\ pbuf' = b /\ b \in filled
      /\ filled' = filled \ {b} /\ kq' = kq
      /\ UNCHANGED <<cpc, regIdx, refcnt, tokens, cmdQ, pc, cur>>
  BY DEF Dqbuf, ctlVars, bufVars, cmdVars, doneVars
<1>2. \A c \in Bufs : /\ Dropping(c)' = Dropping(c) /\ Requeuing(c)' = Requeuing(c)
                      /\ PollRefs(c) = 0 /\ PollRefs(c)' = 0
                      /\ ~Dequeued(c) /\ (Dequeued(c)' <=> c = b)
  BY <1>1, SameThreads, PollEmpty DEF PollRefs, Dequeued
<1>3. \A c \in Bufs : Held(c)' = Held(c) /\ (Free(c)' <=> Free(c))
  BY <1>1, <1>2 DEF Held, Free
<1>4. b \in Kernel /\ Free(b) /\ Requeuing(b) = {} /\ kq \cap filled = {}
  BY <1>1 DEF Location, Kernel
<1>5. Kernel' \subseteq Bufs /\ b \notin Kernel' /\ Kernel' \subseteq Kernel
  BY <1>1, <1>4 DEF Kernel, TypeOK, TypeShared
<1>6. (kq \cap filled)' = {}
  BY <1>1, <1>4
<1>7. InUse(b) => refcnt'[b] = Held(b)'
  BY <1>1, <1>3 DEF Counts
<1>8. cpc = "unreg" => refcnt'[b] >= Held(b)'
  BY <1>1, <1>3 DEF Counts
<1> QED
  BY <1>1, <1>2, <1>3, <1>4, <1>5, <1>6, <1>7, <1>8, OneBufferStep

(* The rest of the poll thread's work concerns the frame it has dequeued.   *)
LEMMA PollFrameKeeps ==
  ASSUME TypeOK, Consistent, DqCount \/ TakeRefs \/ NotifyChannel \/ NotifyLinked \/ NotifyApp
  PROVE  Counts' /\ Location'
<1> USE DEF Consistent, Phases
<1>1. PICK p \in Bufs : p = pbuf
  BY DEF DqCount, TakeRefs, NotifyChannel, NotifyLinked, NotifyApp, TypeOK, TypePoll
<1>2. /\ p \in Bufs /\ p = pbuf /\ ppc \in {"count", "ref", "chan", "link", "enq"}
      /\ pbuf' \in {p, NoBuf}
      /\ UNCHANGED <<cpc, regIdx, pc, cur, kq, filled>>
  BY <1>1 DEF DqCount, TakeRefs, NotifyChannel, NotifyLinked, NotifyApp,
         ctlVars, kernVars, doneVars, bufVars, cmdVars
<1>3. cpc \in {"run", "offwait", "off"} /\ InUse(p)
  BY <1>2 DEF DriverPhase, InUse
<1>4. \A c \in Bufs : Dropping(c)' = Dropping(c) /\ Requeuing(c)' = Requeuing(c)
  BY <1>2, SameThreads
<1>5. \A c \in Bufs \ {p} : /\ PollRefs(c)' = PollRefs(c)
                            /\ (Dequeued(c)' <=> Dequeued(c))
  BY <1>2 DEF PollRefs, Dequeued, NoBuf, Bufs
<1>6. \A c \in Bufs \ {p} : refcnt'[c] = refcnt[c] /\ tokens'[c] = tokens[c]
                              /\ cmdQ'[c] = cmdQ[c]
  BY <1>2 DEF DqCount, TakeRefs, NotifyChannel, NotifyLinked, NotifyApp, TypeOK,
              TypeShared, TypeThreads, bufVars, cmdVars, doneVars
<1>7. \A c \in Bufs \ {p} : Held(c)' = Held(c) /\ (Free(c)' <=> Free(c))
  BY <1>4, <1>5, <1>6 DEF Held, Free
<1>8. /\ Kernel' = Kernel /\ Kernel \subseteq Bufs /\ (kq \cap filled)' = {}
      /\ Requeuing(p)' = Requeuing(p)
  <2>1. kq \cap filled = {}
    BY DEF Location
  <2>2. kq \subseteq Bufs /\ filled \subseteq Bufs
    BY DEF TypeOK, TypeShared
  <2> QED
    BY <1>2, <1>4, <2>1, <2>2 DEF Kernel
<1>9. /\ refcnt[p] = Held(p) /\ refcnt[p] \in Nat /\ tokens[p] \in Nat /\ cmdQ[p] \in Nat
      /\ Cardinality(Dropping(p)) \in Nat
  BY <1>2, <1>3, HeldFacts DEF Counts
<1>10. \/ p \notin Kernel /\ Requeuing(p) = {}
      \/ /\ refcnt'[p] = refcnt[p] /\ tokens'[p] = tokens[p] /\ cmdQ'[p] = cmdQ[p]
         /\ PollRefs(p)' = PollRefs(p)
         /\ ~Dequeued(p) /\ ~Dequeued(p)'
  <2>1. CASE Dequeued(p)
    BY <1>2, <2>1, <1>8 DEF Location
  <2>2. CASE PollRefs(p) # 0
    <3>1. ~Free(p)
      BY <2>2 DEF Free
    <3>2. cpc # "put"
      BY <1>3
    <3> QED
      BY <1>2, <1>8, <3>1, <3>2 DEF Location, Requeuing
  <2>3. CASE ~Dequeued(p) /\ PollRefs(p) = 0
    <3>1. /\ ~HasCb /\ ppc \in {"link", "enq"}
          /\ ppc = "link" => Bundled
      BY <1>2, <2>3, ConstAssumption DEF Dequeued, PollRefs, One
    <3>2. ppc = "link" => ~linked
      BY <3>1, LinkAssumption DEF CmdPhase
    <3>3. UNCHANGED cmdQ
      BY <3>1 DEF NotifyLinked, NotifyApp, cmdVars, DqCount, TakeRefs, NotifyChannel
    <3>4. refcnt'[p] = refcnt[p] /\ tokens'[p] = tokens[p]
      <4>1. CASE ppc = "link"
        <5>1. One(linked) = 0 /\ NotifyLinked
          BY <4>1, <3>2 DEF NotifyLinked, NotifyApp, DqCount, TakeRefs, NotifyChannel, One
        <5>2. refcnt'[p] = refcnt[p] + 0 /\ tokens'[p] = tokens[p] + 0
          BY <5>1, <1>2 DEF NotifyLinked, TypeOK, TypeShared, TypeThreads
        <5> QED
          BY <5>2, <1>9
      <4>2. CASE ppc = "enq"
        BY <4>2, <1>2 DEF NotifyLinked, NotifyApp, DqCount, TakeRefs, NotifyChannel,
                    bufVars, doneVars
      <4> QED
        BY <3>1, <4>1, <4>2
    <3>5. ppc' \in {"enq", "poll"}
      BY <3>1 DEF NotifyLinked, NotifyApp, DqCount, TakeRefs, NotifyChannel
    <3>6. PollRefs(p)' = 0 /\ ~Dequeued(p)'
      BY <3>1, <3>5 DEF PollRefs, Dequeued, One
    <3> QED
      BY <2>3, <3>3, <3>4, <3>6
  <2> QED
    BY <2>1, <2>2, <2>3
<1>11. refcnt'[p] = Held(p)' /\ (Dequeued(p)' => Free(p)')
  <2> DEFINE B == One(Bundled)
             C == One(HasCb)
             L == One(linked)
             d == Cardinality(Dropping(p))
  <2>1. B \in Nat /\ C \in Nat /\ L \in Nat /\ d \in Nat
    BY <1>9 DEF One
  <2>2. /\ refcnt[p] = tokens[p] + cmdQ[p] + PollRefs(p) + d
        /\ Held(p)' = tokens'[p] + cmdQ'[p] + PollRefs(p)' + d
    BY <1>2, <1>4, <1>9 DEF Held
  <2>3. CASE DqCount
    <3>1. UNCHANGED <<refcnt, tokens, cmdQ>> /\ ppc = "count" /\ ppc' \in {"ref", "poll"}
      BY <2>3 DEF DqCount, cmdVars, doneVars
    <3>2. PollRefs(p) = 0 /\ PollRefs(p)' = 0 /\ Dequeued(p)
      BY <1>2, <3>1 DEF PollRefs, Dequeued, NoBuf, Bufs
    <3>3. Free(p)
      BY <3>2 DEF Location
    <3>4. Free(p)'
      BY <1>4, <3>1, <3>2, <3>3 DEF Free
    <3> QED
      BY <1>9, <2>1, <2>2, <3>1, <3>2, <3>4
  <2>4. CASE TakeRefs
    <3>1. /\ UNCHANGED <<tokens, cmdQ, pbuf>> /\ ppc = "ref" /\ ppc' = "chan"
          /\ refcnt'[p] = refcnt[p] + B + C
      BY <2>4, <1>2 DEF TakeRefs, cmdVars, doneVars, TypeOK, TypeShared
    <3>2. PollRefs(p) = 0 /\ PollRefs(p)' = B + C /\ Dequeued(p)
      BY <1>2, <3>1 DEF PollRefs, Dequeued, NoBuf, Bufs
    <3>3. Dequeued(p)' => PollRefs(p)' = 0
      BY <3>1, <3>2 DEF Dequeued, One
    <3>4. Free(p)
      BY <1>2, <3>2 DEF Location
    <3>5. Dequeued(p)' => Free(p)'
      BY <1>2, <1>4, <3>1, <3>3, <3>4 DEF Free
    <3>6. refcnt'[p] = Held(p)'
      BY <1>9, <2>1, <2>2, <3>1, <3>2
    <3> QED
      BY <3>5, <3>6
  <2>5. CASE NotifyChannel
    <3>1. /\ UNCHANGED <<refcnt, cmdQ, pbuf>> /\ ppc = "chan" /\ ppc' = "link"
          /\ tokens'[p] = tokens[p] + B
      BY <2>5, <1>2 DEF NotifyChannel, cmdVars, bufVars, TypeOK, TypeThreads
    <3>2. PollRefs(p) = B + C /\ PollRefs(p)' = C
      BY <1>2, <3>1 DEF PollRefs
    <3>3. Dequeued(p)' => Dequeued(p) /\ B = 0 /\ C = 0
      BY <3>1 DEF Dequeued, One
    <3>4. Dequeued(p)' => Free(p)'
      BY <1>2, <1>4, <1>9, <3>1, <3>2, <3>3 DEF Free, Location
    <3>5. refcnt'[p] = Held(p)'
      BY <1>9, <2>1, <2>2, <3>1, <3>2
    <3> QED
      BY <3>4, <3>5
  <2>6. CASE NotifyLinked
    <3>1. /\ UNCHANGED <<cmdQ, pbuf>> /\ ppc = "link" /\ ppc' = "enq"
          /\ tokens'[p] = tokens[p] + L /\ refcnt'[p] = refcnt[p] + L
      BY <2>6, <1>2 DEF NotifyLinked, cmdVars, TypeOK, TypeThreads, TypeShared
    <3>2. PollRefs(p) = C /\ PollRefs(p)' = C /\ ~Dequeued(p)'
      BY <1>2, <3>1 DEF PollRefs, Dequeued, NoBuf, Bufs
    <3> QED
      BY <1>9, <2>1, <2>2, <3>1, <3>2
  <2>7. CASE NotifyApp
    <3>1. HasCb => cmdActive
      BY <1>3 DEF CmdPhase, ActivePcs
    <3>2. /\ UNCHANGED <<refcnt, tokens>> /\ ppc = "enq" /\ ppc' = "poll"
          /\ cmdQ'[p] = cmdQ[p] + C
      BY <2>7, <1>2, <1>9, <3>1 DEF NotifyApp, bufVars, doneVars, TypeOK, TypeThreads, One
    <3>3. PollRefs(p) = C /\ PollRefs(p)' = 0 /\ ~Dequeued(p)'
      BY <1>2, <3>2 DEF PollRefs, Dequeued, NoBuf, Bufs
    <3> QED
      BY <1>9, <2>1, <2>2, <3>2, <3>3
  <2> QED
    BY <2>3, <2>4, <2>5, <2>6, <2>7
<1>12. p \in Kernel' => Free(p)' /\ Requeuing(p)' = {} /\ ~Dequeued(p)'
  <2>1. CASE p \notin Kernel
    BY <2>1, <1>8
  <2>2. CASE p \in Kernel
    <3>1. Free(p) /\ Requeuing(p) = {}
      BY <2>2 DEF Location
    <3>2. Free(p)'
      BY <2>2, <1>4, <1>10, <3>1 DEF Free
    <3> QED
      BY <2>2, <1>8, <1>10, <3>1, <3>2
  <2> QED
    BY <2>1, <2>2
<1>13. Dequeued(p)' => Free(p)' /\ Requeuing(p)' = {}
  BY <1>8, <1>10, <1>11
<1>14. \A t \in Threads : t \in Requeuing(p)' => Free(p)' /\ Requeuing(p)' = {t}
  <2>1. CASE Requeuing(p) = {}
    BY <2>1, <1>8
  <2>2. CASE Requeuing(p) # {}
    <3>1. \A t \in Threads : t \in Requeuing(p) => Free(p) /\ Requeuing(p) = {t}
      BY <1>3 DEF Location
    <3>2. Free(p) => Free(p)'
      BY <2>2, <1>4, <1>10 DEF Free
    <3> QED
      BY <1>8, <3>1, <3>2
  <2> QED
    BY <2>1, <2>2
<1>15. \A c \in Bufs \ {p} : /\ refcnt'[c] = refcnt[c] /\ Held(c)' = Held(c)
            /\ (Free(c)' <=> Free(c)) /\ Requeuing(c)' = Requeuing(c)
            /\ (Dequeued(c)' <=> Dequeued(c)) /\ (c \in Kernel' => c \in Kernel)
  BY <1>4, <1>5, <1>6, <1>7, <1>8
<1>16. /\ cpc' = cpc /\ regIdx' = regIdx /\ p \in Bufs /\ Kernel' \subseteq Bufs
       /\ (kq \cap filled)' = {} /\ cpc # "unreg"
  BY <1>2, <1>3, <1>8
<1> QED
  BY <1>11, <1>12, <1>13, <1>14, <1>15, <1>16, OneBufferStep

(* Giving back.  Everything below concerns one thread and one buffer.       *)
LEMMA ThreadJoins ==
  ASSUME TypeOK, NEW t \in Threads, NEW b \in Bufs, pc[t] = "idle",
         pc' = [pc EXCEPT ![t] = "check"], cur' = [cur EXCEPT ![t] = b]
  PROVE  /\ \A c \in Bufs : Requeuing(c)' = Requeuing(c)
         /\ \A c \in Bufs \ {b} : Dropping(c)' = Dropping(c)
         /\ Dropping(b)' # {}
         /\ Cardinality(Dropping(b)') = Cardinality(Dropping(b)) + 1
<1>1. \A u \in Threads : /\ pc'[u] = IF u = t THEN "check" ELSE pc[u]
                         /\ cur'[u] = IF u = t THEN b ELSE cur[u]
  BY DEF TypeOK, TypeThreads
<1>2. \A c \in Bufs : Requeuing(c)' = Requeuing(c)
  BY <1>1 DEF Requeuing
<1>3. \A c \in Bufs \ {b} : Dropping(c)' = Dropping(c)
  BY <1>1 DEF Dropping
<1>4. Dropping(b)' = Dropping(b) \cup {t} /\ t \notin Dropping(b)
  BY <1>1 DEF Dropping
<1>5. IsFiniteSet(Dropping(b))
  BY HeldFacts
<1> QED
  BY <1>2, <1>3, <1>4, <1>5, FS_AddElement

(* mm_stream_dispatch_app_data adds one holder and one reference. *)
LEMMA DispatchKeeps ==
  ASSUME TypeOK, Consistent, NEW b \in Bufs, DispatchApp(b)
  PROVE  Counts' /\ Location'
<1> USE DEF Consistent, Phases
<1>1. /\ cmdQ[b] > 0 /\ "cmd" \in Threads /\ pc["cmd"] = "idle"
      /\ pc' = [pc EXCEPT !["cmd"] = "check"] /\ cur' = [cur EXCEPT !["cmd"] = b]
      /\ UNCHANGED <<cpc, regIdx, ppc, pbuf, kq, filled>>
  BY DEF DispatchApp, Threads, ctlVars, kernVars, pollVars
<1>2. cmdQ # Zero
  BY <1>1 DEF Zero
<1>3. InUse(b) /\ cpc \notin {"unreg", "put"}
  BY <1>2 DEF CmdPhase, ActivePcs, InUse
<1>4. /\ \A c \in Bufs : Requeuing(c)' = Requeuing(c)
      /\ \A c \in Bufs \ {b} : Dropping(c)' = Dropping(c)
      /\ Dropping(b)' # {}
      /\ Cardinality(Dropping(b)') = Cardinality(Dropping(b)) + 1
  BY <1>1, ThreadJoins
<1>5. \A c \in Bufs : PollRefs(c)' = PollRefs(c) /\ (Dequeued(c)' <=> Dequeued(c))
  BY <1>1, SamePoll
<1>6. \A c \in Bufs \ {b} : refcnt'[c] = refcnt[c] /\ tokens'[c] = tokens[c]
                              /\ cmdQ'[c] = cmdQ[c]
  BY DEF DispatchApp, TypeOK, TypeShared, TypeThreads
<1>7. refcnt'[b] = refcnt[b] + 1 /\ tokens'[b] = tokens[b] + 1 /\ cmdQ'[b] = cmdQ[b] - 1
  BY DEF DispatchApp, TypeOK, TypeShared, TypeThreads
<1>8. \A c \in Bufs \ {b} : Held(c)' = Held(c) /\ (Free(c)' <=> Free(c))
  BY <1>4, <1>5, <1>6 DEF Held, Free
<1>9. ~Free(b)
  BY <1>1 DEF Free
<1>10. b \notin Kernel /\ ~Dequeued(b) /\ Requeuing(b) = {}
  BY <1>3, <1>9 DEF Location, Requeuing
<1>11. Kernel' = Kernel /\ Kernel \subseteq Bufs /\ (kq \cap filled)' = {}
  BY <1>1 DEF Kernel, TypeOK, TypeShared, Location
<1>12. refcnt'[b] = Held(b)'
  <2>1. refcnt[b] = Held(b)
    BY <1>3 DEF Counts
  <2>2. /\ Held(b) = tokens[b] + cmdQ[b] + PollRefs(b) + Cardinality(Dropping(b))
        /\ Held(b)' = tokens'[b] + cmdQ'[b] + PollRefs(b)' + Cardinality(Dropping(b)')
    BY DEF Held
  <2> QED
    BY <2>1, <2>2, <1>4, <1>5, <1>7, HeldFacts
<1> QED
  BY <1>1, <1>3, <1>4, <1>5, <1>6, <1>8, <1>10, <1>11, <1>12, OneBufferStep

(* QBUF hands a consumer's reference to the thread that will drop it. *)
LEMMA QbufKeeps ==
  ASSUME TypeOK, Consistent, NEW w \in Workers, NEW b \in Bufs, Qbuf(w, b)
  PROVE  Counts' /\ Location'
<1> USE DEF Consistent, Phases
<1>1. /\ tokens[b] > 0 /\ w \in Threads /\ pc[w] = "idle"
      /\ UNCHANGED <<cpc, regIdx, refcnt, cmdQ, ppc, pbuf, kq, filled>>
  BY DEF Qbuf, Threads, ctlVars, bufVars, kernVars, pollVars, cmdVars
<1>2. tokens # Zero
  BY <1>1 DEF Zero
<1>3. \A c \in Bufs : PollRefs(c)' = PollRefs(c) /\ (Dequeued(c)' <=> Dequeued(c))
  BY <1>1, SamePoll
<1>4. \A c \in Bufs \ {b} : tokens'[c] = tokens[c]
  BY DEF Qbuf, TypeOK, TypeThreads
<1>5. tokens'[b] = tokens[b] - 1
  BY DEF Qbuf, TypeOK, TypeThreads
<1>6. ~Free(b)
  BY <1>1, HeldFacts DEF Free
<1>7. b \notin Kernel /\ ~Dequeued(b) /\ (cpc # "put" => Requeuing(b) = {})
  BY <1>6 DEF Location, Requeuing
<1>8. Kernel' = Kernel /\ Kernel \subseteq Bufs /\ (kq \cap filled)' = {}
  BY <1>1 DEF Kernel, TypeOK, TypeShared, Location
<1>9. /\ Held(b) = tokens[b] + cmdQ[b] + PollRefs(b) + Cardinality(Dropping(b))
      /\ Held(b)' = tokens'[b] + cmdQ'[b] + PollRefs(b)' + Cardinality(Dropping(b)')
  BY DEF Held
<1>10. CASE state = "ACTIVE"
  <2>1. pc' = [pc EXCEPT ![w] = "check"] /\ cur' = [cur EXCEPT ![w] = b]
    BY <1>10 DEF Qbuf
  <2>2. /\ \A c \in Bufs : Requeuing(c)' = Requeuing(c)
        /\ \A c \in Bufs \ {b} : Dropping(c)' = Dropping(c)
        /\ Cardinality(Dropping(b)') = Cardinality(Dropping(b)) + 1
    BY <1>1, <2>1, ThreadJoins
  <2>3. cpc \notin {"put", "unreg"}
    BY <1>10 DEF StateOfPc
  <2>4. \A c \in Bufs \ {b} : Held(c)' = Held(c) /\ (Free(c)' <=> Free(c))
    BY <1>1, <1>3, <1>4, <2>2 DEF Held, Free
  <2>5. Held(b)' = Held(b)
    BY <1>1, <1>3, <1>5, <1>9, <2>2, HeldFacts
  <2>6. InUse(b) => refcnt'[b] = Held(b)'
    BY <1>1, <2>5 DEF Counts
  <2> QED
    BY <1>1, <1>3, <1>7, <1>8, <2>2, <2>3, <2>4, <2>6, OneBufferStep
<1>11. CASE state # "ACTIVE"
  <2>1. pc' = pc /\ cur' = cur
    BY <1>11 DEF Qbuf
  <2>2. \A c \in Bufs : Dropping(c)' = Dropping(c) /\ Requeuing(c)' = Requeuing(c)
    BY <2>1, SameThreads
  <2>3. cpc \in {"unreg", "put"}
    <3>1. cpc \notin {"down", "add", "get", "reg", "regloop", "start"}
      BY <1>2 DEF ConsumerPhase, Qbuf
    <3> QED
      BY <3>1, <1>11 DEF StateOfPc, ActivePcs, TypeOK, TypeShared, CtlPcs
  <2>4. \A c \in Bufs \ {b} : Held(c)' = Held(c) /\ (Free(c)' <=> Free(c))
    BY <1>1, <1>3, <1>4, <2>2 DEF Held, Free
  <2>5. Held(b)' = Held(b) - 1
    BY <1>1, <1>3, <1>5, <1>9, <2>2, HeldFacts
  <2>6. cpc = "unreg" => refcnt'[b] >= Held(b)'
    BY <1>1, <2>5, HeldFacts DEF Counts
  <2>7. ~InUse(b)
    BY <2>3 DEF InUse
  <2>8. cpc # "put" => Requeuing(b)' = {}
    BY <1>7, <2>2
  <2> QED
    BY <1>1, <1>3, <1>7, <1>8, <2>2, <2>4, <2>6, <2>7, <2>8, OneBufferStep
<1> QED
  BY <1>10, <1>11

(* A thread in mm_stream_buf_done finds the stream in use, or late after it. *)
LEMMA BusyPhase ==
  ASSUME TypeOK, Consistent, NEW t \in Threads, pc[t] # "idle"
  PROVE  /\ cur[t] \in Bufs
         /\ InUse(cur[t]) \/ cpc \in {"unreg", "put"}
         /\ cpc = "put" => ~reqbufs /\ Kernel = {}
<1>1. cur[t] \in Bufs
  BY DEF TypeOK, TypeThreads
<1>2. ~AllIdle
  BY DEF AllIdle
<1>3. cpc \notin {"down", "add", "get", "reg", "regloop", "start"}
  BY <1>2 DEF Consistent, Phases, ConsumerPhase
<1>4. InUse(cur[t]) \/ cpc \in {"unreg", "put"}
  BY <1>3 DEF InUse, TypeOK, TypeShared, CtlPcs
<1>5. cpc = "put" => ~reqbufs /\ Kernel = {}
  BY <1>2 DEF Consistent, Phases, ConsumerPhase
<1> QED
  BY <1>1, <1>4, <1>5

(* First critical section: the count is not zero, or the stream is gone.    *)
LEMMA DoneCheckKeeps ==
  ASSUME TypeOK, Consistent, NEW t \in Threads, DoneCheck(t)
  PROVE  Counts' /\ Location'
<1> USE DEF Consistent, Phases
<1>1. PICK b \in Bufs : b = cur[t]
  BY DEF DoneCheck, TypeOK, TypeThreads
<1>2. /\ pc[t] = "check" /\ UNCHANGED <<tokens, cpc, regIdx, refcnt, cmdQ, ppc, pbuf, kq, filled>>
  BY DEF DoneCheck, ctlVars, bufVars, kernVars, pollVars, cmdVars
<1>3. \A u \in Threads \ {t} : pc'[u] = pc[u] /\ cur'[u] = cur[u]
  BY DEF DoneCheck, Return, TypeOK, TypeThreads
<1>4. \/ refcnt[b] = 0 /\ pc'[t] = "idle"
      \/ refcnt[b] # 0 /\ pc'[t] = "dec" /\ cur'[t] = cur[t]
  BY <1>1 DEF DoneCheck, Return, TypeOK, TypeThreads
<1>5. \A c \in Bufs : Requeuing(c)' = Requeuing(c)
  BY <1>2, <1>3, <1>4 DEF Requeuing
<1>6. \A c \in Bufs \ {b} : Dropping(c)' = Dropping(c)
  BY <1>1, <1>2, <1>3, <1>4 DEF Dropping
<1>7. \A c \in Bufs : PollRefs(c)' = PollRefs(c) /\ (Dequeued(c)' <=> Dequeued(c))
  BY <1>2, SamePoll
<1>8. \A c \in Bufs \ {b} : Held(c)' = Held(c) /\ (Free(c)' <=> Free(c))
  BY <1>2, <1>6, <1>7 DEF Held, Free
<1>9. t \in Dropping(b) /\ ~Free(b)
  BY <1>1, <1>2 DEF Dropping, Free
<1>10. b \notin Kernel /\ ~Dequeued(b) /\ (cpc # "put" => Requeuing(b) = {})
  BY <1>9 DEF Location, Requeuing
<1>11. Kernel' = Kernel /\ Kernel \subseteq Bufs /\ (kq \cap filled)' = {}
  BY <1>2 DEF Kernel, TypeOK, TypeShared, Location
<1>12. InUse(b) \/ cpc \in {"unreg", "put"}
  BY <1>1, <1>2, BusyPhase
<1>13. cpc # "put" => pc'[t] = "dec" /\ cur'[t] = cur[t]
  <2>1. Held(b) # 0 /\ Held(b) \in Nat /\ refcnt[b] \in Nat
    BY <1>9, HeldFacts
  <2>2. cpc # "put" => refcnt[b] >= Held(b)
    BY <1>12, <2>1 DEF Counts
  <2> QED
    BY <1>4, <2>1, <2>2
<1>14. cpc # "put" => Dropping(b)' = Dropping(b)
  BY <1>2, <1>3, <1>13 DEF Dropping
<1>15. cpc # "put" => Held(b)' = Held(b)
  BY <1>2, <1>7, <1>14 DEF Held
<1>16. /\ InUse(b) => refcnt'[b] = Held(b)'
       /\ cpc = "unreg" => refcnt'[b] >= Held(b)'
  <2>1. InUse(b) => cpc # "put"
    BY DEF InUse
  <2>2. /\ InUse(b) => refcnt[b] = Held(b)
        /\ cpc = "unreg" => refcnt[b] >= Held(b)
    BY DEF Counts
  <2> QED
    BY <1>2, <1>15, <2>1, <2>2
<1>17. cpc # "put" => Requeuing(b)' = {}
  BY <1>5, <1>10
<1> QED
  BY <1>2, <1>5, <1>7, <1>8, <1>10, <1>11, <1>16, <1>17, OneBufferStep

(* Second critical section: the last reference leaves the buffer with the   *)
(* thread that dropped it.                                                  *)
LEMMA DoneDecKeeps ==
  ASSUME TypeOK, Consistent, NEW t \in Threads, DoneDec(t)
  PROVE  Counts' /\ Location'
<1> USE DEF Consistent, Phases
<1>1. PICK b \in Bufs : b = cur[t]
  BY DEF DoneDec, TypeOK, TypeThreads
<1> DEFINE n == IF refcnt[b] = 0 THEN 255 ELSE refcnt[b] - 1
<1>2. /\ pc[t] = "dec" /\ UNCHANGED <<tokens, cpc, regIdx, cmdQ, ppc, pbuf, kq, filled>>
  BY DEF DoneDec, ctlVars, bufVars, kernVars, pollVars, cmdVars
<1>3. \A u \in Threads \ {t} : pc'[u] = pc[u] /\ cur'[u] = cur[u]
  BY DEF DoneDec, Return, TypeOK, TypeThreads
<1>4. /\ refcnt'[b] = n
      /\ \A c \in Bufs \ {b} : refcnt'[c] = refcnt[c]
      /\ \/ n = 0 /\ pc'[t] = "inc" /\ cur'[t] = b
         \/ n # 0 /\ pc'[t] = "idle"
  BY <1>1 DEF DoneDec, Return, TypeOK, TypeThreads, TypeShared
<1>5. \A c \in Bufs \ {b} : Dropping(c)' = Dropping(c) /\ Requeuing(c)' = Requeuing(c)
  BY <1>1, <1>2, <1>3, <1>4 DEF Requeuing, Dropping
<1>6. Dropping(b)' = Dropping(b) \ {t} /\ t \in Dropping(b)
  BY <1>1, <1>2, <1>3, <1>4 DEF Dropping
<1>7. \A c \in Bufs : PollRefs(c)' = PollRefs(c) /\ (Dequeued(c)' <=> Dequeued(c))
  BY <1>2, SamePoll
<1>8. \A c \in Bufs \ {b} : Held(c)' = Held(c) /\ (Free(c)' <=> Free(c))
  BY <1>2, <1>5, <1>7 DEF Held, Free
<1>9. ~Free(b)
  BY <1>6 DEF Free
<1>10. b \notin Kernel /\ ~Dequeued(b) /\ (cpc # "put" => Requeuing(b) = {})
  BY <1>9 DEF Location, Requeuing
<1>11. Kernel' = Kernel /\ Kernel \subseteq Bufs /\ (kq \cap filled)' = {}
  BY <1>2 DEF Kernel, TypeOK, TypeShared, Location
<1>12. Cardinality(Dropping(b)') = Cardinality(Dropping(b)) - 1 /\ Cardinality(Dropping(b)') \in Nat
  <2>1. IsFiniteSet(Dropping(b)) /\ IsFiniteSet(Dropping(b)')
    BY <1>6, HeldFacts, FS_Subset
  <2> QED
    BY <1>6, <2>1, FS_RemoveElement, FS_CardinalityType
<1>13. Held(b)' = Held(b) - 1 /\ Held(b) \in Nat /\ refcnt[b] \in Nat /\ Held(b) >= 1
  <2>1. /\ Held(b) = tokens[b] + cmdQ[b] + PollRefs(b) + Cardinality(Dropping(b))
        /\ Held(b)' = tokens'[b] + cmdQ'[b] + PollRefs(b)' + Cardinality(Dropping(b)')
    BY DEF Held
  <2> QED
    BY <2>1, <1>2, <1>7, <1>9, <1>12, HeldFacts
<1>14. InUse(b) \/ cpc \in {"unreg", "put"}
  BY <1>1, <1>2, BusyPhase
<1>15. cpc # "put" => refcnt[b] >= Held(b) /\ refcnt'[b] = refcnt[b] - 1
  BY <1>4, <1>13, <1>14 DEF Counts
<1>16. InUse(b) => refcnt'[b] = Held(b)'
  BY <1>13, <1>15 DEF Counts, InUse
<1>17. cpc = "unreg" => refcnt'[b] >= Held(b)'
  BY <1>13, <1>15
<1>18. cpc # "put" => \A u \in Threads :
            u \in Requeuing(b)' => Free(b)' /\ Requeuing(b)' = {u}
  <2>1. CASE n # 0 /\ cpc # "put"
    BY <1>3, <1>4, <1>10, <2>1 DEF Requeuing
  <2>2. CASE n = 0 /\ cpc # "put"
    <3>1. Requeuing(b)' = {t}
      BY <1>3, <1>4, <1>10, <2>2 DEF Requeuing
    <3>2. Held(b)' = 0
      BY <1>4, <1>13, <1>15, <2>2
    <3>3. tokens'[b] = 0 /\ cmdQ'[b] = 0 /\ PollRefs(b)' = 0 /\ Cardinality(Dropping(b)') = 0
      <4>1. tokens'[b] + cmdQ'[b] + PollRefs(b)' + Cardinality(Dropping(b)') = 0
        BY <3>2 DEF Held
      <4>2. tokens'[b] \in Nat /\ cmdQ'[b] \in Nat /\ PollRefs(b)' \in Nat
        BY <1>2, <1>7, HeldFacts
      <4>3. /\ tokens'[b] <= 0 /\ cmdQ'[b] <= 0 /\ PollRefs(b)' <= 0
            /\ Cardinality(Dropping(b)') <= 0
        BY ONLY <4>1, <4>2, <1>12
      <4>4. tokens'[b] = 0 /\ cmdQ'[b] = 0
        BY ONLY <4>2, <4>3
      <4>5. PollRefs(b)' = 0
        BY ONLY <4>2, <4>3
      <4>6. Cardinality(Dropping(b)') = 0
        <5>1. Cardinality(Dropping(b)') \in Nat
          BY <1>12
        <5>2. Cardinality(Dropping(b)') <= 0
          BY <4>3
        <5> QED
          BY ONLY <5>1, <5>2
      <4> QED
        BY <4>4, <4>5, <4>6
    <3>4. Dropping(b)' = {}
      BY <1>6, <3>3, HeldFacts, FS_Subset, FS_EmptySet
    <3>5. Free(b)'
      BY <3>3, <3>4 DEF Free
    <3> QED
      BY <3>1, <3>5
  <2> QED
    BY <2>1, <2>2
<1>19. ~Dequeued(b)' /\ b \notin Kernel'
  BY <1>7, <1>10, <1>11
<1> QED
  BY <1>2, <1>4, <1>5, <1>7, <1>8, <1>10, <1>11, <1>16, <1>17, <1>18, <1>19, OneBufferStep

(* mm_stream_qbuf: the buffer stays with the thread until the driver takes  *)
(* it, or the call fails and the buffer is dropped.                         *)
LEMMA RequeueKeeps ==
  ASSUME TypeOK, Consistent, NEW t \in Threads,
         QbufCount(t) \/ QbufIoctl(t) \/ QbufUndo(t) \/ DoneMark(t)
  PROVE  Counts' /\ Location'
<1> USE DEF Consistent, Phases
<1>1. PICK b \in Bufs : b = cur[t]
  BY DEF QbufCount, QbufIoctl, QbufUndo, DoneMark, TypeOK, TypeThreads
<1>2. /\ pc[t] \in {"inc", "ioctl", "undo", "mark"}
      /\ UNCHANGED <<tokens, cpc, regIdx, refcnt, cmdQ, ppc, pbuf, filled>>
  BY DEF QbufCount, QbufIoctl, QbufUndo, DoneMark, ctlVars, bufVars, kernVars,
         pollVars, cmdVars
<1>3. \A u \in Threads \ {t} : pc'[u] = pc[u] /\ cur'[u] = cur[u]
  BY DEF QbufCount, QbufIoctl, QbufUndo, DoneMark, Return, TypeOK, TypeThreads
<1>4. \/ pc[t] = "inc" /\ pc'[t] = "ioctl" /\ cur'[t] = b /\ kq' = kq
      \/ pc[t] = "ioctl" /\ pc'[t] = "mark" /\ kq' = kq \cup {b} /\ b \notin Kernel /\ reqbufs
      \/ pc'[t] \in {"idle", "undo"} /\ kq' = kq
  BY <1>1 DEF QbufCount, QbufIoctl, QbufUndo, DoneMark, Return, TypeOK, TypeThreads, kernVars
<1>5. \A c \in Bufs : Dropping(c)' = Dropping(c)
  BY <1>2, <1>3, <1>4 DEF Dropping
<1>6. \A c \in Bufs \ {b} : Requeuing(c)' = Requeuing(c)
  BY <1>1, <1>2, <1>3, <1>4 DEF Requeuing
<1>7. \A c \in Bufs : PollRefs(c)' = PollRefs(c) /\ (Dequeued(c)' <=> Dequeued(c))
  BY <1>2, SamePoll
<1>8. \A c \in Bufs : Held(c)' = Held(c) /\ (Free(c)' <=> Free(c))
  BY <1>2, <1>5, <1>7 DEF Held, Free
<1>9. /\ InUse(b) => refcnt'[b] = Held(b)'
      /\ cpc = "unreg" => refcnt'[b] >= Held(b)'
  BY <1>2, <1>8 DEF Counts
<1>10. Requeuing(b)' \subseteq Requeuing(b)
  BY <1>1, <1>3, <1>4 DEF Requeuing
<1>11. cpc # "put" => \A u \in Threads :
            u \in Requeuing(b)' => Free(b)' /\ Requeuing(b)' = {u}
  BY <1>8, <1>10 DEF Location
<1>12. Dequeued(b)' => Free(b)' /\ Requeuing(b)' = {}
  BY <1>7, <1>8, <1>10 DEF Location
<1>13. kq \subseteq Bufs /\ filled \subseteq Bufs /\ kq \cap filled = {}
  BY DEF TypeOK, TypeShared, Location
<1>14. CASE kq' = kq
  <2>1. Kernel' = Kernel /\ Kernel \subseteq Bufs /\ (kq \cap filled)' = {}
    BY <1>2, <1>13, <1>14 DEF Kernel
  <2>2. b \in Kernel' => Free(b)' /\ Requeuing(b)' = {} /\ ~Dequeued(b)'
    BY <1>7, <1>8, <1>10, <2>1 DEF Location
  <2> QED
    BY <1>2, <1>6, <1>7, <1>8, <1>9, <1>11, <1>12, <2>1, <2>2, OneBufferStep
<1>15. CASE kq' # kq
  <2>1. /\ pc[t] = "ioctl" /\ pc'[t] = "mark" /\ kq' = kq \cup {b} /\ b \notin Kernel /\ reqbufs
    BY <1>4, <1>15
  <2>2. /\ Kernel' = Kernel \cup {b} /\ Kernel' \subseteq Bufs /\ (kq \cap filled)' = {}
    BY <1>2, <1>13, <2>1 DEF Kernel
  <2>3. cpc # "put"
    BY <2>1, BusyPhase
  <2>4. t \in Requeuing(b)
    BY <1>1, <2>1 DEF Requeuing
  <2>5. Free(b) /\ Requeuing(b) = {t} /\ ~Dequeued(b)
    BY <2>3, <2>4 DEF Location
  <2>6. Requeuing(b)' = {}
    BY <1>10, <2>1, <2>5 DEF Requeuing
  <2>7. \A c \in Bufs \ {b} : c \in Kernel' => c \in Kernel
    BY <2>2
  <2>8. Free(b)' /\ Requeuing(b)' = {} /\ ~Dequeued(b)'
    BY <1>7, <1>8, <2>5, <2>6
  <2> QED
    BY <1>2, <1>6, <1>7, <1>8, <1>9, <1>11, <1>12, <2>2, <2>7, <2>8, OneBufferStep
<1> QED
  BY <1>14, <1>15

(* A STREAMOFF that overtook the poll thread is never forgotten.            *)
LEMMA OverrunStays ==
  ASSUME TypeOK, Next, ~overrun'
  PROVE  ~overrun
BY DEF Next, Control, AddStream, Acquire, SetFmt, Release, ChannelStart, GetBuf,
       RegBuf, RegBufStep, RegBufFail, RegBufDone, Start, StreamonScan, StreamonTimeout,
       Streamon, StreamonAbort, Streamoff1, Streamoff2, ReleaseCmd, JoinCmd, UnregBuf, PutBuf,
       Poll, ProcPipe, PollData, Notify, Dqbuf, DqbufEmpty, DqCount, TakeRefs, NotifyChannel,
       NotifyLinked, NotifyApp, LinkStream, MapBuf, KernelFill, DispatchApp, Qbuf,
       BufDone, DoneCheck, DoneDec, QbufCount, QbufIoctl, QbufUndo, DoneMark

(* The invariant holds initially. *)
THEOREM InvInit == Init => IInv
<1> SUFFICES ASSUME Init PROVE IInv
  OBVIOUS
<1>1. TypeOK
  BY TypeInit
<1>2. StateOfPc
  BY DEF Init, StateOfPc, ActivePcs
<1>3. AllIdle
  BY DEF Init, AllIdle
<1>4. Phases
  BY <1>3 DEF Init, Phases, DriverPhase, CmdPhase, ConsumerPhase, RegPhase, ActivePcs
<1>5. Counts
  BY DEF Init, Counts, InUse
<1>6. \A b \in Bufs : ~Dequeued(b) /\ Requeuing(b) = {}
  BY <1>3, IdleEmpty, PollEmpty DEF Init
<1>7. Location
  BY <1>6 DEF Init, Location, Kernel
<1> QED
  BY <1>1, <1>2, <1>4, <1>5, <1>7 DEF IInv, Consistent

(* Every step preserves it: STREAMOFF overtaking a running notification is  *)
(* recorded for good, and the counts are not claimed after it.              *)
THEOREM InvStep == IInv /\ [Next]_vars => IInv'
<1> SUFFICES ASSUME IInv, [Next]_vars PROVE IInv'
  OBVIOUS
<1>1. TypeOK'
  BY TypeStep DEF IInv
<1>2. CASE UNCHANGED vars
  <2>1. UNCHANGED <<ctlVars, bufVars, kernVars, pollVars, cmdVars, doneVars, overrun>>
    BY <1>2 DEF vars
  <2>2. /\ UNCHANGED <<state, cpc, sessions, regIdx, alloc, linked, refcnt, reqbufs>>
        /\ UNCHANGED <<streaming, kq, filled, ppc, pbuf, cmdActive, cmdQ, tokens, pc, cur, overrun>>
    BY <2>1 DEF ctlVars, bufVars, kernVars, pollVars, cmdVars, doneVars
  <2>3. overrun \/ Consistent
    BY DEF IInv
  <2>4. StateOfPc' = StateOfPc /\ Phases' = Phases
    BY <2>2 DEF StateOfPc, Phases, DriverPhase, CmdPhase, ConsumerPhase, RegPhase,
                AllIdle, Kernel
  <2>5. Consistent => Counts' /\ Location'
    <3>1. \A b \in Bufs : InUse(b)' => InUse(b)
      BY <2>2 DEF InUse
    <3> QED
      BY <2>2, <3>1, QuietStep DEF Consistent, IInv
  <2> QED
    BY <1>1, <2>2, <2>3, <2>4, <2>5 DEF IInv, Consistent
<1>3. CASE overrun'
  BY <1>1, <1>3 DEF IInv
<1>4. CASE Next /\ ~overrun'
  <2>1. ~overrun
    BY <1>4, OverrunStays DEF IInv
  <2>2. TypeOK /\ Consistent
    BY <2>1 DEF IInv
  <2>3. StateOfPc'
    BY <1>4, <2>2, StateStep DEF Consistent
  <2>4. Phases'
    BY <1>4, <2>2, DriverStep, CmdStep, ConsumerStep, RegStep DEF Consistent, Phases
  <2>5. Counts' /\ Location'
    <3>1. CASE Control
      BY <1>4, <2>2, <3>1, QuietActions, ResetActions, RegBufStepKeeps DEF Control
    <3>2. CASE Poll
      BY <1>4, <2>2, <3>2, QuietActions, PollNothing, DqbufKeeps, PollFrameKeeps DEF Poll
    <3>3. CASE LinkStream
      BY <1>4, <2>2, <3>3, QuietActions
    <3>4. ASSUME NEW b \in Bufs, MapBuf(b) \/ KernelFill(b) \/ DispatchApp(b)
          PROVE  Counts' /\ Location'
      BY <1>4, <2>2, <3>4, QuietActions, KernelFillKeeps, DispatchKeeps
    <3>5. ASSUME NEW w \in Workers, NEW b \in Bufs, Qbuf(w, b) PROVE Counts' /\ Location'
      BY <2>2, <3>5, QbufKeeps
    <3>6. ASSUME NEW t \in Threads, BufDone(t) PROVE Counts' /\ Location'
      BY <2>2, <3>6, DoneCheckKeeps, DoneDecKeeps, RequeueKeeps DEF BufDone
    <3> QED
      BY <1>4, <3>1, <3>2, <3>3, <3>4, <3>5, <3>6 DEF Next
  <2> QED
    BY <1>1, <2>3, <2>4, <2>5 DEF IInv, Consistent
<1> QED
  BY <1>2, <1>3, <1>4

(* The inductive invariant holds in every reachable state of the stream. *)
THEOREM Invariance == Spec => []IInv
BY InvInit, InvStep, PTL DEF Spec

(* buf_refcnt is the number of references that are held, in every          *)
(* interleaving, until a STREAMOFF overtakes the poll thread.               *)
THEOREM RefsConservedThm == Spec => []RefsConserved
<1>1. IInv => RefsConserved
  BY DEF IInv, Consistent, Counts, RefsConserved, Held
<1> QED
  BY <1>1, Invariance, PTL

(* The driver never owns a frame that somebody on the user side holds.      *)
THEOREM NoKernelAliasThm == Spec => []NoKernelAlias
<1>1. IInv => NoKernelAlias
  BY DEF IInv, Consistent, Location, NoKernelAlias
<1> QED
  BY <1>1, Invariance, PTL

(* mm_stream_buf_done never sees the count at zero while the stream runs.   *)
THEOREM NoDoubleFreeThm == Spec => []NoDoubleFree
<1>1. ASSUME IInv PROVE NoDoubleFree
  <2> SUFFICES ASSUME ~overrun, NEW t \in Threads, pc[t] \in {"check", "dec"}, InUse(cur[t])
               PROVE  refcnt[cur[t]] > 0
    BY DEF NoDoubleFree
  <2>0. TypeOK /\ TypeThreads /\ Counts
    BY <1>1 DEF IInv, TypeOK, Consistent
  <2>1. PICK b \in Bufs : b = cur[t]
    BY <2>0 DEF TypeThreads
  <2>2. refcnt[b] = Held(b)
    BY <2>0, <2>1 DEF Counts
  <2>3. ~Free(b)
    BY <2>1 DEF Free, Dropping
  <2>4. Held(b) # 0 /\ Held(b) \in Nat
    BY <2>0, <2>3, HeldFacts
  <2> QED
    BY <2>1, <2>2, <2>4
<1> QED
  BY <1>1, Invariance, PTL

-----------------------------------------------------------------------------
(* What follows from the invariant for the poll thread and the buffers of a *)
(* running stream: queued_buffer_count covers what the driver has, the poll *)
(* thread is told of it, and no buffer is lost.                             *)

(* The pipe of the poll thread.                                             *)

(* A step that changes the entries leaves a command in the pipe, and only   *)
(* the poll thread takes commands out, bringing itself up to date.          *)
LEMMA PipeStep ==
  ASSUME TypeOK, PipeCarriesUpdate, [Next]_vars
  PROVE  PipeCarriesUpdate'
<1> USE DEF PipeCarriesUpdate
<1>1. pipe \in Seq({"async", "sync"}) /\ entry \in BOOLEAN
  BY DEF TypeOK, TypePoll, TypeFlags
<1>2. /\ Append(pipe, "async") # <<>> /\ Append(pipe, "sync") # <<>>
      /\ pipe \o <<"async", "async">> # <<>>
  BY <1>1
<1>3. CASE UNCHANGED <<entry, polled, pipe>>
  BY <1>3
<1>4. CASE RegBufStep \/ (\E t \in Threads : QbufCount(t))
  BY <1>1, <1>2, <1>4 DEF RegBufStep, RegQueue, RegHold, QbufCount, PollAdd
<1>5. CASE RegBufFail
  BY <1>1, <1>2, <1>5 DEF RegBufFail
<1>6. CASE StreamonAbort \/ Streamoff1 \/ DqCount \/ (\E t \in Threads : QbufUndo(t))
  BY <1>1, <1>2, <1>6 DEF StreamonAbort, Streamoff1, DqCount, QbufUndo, PollDel
<1>7. CASE ProcPipe
  BY <1>7 DEF ProcPipe
<1>8. UNCHANGED vars => UNCHANGED <<entry, polled, pipe>>
  BY DEF vars, pollVars
<1>9. Control => \/ RegBufStep \/ RegBufFail \/ StreamonAbort \/ Streamoff1
                 \/ UNCHANGED <<entry, polled, pipe>>
  BY DEF Control, AddStream, Acquire, SetFmt, Release, ChannelStart, GetBuf, RegBuf,
         RegBufDone, Start, StreamonScan, StreamonTimeout, Streamon, Streamoff2, ReleaseCmd,
         JoinCmd, UnregBuf, PutBuf, pollVars
<1>10. Poll => ProcPipe \/ DqCount \/ UNCHANGED <<entry, polled, pipe>>
  BY DEF Poll, PollData, Notify, Dqbuf, DqbufEmpty, TakeRefs, NotifyChannel, NotifyLinked,
         NotifyApp
<1>11. LinkStream \/ (\E b \in Bufs : MapBuf(b) \/ KernelFill(b) \/ DispatchApp(b))
         \/ (\E w \in Workers, b \in Bufs : Qbuf(w, b)) => UNCHANGED <<entry, polled, pipe>>
  BY DEF LinkStream, MapBuf, KernelFill, DispatchApp, Qbuf, pollVars
<1>12. (\E t \in Threads : BufDone(t)) => \/ \E t \in Threads : QbufCount(t) \/ QbufUndo(t)
                                          \/ UNCHANGED <<entry, polled, pipe>>
  BY DEF BufDone, DoneCheck, DoneDec, QbufIoctl, DoneMark, pollVars
<1> QED
  BY <1>3, <1>4, <1>5, <1>6, <1>7, <1>8, <1>9, <1>10, <1>11, <1>12 DEF Next

(* Whatever the poll thread has not seen of mm_camera_poll_thread_add_ and   *)
(* _del_poll_fd is announced in its pipe.                                    *)
THEOREM PipeCarriesUpdateThm == Spec => []PipeCarriesUpdate
<1>1. Init => PipeCarriesUpdate
  BY DEF Init, PipeCarriesUpdate
<1>2. TypeOK /\ PipeCarriesUpdate /\ [Next]_vars => PipeCarriesUpdate'
  BY PipeStep
<1> QED
  BY <1>1, <1>2, TypeCorrect, PTL DEF Spec

-----------------------------------------------------------------------------
(* The count of queued buffers.                                             *)

(* While buffers are registered the driver has those of them that start     *)
(* with it: so once some buffer was queued the count is not zero again      *)
(* before the stream runs.                                                  *)
Preloading == cpc = "regloop" => Kernel = {b \in Preloaded : b < regIdx}

QueueInv == IInv /\ PollCoversQueue /\ (~overrun => Preloading)

(* What queued_buffer_count should be. *)
Accounted == Cardinality(Kernel) + Cardinality(Counting) + One(ppc = "count")

(* The sets counted are finite. *)
LEMMA CountedFinite ==
  ASSUME TypeOK
  PROVE  /\ IsFiniteSet(Bufs) /\ IsFiniteSet(Threads)
         /\ IsFiniteSet(Kernel) /\ IsFiniteSet(Counting)
         /\ Cardinality(Kernel) \in Nat /\ Cardinality(Counting) \in Nat
         /\ Accounted \in Nat
<1>1. IsFiniteSet(Threads)
  BY ConstAssumption, FS_AddElement DEF Threads
<1>2. IsFiniteSet(Bufs)
  BY ConstAssumption, FS_Interval DEF Bufs
<1>3. Kernel \subseteq Bufs /\ Counting \subseteq Threads
  BY DEF TypeOK, TypeShared, Kernel, Counting
<1>4. IsFiniteSet(Kernel) /\ IsFiniteSet(Counting)
  BY <1>1, <1>2, <1>3, FS_Subset
<1>5. Cardinality(Kernel) \in Nat /\ Cardinality(Counting) \in Nat
  BY <1>4, FS_CardinalityType
<1> QED
  BY <1>1, <1>2, <1>4, <1>5 DEF Accounted, One

(* A step that neither moves a buffer nor a caller leaves the sum.          *)
LEMMA SameAccount ==
  ASSUME Kernel' = Kernel, Counting' = Counting, (ppc' = "count") <=> (ppc = "count")
  PROVE  Accounted' = Accounted
BY DEF Accounted, One

(* What the count promises in the current state. *)
Covered ==
    /\ queued = Accounted
    /\ queued > 0 => entry
    /\ (queued = 0 /\ cpc # "regloop") => ~entry

(* A caller that enters or leaves the counted part of mm_stream_qbuf.        *)
LEMMA CountingMoves ==
  ASSUME TypeOK, NEW t \in Threads,
         \A u \in Threads \ {t} : pc'[u] = pc[u]
  PROVE  /\ pc[t] \notin {"ioctl", "undo"} /\ pc'[t] \in {"ioctl", "undo"} =>
               Cardinality(Counting') = Cardinality(Counting) + 1
         /\ pc[t] \in {"ioctl", "undo"} /\ pc'[t] \notin {"ioctl", "undo"} =>
               Cardinality(Counting') = Cardinality(Counting) - 1
         /\ (pc[t] \in {"ioctl", "undo"} <=> pc'[t] \in {"ioctl", "undo"}) =>
               Counting' = Counting
<1>1. IsFiniteSet(Counting)
  BY CountedFinite
<1>2. pc[t] \notin {"ioctl", "undo"} /\ pc'[t] \in {"ioctl", "undo"} =>
        Counting' = Counting \cup {t} /\ t \notin Counting
  BY DEF Counting
<1>3. pc[t] \in {"ioctl", "undo"} /\ pc'[t] \notin {"ioctl", "undo"} =>
        Counting' = Counting \ {t} /\ t \in Counting
  BY DEF Counting
<1>4. (pc[t] \in {"ioctl", "undo"} <=> pc'[t] \in {"ioctl", "undo"}) => Counting' = Counting
  BY DEF Counting
<1> QED
  BY <1>1, <1>2, <1>3, <1>4, FS_AddElement, FS_RemoveElement

(* REG_BUF: an empty queue is filled with the buffers that start there.      *)
LEMMA RegCount ==
  ASSUME Preloaded # {}, TypeOK, Consistent, Filling => Covered, Preloading,
         RegBuf \/ RegBufStep \/ RegBufDone
  PROVE  (Filling' => Covered') /\ Preloading'
<1> USE DEF Consistent, Phases
<1>1. CASE RegBuf
  <2>1. CASE cpc' = "regloop"
    <3>1. cpc = "reg" /\ kq' = {} /\ filled' = {} /\ queued' = 0 /\ regIdx' = 1
          /\ UNCHANGED <<pc, ppc>>
      BY <1>1, <2>1 DEF RegBuf, pollVars, doneVars
    <3>2. AllIdle /\ ppc # "count"
      BY <3>1 DEF ConsumerPhase, DriverPhase
    <3>3. Kernel' = {} /\ Counting' = {}
      BY <3>1, <3>2 DEF Kernel, Counting, AllIdle
    <3>4. Cardinality(Kernel') = 0 /\ Cardinality(Counting') = 0 /\ One(ppc' = "count") = 0
      BY <3>1, <3>2, <3>3, FS_EmptySet DEF One
    <3>5. Accounted' = 0
      BY <3>4 DEF Accounted
    <3>6. \A b \in Preloaded : ~(b < 1)
      BY ConstAssumption DEF Bufs
    <3> QED
      BY <2>1, <3>1, <3>3, <3>5, <3>6 DEF Covered, Preloading
  <2>2. CASE cpc' # "regloop"
    BY <1>1, <2>2 DEF RegBuf, Filling, Preloading
  <2> QED
    BY <2>1, <2>2
<1>2. CASE RegBufStep
  <2>1. /\ cpc = "regloop" /\ cpc' = "regloop" /\ regIdx \in Bufs /\ regIdx' = regIdx + 1
        /\ UNCHANGED <<filled, ppc, pc>>
    BY <1>2 DEF RegBufStep
  <2>2. AllIdle /\ ppc # "count"
    BY <2>1 DEF ConsumerPhase, DriverPhase
  <2>3. Covered /\ Accounted \in Nat /\ Counting' = Counting /\ IsFiniteSet(Kernel)
    BY <2>1, CountedFinite DEF Filling, Counting
  <2>4. Kernel = {b \in Preloaded : b < regIdx} /\ regIdx \notin Kernel
    BY <2>1 DEF Preloading, Bufs
  <2>5. \A b \in Preloaded : b < regIdx + 1 <=> b < regIdx \/ b = regIdx
    BY <2>1, ConstAssumption DEF Bufs
  <2>6. CASE RegQueue(regIdx)
    <3>1. /\ regIdx \in Preloaded /\ queued' = queued + 1 /\ Kernel' = Kernel \cup {regIdx}
          /\ entry' = (entry \/ queued = 0)
      BY <2>1, <2>6 DEF RegQueue, PollAdd, Kernel
    <3>2. Cardinality(Kernel') = Cardinality(Kernel) + 1
      BY <2>3, <2>4, <3>1, FS_AddElement
    <3>3. Accounted' = Accounted + 1
      BY <2>1, <2>3, <3>2, CountedFinite DEF Accounted, One
    <3>4. Covered'
      <4>1. queued = Accounted /\ (queued > 0 => entry)
        BY <2>3 DEF Covered
      <4>2. queued' = Accounted' /\ queued' > 0 /\ queued' # 0 /\ (queued = 0 \/ queued > 0)
        BY <2>3, <3>1, <3>3, <4>1
      <4>3. entry'
        BY <3>1, <4>1, <4>2, Zenon
      <4> QED
        BY <4>2, <4>3 DEF Covered
    <3>5. Kernel' = {b \in Preloaded : b < regIdx'}
      BY <2>1, <2>4, <2>5, <3>1
    <3> QED
      BY <3>4, <3>5 DEF Preloading
  <2>7. CASE RegHold(regIdx)
    <3>1. /\ regIdx \notin Preloaded /\ Kernel' = Kernel /\ UNCHANGED <<queued, entry>>
      BY <2>1, <2>7 DEF RegHold, Kernel
    <3>2. Accounted' = Accounted
      BY <2>1, <2>3, <3>1, SameAccount
    <3>3. Kernel' = {b \in Preloaded : b < regIdx'}
      BY <2>1, <2>4, <2>5, <3>1
    <3> QED
      BY <2>1, <2>3, <3>1, <3>2, <3>3 DEF Covered, Preloading
  <2> QED
    BY <1>2, <2>6, <2>7 DEF RegBufStep
<1>3. CASE RegBufDone
  <2>1. /\ cpc = "regloop" /\ cpc' = "start" /\ regIdx \notin Bufs
        /\ UNCHANGED <<kq, filled, ppc, pc, queued, entry>>
    BY <1>3 DEF RegBufDone, bufVars, kernVars, pollVars, doneVars
  <2>2. Covered /\ Accounted' = Accounted
    BY <2>1 DEF Filling, Accounted, Kernel, Counting
  <2>3. \A b \in Preloaded : b < regIdx
    BY <2>1, ConstAssumption DEF RegPhase, Bufs, TypeOK, TypeShared
  <2>4. Kernel # {}
    BY <2>1, <2>3 DEF Preloading
  <2>5. Cardinality(Kernel) # 0
    BY <2>4, CountedFinite, FS_EmptySet
  <2>6. queued # 0
    BY <2>2, <2>5, CountedFinite DEF Covered, Accounted, One
  <2> QED
    BY <2>1, <2>2, <2>6 DEF Covered, Preloading
<1> QED
  BY <1>1, <1>2, <1>3

(* Out of the driver: a buffer counts for the poll thread from DQBUF until   *)
(* mm_stream_read_msm_frame has counted it down.                             *)
LEMMA DequeueCount ==
  ASSUME TypeOK, Consistent, Covered,
         DqCount \/ \E b \in Bufs : Dqbuf(b) \/ KernelFill(b)
  PROVE  Covered'
<1> USE DEF Consistent, Phases
<1>1. ASSUME NEW b \in Bufs, KernelFill(b) PROVE Covered'
  <2>1. /\ Kernel' = Kernel /\ UNCHANGED <<pc, ppc, queued, entry, cpc>>
    BY <1>1 DEF KernelFill, Kernel, ctlVars, bufVars, pollVars, doneVars
  <2> QED
    BY <2>1 DEF Covered, Accounted, Counting
<1>2. ASSUME NEW b \in Bufs, Dqbuf(b) PROVE Covered'
  <2>1. /\ b \in Kernel /\ Kernel' = Kernel \ {b} /\ ppc = "dq" /\ ppc' = "count"
        /\ UNCHANGED <<pc, queued, entry, cpc>>
    BY <1>2 DEF Dqbuf, Kernel, Location, ctlVars, bufVars, doneVars
  <2>2. Cardinality(Kernel') = Cardinality(Kernel) - 1
    BY <2>1, CountedFinite, FS_RemoveElement
  <2>3. Counting' = Counting /\ One(ppc = "count") = 0 /\ One(ppc' = "count") = 1
    BY <2>1 DEF Counting, One
  <2>4. Accounted' = Accounted
    BY <2>2, <2>3, CountedFinite DEF Accounted
  <2> QED
    BY <2>1, <2>4 DEF Covered
<1>3. CASE DqCount
  <2>1. /\ ppc = "count" /\ ppc' # "count" /\ Kernel' = Kernel
        /\ UNCHANGED <<pc, cpc>> /\ queued' = queued - 1
        /\ entry' = (entry /\ queued # 1)
    BY <1>3 DEF DqCount, PollDel, Kernel, ctlVars, kernVars, doneVars
  <2>2. Counting' = Counting /\ One(ppc = "count") = 1 /\ One(ppc' = "count") = 0
    BY <2>1 DEF Counting, One
  <2>3. Accounted \in Nat /\ Accounted >= 1 /\ Accounted' = Accounted - 1
    BY <2>1, <2>2, CountedFinite DEF Accounted
  <2>4. queued = Accounted
    BY DEF Covered
  <2>5. /\ queued' = Accounted' /\ (queued' > 0 => queued > 0 /\ queued # 1)
        /\ (queued' = 0 => queued = 1)
    BY <2>1, <2>3, <2>4
  <2>6. queued' > 0 => entry'
    BY <2>1, <2>5, Zenon DEF Covered
  <2>7. queued' = 0 => ~entry'
    BY <2>1, <2>5, Zenon
  <2> QED
    BY <2>5, <2>6, <2>7 DEF Covered
<1> QED
  BY <1>1, <1>2, <1>3

(* Back to the driver: a caller counts its buffer before the ioctl, the      *)
(* buffer counts for itself once the driver has it, and a refused one is     *)
(* counted down again.                                                       *)
LEMMA RequeueCount ==
  ASSUME TypeOK, Consistent, Covered, NEW t \in Threads, BufDone(t)
  PROVE  Covered'
<1> USE DEF Consistent, Phases
<1>1. \A u \in Threads \ {t} : pc'[u] = pc[u]
  BY DEF BufDone, DoneCheck, DoneDec, QbufCount, QbufIoctl, QbufUndo, DoneMark,
         Return, TypeOK, TypeThreads
<1>2. cpc # "regloop" /\ UNCHANGED <<cpc, ppc, filled>>
  BY DEF BufDone, DoneCheck, DoneDec, QbufCount, QbufIoctl, QbufUndo, DoneMark,
         ConsumerPhase, AllIdle, ctlVars, kernVars, pollVars
<1>3. queued = Accounted /\ Accounted \in Nat
  BY CountedFinite DEF Covered
<1>4. CASE UNCHANGED <<queued, entry, kq>> /\ Counting' = Counting
  <2>1. Accounted' = Accounted
    BY <1>2, <1>4 DEF Accounted, Kernel
  <2> QED
    BY <1>2, <1>4, <2>1 DEF Covered
<1>5. CASE DoneCheck(t) \/ DoneDec(t) \/ DoneMark(t)
  <2>1. /\ UNCHANGED <<queued, entry, kq>>
        /\ pc[t] \notin {"ioctl", "undo"} /\ pc'[t] \notin {"ioctl", "undo"}
    BY <1>5 DEF DoneCheck, DoneDec, DoneMark, Return, bufVars, kernVars, pollVars,
                TypeOK, TypeThreads
  <2> QED
    BY <1>1, <1>4, <2>1, CountingMoves
<1>6. CASE QbufCount(t)
  <2>1. /\ pc[t] = "inc" /\ kq' = kq
        /\ \/ UNCHANGED <<queued, entry>> /\ pc'[t] = "idle"
           \/ queued' = queued + 1 /\ entry' = (entry \/ queued = 0) /\ pc'[t] = "ioctl"
    BY <1>6 DEF QbufCount, PollAdd, Return, kernVars, TypeOK, TypeThreads
  <2>2. CASE pc'[t] = "idle"
    BY <1>1, <1>4, <2>1, <2>2, CountingMoves
  <2>3. CASE pc'[t] = "ioctl"
    <3>1. Cardinality(Counting') = Cardinality(Counting) + 1 /\ Kernel' = Kernel
      BY <1>1, <1>2, <2>1, <2>3, CountingMoves DEF Kernel
    <3>2. Accounted' = Accounted + 1
      BY <1>2, <3>1, CountedFinite DEF Accounted, One
    <3>3. /\ queued' = Accounted' /\ queued' # 0 /\ (queued = 0 \/ queued > 0)
      BY <1>3, <2>1, <2>3, <3>2
    <3>4. entry'
      BY <2>1, <2>3, <3>3, Zenon DEF Covered
    <3> QED
      BY <3>3, <3>4 DEF Covered
  <2> QED
    BY <2>1, <2>2, <2>3
<1>7. CASE QbufIoctl(t)
  <2>1. /\ pc[t] = "ioctl" /\ UNCHANGED <<queued, entry>>
        /\ \/ cur[t] \notin Kernel /\ kq' = kq \cup {cur[t]} /\ pc'[t] = "mark"
           \/ kq' = kq /\ pc'[t] = "undo"
    BY <1>7 DEF QbufIoctl, bufVars, pollVars, TypeOK, TypeThreads
  <2>2. CASE pc'[t] = "undo"
    BY <1>1, <1>4, <2>1, <2>2, CountingMoves
  <2>3. CASE pc'[t] = "mark"
    <3>1. Cardinality(Counting') = Cardinality(Counting) - 1
      BY <1>1, <2>1, <2>3, CountingMoves
    <3>2. Kernel' = Kernel \cup {cur[t]} /\ cur[t] \notin Kernel
      BY <1>2, <2>1, <2>3 DEF Kernel
    <3>3. Cardinality(Kernel') = Cardinality(Kernel) + 1
      BY <3>2, CountedFinite, FS_AddElement
    <3>4. Accounted' = Accounted
      BY <1>2, <3>1, <3>3, CountedFinite DEF Accounted, One
    <3> QED
      BY <1>2, <2>1, <3>4 DEF Covered
  <2> QED
    BY <2>1, <2>2, <2>3
<1>8. CASE QbufUndo(t)
  <2>1. /\ pc[t] = "undo" /\ pc'[t] = "idle" /\ kq' = kq /\ queued' = queued - 1
        /\ entry' = (entry /\ queued # 1)
    BY <1>8 DEF QbufUndo, PollDel, Return, kernVars, TypeOK, TypeThreads
  <2>2. Cardinality(Counting') = Cardinality(Counting) - 1 /\ Kernel' = Kernel
    BY <1>1, <1>2, <2>1, CountingMoves DEF Kernel
  <2>3. Counting # {}
    BY <2>1 DEF Counting
  <2>4. Cardinality(Counting) >= 1
    BY <2>3, CountedFinite, FS_EmptySet
  <2>5. Accounted' = Accounted - 1 /\ Accounted >= 1
    BY <1>2, <2>2, <2>4, CountedFinite DEF Accounted, One
  <2>6. /\ queued' = Accounted' /\ (queued' > 0 => queued > 0 /\ queued # 1)
        /\ (queued' = 0 => queued = 1)
    BY <1>3, <2>1, <2>5
  <2>7. queued' > 0 => entry'
    BY <2>1, <2>6, Zenon DEF Covered
  <2>8. queued' = 0 => ~entry'
    BY <2>1, <2>6, Zenon
  <2> QED
    BY <2>6, <2>7, <2>8 DEF Covered
<1> QED
  BY <1>5, <1>6, <1>7, <1>8 DEF BufDone

(* The count changes nowhere else while the stream is being filled, and it   *)
(* is exact with every step.                                                 *)
LEMMA QueueStep ==
  ASSUME Preloaded # {}, QueueInv, Next, ~overrun, ~overrun'
  PROVE  (Filling' => Covered') /\ Preloading'
<1>1. TypeOK /\ Consistent /\ Preloading /\ (Filling => Covered)
  BY DEF QueueInv, IInv, PollCoversQueue, Covered, Accounted
<1> USE DEF Consistent, Phases
<1>2. cpc' = "regloop" => cpc = "regloop" \/ RegBuf
  BY DEF Next, Control, AddStream, Acquire, SetFmt, Release, ChannelStart, GetBuf, RegBufStep,
       RegBufFail, RegBufDone, Start, StreamonScan, StreamonTimeout, Streamon, StreamonAbort,
       Streamoff1, Streamoff2, ReleaseCmd, JoinCmd, UnregBuf, PutBuf, Poll, ProcPipe, PollData,
       Notify, Dqbuf, DqbufEmpty, DqCount, TakeRefs, NotifyChannel, NotifyLinked, NotifyApp,
       LinkStream, MapBuf, KernelFill, DispatchApp, Qbuf, BufDone, DoneCheck, DoneDec,
       QbufCount, QbufIoctl, QbufUndo, DoneMark, ctlVars
<1>3. CASE RegBuf \/ RegBufStep \/ RegBufDone
  BY <1>1, <1>3, RegCount
<1>4. CASE UNCHANGED <<queued, entry, pc, ppc, regIdx>> /\ Kernel' = Kernel
             /\ (Filling' => Filling /\ (cpc' = "regloop" => cpc = "regloop"))
             /\ (Filling' /\ cpc = "regloop" => cpc' = "regloop")
             /\ ~RegBuf
  <2>1. Accounted' = Accounted
    BY <1>4 DEF Accounted, Counting
  <2>2. Filling' => Covered'
    BY <1>1, <1>4, <2>1 DEF Covered
  <2>3. Preloading'
    BY <1>1, <1>2, <1>4 DEF Preloading
  <2> QED
    BY <2>2, <2>3
<1>5. CASE Control
  <2>1. CASE ~Filling'
    BY <1>1, <1>2, <2>1 DEF Filling, Preloading
  <2>2. Control => \/ RegBuf \/ RegBufStep \/ RegBufDone \/ Start \/ StreamonScan \/ Streamon
                   \/ ~Filling'
    BY DEF Control, AddStream, Acquire, SetFmt, Release, ChannelStart, GetBuf, RegBufFail,
           StreamonTimeout, StreamonAbort, Streamoff1, Streamoff2, ReleaseCmd, JoinCmd,
           UnregBuf, PutBuf, Filling
  <2>3. CASE Start \/ StreamonScan \/ Streamon
    <3>1. /\ UNCHANGED <<queued, entry, pc, ppc, regIdx>> /\ Kernel' = Kernel
          /\ cpc \in {"start", "scan", "streamon"} /\ cpc' # "regloop" /\ ~RegBuf
      BY <2>3 DEF Start, StreamonScan, Streamon, RegBuf, ctlVars, bufVars, kernVars, pollVars,
                  doneVars, Kernel
    <3> QED
      BY <1>4, <3>1 DEF Filling
  <2> QED
    BY <1>3, <1>5, <2>1, <2>2, <2>3
<1>6. ASSUME UNCHANGED cpc, Filling => Covered', cpc = "regloop" => Kernel' = Kernel,
             UNCHANGED regIdx
      PROVE  (Filling' => Covered') /\ Preloading'
  BY <1>1, <1>6 DEF Filling, Preloading
<1>7. CASE Poll
  <2>1. CASE DqCount \/ \E b \in Bufs : Dqbuf(b)
    <3>1. UNCHANGED <<cpc, regIdx>> /\ cpc # "regloop"
      <4>1. ppc = "count" \/ filled # {}
        BY <2>1 DEF DqCount, Dqbuf
      <4> QED
        BY <1>1, <2>1, <4>1 DEF DqCount, Dqbuf, DriverPhase, ctlVars
    <3> QED
      BY <1>1, <1>6, <2>1, <3>1, DequeueCount
  <2>2. CASE ProcPipe
    <3>1. /\ UNCHANGED <<queued, entry, pc, ppc, regIdx>> /\ Kernel' = Kernel
          /\ cpc' # cpc => cpc' \in {"off", "release"}
      BY <2>2 DEF ProcPipe, bufVars, kernVars, doneVars, Kernel
    <3>2. /\ Filling' => Filling /\ cpc' = cpc
          /\ cpc' = "regloop" => cpc = "regloop"
      BY <3>1 DEF Filling
    <3>3. ~RegBuf \/ cpc = "reg"
      BY DEF RegBuf
    <3>4. Accounted' = Accounted
      BY <3>1 DEF Accounted, Counting
    <3> QED
      BY <1>1, <3>1, <3>2, <3>4 DEF Covered, Preloading
  <2>3. CASE ~DqCount /\ ~ProcPipe /\ ~\E b \in Bufs : Dqbuf(b)
    <3>1. /\ UNCHANGED <<queued, entry, pc, cpc, regIdx>> /\ Kernel' = Kernel
          /\ ppc # "count" /\ ppc' # "count"
      BY <1>7, <2>3 DEF Poll, PollData, Notify, DqbufEmpty, TakeRefs, NotifyChannel,
         NotifyLinked, NotifyApp, ctlVars, bufVars, kernVars, doneVars, Kernel
    <3>2. Accounted' = Accounted
      BY <3>1, SameAccount DEF Counting
    <3> QED
      BY <1>1, <1>6, <3>1, <3>2 DEF Covered
  <2> QED
    BY <1>7, <2>1, <2>2, <2>3
<1>8. CASE LinkStream \/ \E b \in Bufs : MapBuf(b) \/ DispatchApp(b) \/ KernelFill(b)
             \/ \E w \in Workers : Qbuf(w, b)
  <2>1. ASSUME NEW b \in Bufs, KernelFill(b) PROVE (Filling' => Covered') /\ Preloading'
    <3>1. UNCHANGED <<cpc, regIdx>> /\ Kernel' = Kernel
      BY <2>1 DEF KernelFill, ctlVars, Kernel
    <3> QED
      BY <1>1, <1>6, <2>1, <3>1, DequeueCount
  <2>2. ASSUME NEW b \in Bufs, MapBuf(b) PROVE (Filling' => Covered') /\ Preloading'
    <3>1. /\ UNCHANGED <<queued, entry, pc, ppc, regIdx>> /\ Kernel' = Kernel
          /\ cpc' # cpc => cpc = "condwait" /\ cpc' = "streamon"
      BY <2>2 DEF MapBuf, kernVars, pollVars, doneVars, Kernel
    <3>2. Accounted' = Accounted
      BY <3>1 DEF Accounted, Counting
    <3> QED
      BY <1>1, <3>1, <3>2 DEF Covered, Preloading, Filling
  <2>3. CASE LinkStream
    <3>1. /\ UNCHANGED <<queued, entry, pc, ppc, regIdx, cpc>> /\ Kernel' = Kernel
      BY <2>3 DEF LinkStream, ctlVars, kernVars, pollVars, doneVars, Kernel
    <3>2. Accounted' = Accounted
      BY <3>1 DEF Accounted, Counting
    <3> QED
      BY <1>1, <1>6, <3>1, <3>2 DEF Covered
  <2>4. ASSUME NEW b \in Bufs, DispatchApp(b) \/ \E w \in Workers : Qbuf(w, b)
        PROVE  (Filling' => Covered') /\ Preloading'
    <3>1. /\ UNCHANGED <<queued, entry, ppc, regIdx, cpc>> /\ Kernel' = Kernel
      BY <2>4 DEF DispatchApp, Qbuf, ctlVars, bufVars, kernVars, pollVars, Kernel
    <3>2. PICK t \in Threads : /\ \A u \in Threads \ {t} : pc'[u] = pc[u]
                               /\ pc[t] = "idle" /\ pc'[t] \in {"idle", "check"}
      BY <1>1, <2>4 DEF DispatchApp, Qbuf, Threads, TypeOK, TypeThreads
    <3>3. Counting' = Counting
      BY <1>1, <3>2, CountingMoves
    <3>4. Accounted' = Accounted
      BY <3>1, <3>3 DEF Accounted
    <3> QED
      BY <1>1, <1>6, <3>1, <3>4 DEF Covered
  <2> QED
    BY <1>8, <2>1, <2>2, <2>3, <2>4
<1>9. ASSUME NEW t \in Threads, BufDone(t) PROVE (Filling' => Covered') /\ Preloading'
  <2>1. UNCHANGED <<cpc, regIdx>> /\ pc[t] # "idle"
    BY <1>9 DEF BufDone, DoneCheck, DoneDec, QbufCount, QbufIoctl, QbufUndo, DoneMark, ctlVars
  <2>2. cpc # "regloop"
    BY <1>1, <2>1 DEF ConsumerPhase, AllIdle
  <2> QED
    BY <1>1, <1>6, <1>9, <2>1, <2>2, RequeueCount
<1> QED
  BY <1>5, <1>7, <1>8, <1>9 DEF Next

(* While the stream is filled and runs, queued_buffer_count is what the      *)
(* driver has and what is on its way, and the poll thread's entry is there   *)
(* exactly when that is something.  Every stream of the HAL starts with some *)
(* buffer in the driver; an entry left behind by a previous session would    *)
(* otherwise stay until the first one is queued.                             *)
THEOREM PollCoversQueueThm ==
  ASSUME Preloaded # {}
  PROVE  Spec => []PollCoversQueue
<1>1. Init => QueueInv
  <2>1. Init => cpc = "down"
    BY DEF Init
  <2> QED
    BY <2>1, InvInit DEF QueueInv, PollCoversQueue, Filling, Preloading
<1>2. QueueInv /\ [Next]_vars => QueueInv'
  <2> SUFFICES ASSUME QueueInv, [Next]_vars PROVE QueueInv'
    OBVIOUS
  <2>1. IInv'
    BY InvStep DEF QueueInv
  <2>2. CASE UNCHANGED vars
    BY <2>1, <2>2 DEF QueueInv, PollCoversQueue, Filling, Preloading, Kernel, Counting,
       vars, ctlVars, bufVars, kernVars, pollVars, doneVars
  <2>3. CASE Next /\ ~overrun'
    <3>1. ~overrun
      BY <2>3, OverrunStays DEF QueueInv, IInv
    <3>2. (Filling' => Covered') /\ Preloading'
      BY <2>3, <3>1, QueueStep
    <3> QED
      BY <2>1, <3>2 DEF QueueInv, PollCoversQueue, Covered, Accounted
  <2>4. CASE overrun'
    BY <2>1, <2>4 DEF QueueInv, PollCoversQueue
  <2> QED
    BY <2>2, <2>3, <2>4
<1>3. QueueInv => PollCoversQueue
  BY DEF QueueInv
<1> QED
  BY <1>1, <1>2, <1>3, PTL DEF Spec

-----------------------------------------------------------------------------
(* The whereabouts of the buffers.                                          *)

(* What NoBufferLost asks for: a user for the frames, no failing cache or    *)
(* QBUF call.                                                                *)
Undisturbed ==
    (Bundled \/ HasCb) /\ Faults \cap {"invalidate", "qbuf", "clean"} = {}

Stocked(b) ==
    b \in Kernel \/ refcnt[b] > 0 \/ Requeuing(b) # {} \/ Dequeued(b)

(* It holds from registration on, while the driver knows the buffers.        *)
StockInv ==
    (Filling /\ ~overrun /\ Undisturbed) =>
        reqbufs /\ \A b \in Bufs : InUse(b) => Stocked(b)

(* A buffer that a step leaves alone stays where it is.                      *)
LEMMA StaysStocked ==
  ASSUME NEW b \in Bufs, Stocked(b),
         b \in Kernel => b \in Kernel', refcnt[b] > 0 => refcnt'[b] > 0,
         Requeuing(b) # {} => Requeuing(b)' # {}, Dequeued(b) => Dequeued(b)'
  PROVE  Stocked(b)'
BY DEF Stocked

(* Registration puts every buffer somewhere.                                 *)
LEMMA RegStock ==
  ASSUME TypeOK, Consistent, Filling => reqbufs /\ \A b \in Bufs : InUse(b) => Stocked(b),
         RegBuf \/ RegBufStep \/ RegBufDone, Filling'
  PROVE  reqbufs' /\ \A b \in Bufs : InUse(b)' => Stocked(b)'
<1>1. CASE RegBuf
  <2>1. cpc' = "regloop" /\ regIdx' = 1 /\ reqbufs'
    BY <1>1 DEF RegBuf, Filling
  <2>2. \A b \in Bufs : ~(b < 1)
    BY ConstAssumption DEF Bufs
  <2> QED
    BY <2>1, <2>2 DEF InUse
<1>2. CASE RegBufStep
  <2>1. /\ cpc = "regloop" /\ cpc' = "regloop" /\ regIdx \in Bufs /\ regIdx' = regIdx + 1
        /\ UNCHANGED <<reqbufs, filled, ppc, pbuf, pc, cur>>
    BY <1>2 DEF RegBufStep
  <2>2. ASSUME NEW b \in Bufs, b < regIdx + 1 PROVE Stocked(b)'
    <3>1. b = regIdx \/ b < regIdx
      BY <2>1, <2>2 DEF Bufs
    <3>2. CASE b = regIdx
      BY <1>2, <3>2 DEF RegBufStep, RegQueue, RegHold, Stocked, Kernel, TypeOK, TypeShared
    <3>3. CASE b # regIdx
      <4>1. Stocked(b)
        BY <2>1, <3>1, <3>3 DEF Filling, InUse
      <4>2. /\ b \in Kernel => b \in Kernel'
            /\ refcnt'[b] = refcnt[b]
        BY <1>2, <2>1, <3>3 DEF RegBufStep, RegQueue, RegHold, Kernel, TypeOK, TypeShared
      <4>3. Requeuing(b)' = Requeuing(b) /\ Dequeued(b)' = Dequeued(b)
        BY <2>1 DEF Requeuing, Dequeued
      <4> QED
        BY <4>1, <4>2, <4>3, StaysStocked
    <3> QED
      BY <3>2, <3>3
  <2> QED
    BY <2>1, <2>2 DEF InUse, Filling
<1>3. CASE RegBufDone
  <2>1. /\ cpc = "regloop" /\ regIdx \notin Bufs
        /\ UNCHANGED <<reqbufs, kq, filled, ppc, pbuf, pc, cur, refcnt>>
    BY <1>3 DEF RegBufDone, bufVars, kernVars, pollVars, doneVars
  <2>2. \A b \in Bufs : b < regIdx
    BY <2>1, ConstAssumption DEF Consistent, Phases, RegPhase, Bufs, TypeOK, TypeShared
  <2>3. reqbufs /\ \A b \in Bufs : Stocked(b)
    BY <2>1, <2>2 DEF Filling, InUse
  <2> QED
    BY <2>1, <2>3 DEF Stocked, Kernel, Requeuing, Dequeued
<1> QED
  BY <1>1, <1>2, <1>3

(* The poll thread and the command thread hand a buffer on by referencing    *)
(* it first.                                                                 *)
LEMMA HandedOn ==
  ASSUME TypeOK, Undisturbed, NEW b \in Bufs, Stocked(b),
         \/ Poll
         \/ \E c \in Bufs : KernelFill(c) \/ DispatchApp(c)
         \/ \E w \in Workers, c \in Bufs : Qbuf(w, c)
  PROVE  Stocked(b)'
<1>1. CASE DqCount \/ \E c \in Bufs : Dqbuf(c)
  <2>1. UNCHANGED <<refcnt, pc, cur>> /\ (b \in Kernel => b \in Kernel' \/ Dequeued(b)')
    BY <1>1 DEF DqCount, Dqbuf, Kernel, Dequeued, bufVars, doneVars, kernVars
  <2>2. Dequeued(b) => Dequeued(b)'
    BY <1>1 DEF DqCount, Dqbuf, Dequeued, Undisturbed, MayFail
  <2> QED
    BY <2>1, <2>2 DEF Stocked, Requeuing
<1>2. CASE TakeRefs
  <2>1. /\ UNCHANGED <<kq, filled, pc, cur>> /\ pbuf \in Bufs
        /\ refcnt' = [refcnt EXCEPT ![pbuf] = @ + One(Bundled) + One(HasCb)]
        /\ Dequeued(b) => pbuf = b
    BY <1>2 DEF TakeRefs, kernVars, doneVars, TypeOK, TypePoll, Dequeued
  <2>2. refcnt[b] \in Nat /\ One(Bundled) \in Nat /\ One(HasCb) \in Nat
        /\ One(Bundled) + One(HasCb) > 0
    BY DEF TypeOK, TypeShared, One, Undisturbed
  <2>3. /\ refcnt[b] > 0 => refcnt'[b] > 0
        /\ Dequeued(b) => refcnt'[b] > 0
    BY <2>1, <2>2 DEF TypeOK, TypeShared
  <2> QED
    BY <2>1, <2>3 DEF Stocked, Kernel, Requeuing
<1>3. CASE ProcPipe \/ PollData \/ Notify \/ DqbufEmpty \/ NotifyChannel \/ NotifyLinked \/ NotifyApp
  <2>1. UNCHANGED <<kq, filled, pc, cur>> /\ ~(ppc \in {"count", "ref"} /\ ppc' # ppc)
    BY <1>3 DEF ProcPipe, PollData, Notify, DqbufEmpty, NotifyChannel, NotifyLinked, NotifyApp,
       kernVars, doneVars
  <2>2. Dequeued(b) => Dequeued(b)'
    BY <1>3, <2>1 DEF Dequeued, Undisturbed, ProcPipe, PollData, Notify, DqbufEmpty,
       NotifyChannel, NotifyLinked, NotifyApp
  <2>3. refcnt[b] > 0 => refcnt'[b] > 0
    <3>1. refcnt' = refcnt \/ refcnt' = [refcnt EXCEPT ![pbuf] = @ + One(linked)]
      BY <1>3 DEF ProcPipe, PollData, Notify, DqbufEmpty, NotifyChannel, NotifyLinked,
         NotifyApp, bufVars
    <3>2. refcnt \in [Bufs -> Nat] /\ One(linked) \in Nat
      BY DEF TypeOK, TypeShared, One
    <3> QED
      BY <3>1, <3>2
  <2> QED
    BY <2>1, <2>2, <2>3 DEF Stocked, Kernel, Requeuing
<1>4. ASSUME NEW c \in Bufs, KernelFill(c) PROVE Stocked(b)'
  BY <1>4 DEF KernelFill, Stocked, Kernel, Requeuing, Dequeued, bufVars, pollVars, doneVars
<1>5. ASSUME NEW c \in Bufs, DispatchApp(c) \/ \E w \in Workers : Qbuf(w, c) PROVE Stocked(b)'
  <2>1. /\ UNCHANGED <<kq, filled, ppc, pbuf>>
        /\ refcnt' = refcnt \/ refcnt' = [refcnt EXCEPT ![c] = @ + 1]
    BY <1>5 DEF DispatchApp, Qbuf, kernVars, pollVars, bufVars
  <2>2. refcnt[b] > 0 => refcnt'[b] > 0
    BY <2>1 DEF TypeOK, TypeShared
  <2>3. Requeuing(b) \subseteq Requeuing(b)'
    BY <1>5 DEF DispatchApp, Qbuf, Requeuing, TypeOK, TypeThreads
  <2> QED
    BY <2>1, <2>2, <2>3 DEF Stocked, Kernel, Dequeued
<1> QED
  BY <1>1, <1>2, <1>3, <1>4, <1>5 DEF Poll

(* A thread that drops the last reference takes the buffer to the driver.    *)
LEMMA TakenBack ==
  ASSUME TypeOK, Consistent, Undisturbed, reqbufs, cpc # "put",
         NEW b \in Bufs, InUse(b), Stocked(b), NEW t \in Threads, BufDone(t)
  PROVE  Stocked(b)'
<1>1. UNCHANGED <<filled, ppc, pbuf>> /\ (Dequeued(b) => Dequeued(b)')
  BY DEF BufDone, DoneCheck, DoneDec, QbufCount, QbufIoctl, QbufUndo, DoneMark,
     kernVars, pollVars, Dequeued
<1>2. \A u \in Threads \ {t} : pc'[u] = pc[u] /\ cur'[u] = cur[u]
  BY DEF BufDone, DoneCheck, DoneDec, QbufCount, QbufIoctl, QbufUndo, DoneMark,
         Return, TypeOK, TypeThreads
<1>3. CASE t \notin Requeuing(b) /\ kq \subseteq kq' /\ (refcnt[b] > 0 => refcnt'[b] > 0)
  BY <1>1, <1>2, <1>3 DEF Stocked, Kernel, Requeuing
<1>4. CASE DoneCheck(t)
  BY <1>3, <1>4 DEF DoneCheck, Requeuing, kernVars, bufVars
<1>5. CASE DoneDec(t)
  <2>1. kq' = kq /\ t \notin Requeuing(b) /\ cur[t] \in Bufs
    BY <1>5 DEF DoneDec, Requeuing, kernVars, TypeOK, TypeThreads
  <2>2. CASE cur[t] # b
    BY <1>3, <1>5, <2>1, <2>2 DEF DoneDec, TypeOK, TypeShared
  <2>3. CASE cur[t] = b
    <3>1. /\ refcnt' = [refcnt EXCEPT ![b] = IF refcnt[b] = 0 THEN 255 ELSE refcnt[b] - 1]
          /\ refcnt'[b] = 0 => pc'[t] = "inc" /\ cur'[t] = b
      BY <1>5, <2>3 DEF DoneDec, TypeOK, TypeShared, TypeThreads
    <3>2. refcnt'[b] = 0 \/ refcnt'[b] > 0
      BY <3>1 DEF TypeOK, TypeShared
    <3>3. refcnt'[b] = 0 => Requeuing(b)' # {}
      BY <3>1 DEF Requeuing
    <3> QED
      BY <3>2, <3>3 DEF Stocked
  <2> QED
    BY <2>2, <2>3
<1>6. CASE QbufCount(t)
  <2>1. UNCHANGED <<kq, refcnt, cur>> /\ pc[t] = "inc" /\ pc' = [pc EXCEPT ![t] = "ioctl"]
    BY <1>6 DEF QbufCount, Undisturbed, MayFail, kernVars
  <2>2. Requeuing(b)' = Requeuing(b)
    BY <2>1 DEF Requeuing, TypeOK, TypeThreads
  <2> QED
    BY <1>1, <2>1, <2>2 DEF Stocked, Kernel
<1>7. CASE QbufIoctl(t)
  <2>1. UNCHANGED refcnt /\ pc[t] = "ioctl" /\ cur[t] \in Bufs
    BY <1>7 DEF QbufIoctl, bufVars, TypeOK, TypeThreads
  <2>2. t \in Requeuing(cur[t])
    BY <2>1 DEF Requeuing
  <2>3. cur[t] \notin Kernel
    BY <2>2 DEF Consistent, Location
  <2>4. kq' = kq \cup {cur[t]}
    BY <1>7, <2>3 DEF QbufIoctl, Undisturbed, MayFail
  <2>5. CASE cur[t] = b
    BY <2>4, <2>5 DEF Stocked, Kernel
  <2>6. CASE cur[t] # b
    BY <1>3, <2>1, <2>4, <2>6 DEF Requeuing
  <2> QED
    BY <2>5, <2>6
<1>8. CASE QbufUndo(t) \/ DoneMark(t)
  BY <1>3, <1>8 DEF QbufUndo, DoneMark, Requeuing, kernVars, bufVars
<1> QED
  BY <1>4, <1>5, <1>6, <1>7, <1>8 DEF BufDone

(* No step of a running stream loses a buffer.                               *)
LEMMA StockStep ==
  ASSUME TypeOK, Consistent, Undisturbed, Next, Filling',
         Filling => reqbufs /\ \A b \in Bufs : InUse(b) => Stocked(b)
  PROVE  reqbufs' /\ \A b \in Bufs : InUse(b)' => Stocked(b)'
<1>1. CASE RegBuf \/ RegBufStep \/ RegBufDone
  BY <1>1, RegStock
<1>2. ASSUME Filling, reqbufs' = reqbufs, \A b \in Bufs : InUse(b)' => InUse(b),
             \A b \in Bufs : InUse(b) /\ Stocked(b) => Stocked(b)'
      PROVE  reqbufs' /\ \A b \in Bufs : InUse(b)' => Stocked(b)'
  BY <1>2
<1>3. ASSUME UNCHANGED <<cpc, regIdx>>
      PROVE  Filling /\ \A b \in Bufs : InUse(b)' => InUse(b)
  BY <1>3 DEF Filling, InUse
<1>4. CASE Control
  <2>1. Control => \/ RegBuf \/ RegBufStep \/ RegBufDone \/ Start \/ StreamonScan \/ Streamon
                   \/ ~Filling'
    BY DEF Control, AddStream, Acquire, SetFmt, Release, ChannelStart, GetBuf, RegBufFail,
           StreamonTimeout, StreamonAbort, Streamoff1, Streamoff2, ReleaseCmd, JoinCmd,
           UnregBuf, PutBuf, Filling
  <2>2. CASE Start \/ StreamonScan \/ Streamon
    <3>1. /\ UNCHANGED <<reqbufs, kq, filled, refcnt, pc, cur, ppc, pbuf>>
          /\ cpc \in {"start", "scan", "streamon"}
      BY <2>2 DEF Start, StreamonScan, Streamon, bufVars, kernVars, pollVars, doneVars
    <3>2. Filling /\ \A b \in Bufs : InUse(b)
      BY <3>1 DEF Filling, InUse
    <3> QED
      BY <1>2, <3>1, <3>2 DEF Stocked, Kernel, Requeuing, Dequeued
  <2> QED
    BY <1>1, <1>4, <2>1, <2>2
<1>5. CASE Poll
  <2>1. reqbufs' = reqbufs
    BY <1>5 DEF Poll, ProcPipe, PollData, Notify, Dqbuf, DqbufEmpty, DqCount, TakeRefs,
       NotifyChannel, NotifyLinked, NotifyApp, kernVars
  <2>2. UNCHANGED <<cpc, regIdx>>
    BY <1>5 DEF Poll, ProcPipe, PollData, Notify, Dqbuf, DqbufEmpty, DqCount, TakeRefs,
       NotifyChannel, NotifyLinked, NotifyApp, ctlVars, Filling
  <2> QED
    BY <1>2, <1>3, <1>5, <2>1, <2>2, HandedOn
<1>6. ASSUME NEW c \in Bufs, KernelFill(c) \/ DispatchApp(c) \/ \E w \in Workers : Qbuf(w, c)
      PROVE  reqbufs' /\ \A b \in Bufs : InUse(b)' => Stocked(b)'
  <2>1. UNCHANGED <<reqbufs, cpc, regIdx>>
    BY <1>6 DEF KernelFill, DispatchApp, Qbuf, ctlVars, kernVars
  <2> QED
    BY <1>2, <1>3, <1>6, <2>1, HandedOn
<1>7. ASSUME LinkStream \/ \E c \in Bufs : MapBuf(c)
      PROVE  reqbufs' /\ \A b \in Bufs : InUse(b)' => Stocked(b)'
  <2>1. /\ UNCHANGED <<reqbufs, kq, filled, refcnt, pc, cur, ppc, pbuf, regIdx>>
        /\ cpc' = cpc \/ (cpc = "condwait" /\ cpc' = "streamon")
    BY <1>7 DEF LinkStream, MapBuf, ctlVars, kernVars, pollVars, doneVars
  <2>2. Filling /\ \A b \in Bufs : InUse(b)' => InUse(b)
    BY <2>1 DEF Filling, InUse
  <2> QED
    BY <1>2, <2>1, <2>2 DEF Stocked, Kernel, Requeuing, Dequeued
<1>8. ASSUME NEW t \in Threads, BufDone(t)
      PROVE  reqbufs' /\ \A b \in Bufs : InUse(b)' => Stocked(b)'
  <2>1. UNCHANGED <<reqbufs, cpc, regIdx>>
    BY <1>8 DEF BufDone, DoneCheck, DoneDec, QbufCount, QbufIoctl, QbufUndo, DoneMark,
       ctlVars, kernVars
  <2>2. Filling /\ reqbufs /\ cpc # "put"
    BY <1>3, <2>1 DEF Filling
  <2> QED
    BY <1>2, <1>3, <1>8, <2>1, <2>2, TakenBack
<1> QED
  BY <1>4, <1>5, <1>6, <1>7, <1>8 DEF Next

(* A running stream whose cache and QBUF calls succeed never loses a buffer: *)
(* it is with the driver, referenced, or with a thread that moves it.        *)
THEOREM NoBufferLostThm == Spec => []NoBufferLost
<1>1. Init => StockInv
  BY DEF Init, StockInv, Filling
<1>2. IInv /\ StockInv /\ [Next]_vars => StockInv'
  <2> SUFFICES ASSUME IInv, StockInv, [Next]_vars, Filling', ~overrun', Undisturbed
               PROVE  reqbufs' /\ \A b \in Bufs : InUse(b)' => Stocked(b)'
    BY DEF StockInv, Undisturbed
  <2>1. CASE UNCHANGED vars
    BY <2>1 DEF vars, ctlVars, bufVars, kernVars, pollVars, doneVars, StockInv, Filling, InUse,
       Stocked, Kernel, Requeuing, Dequeued
  <2>2. CASE Next
    <3>1. ~overrun
      BY <2>2, OverrunStays DEF IInv
    <3> QED
      BY <2>2, <3>1, StockStep DEF IInv, StockInv
  <2> QED
    BY <2>1, <2>2
<1>3. StockInv => NoBufferLost
  BY DEF StockInv, NoBufferLost, Undisturbed, Filling, InUse, Stocked
<1> QED
  BY <1>1, <1>2, <1>3, Invariance, PTL DEF Spec
=============================================================================
