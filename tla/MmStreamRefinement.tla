--------------------------- MODULE MmStreamRefinement ---------------------------
(***************************************************************************)
(* MmStream implements BufferLoan: whatever the threads of the stream and  *)
(* its driver do is a step that the loan of buffers allows, or none.       *)
(***************************************************************************)
EXTENDS MmStreamProofs

(* Buffers exist from GET_BUF to PUT_BUF, and the driver has none of them   *)
(* before REG_BUF and after UNREG_BUF.  The latter needs that a queueing    *)
(* loop never stops half way: mm_stream_reg_buf does not take back what it  *)
(* queued before the failure.                                               *)
AllocPhase ==
    /\ alloc <=> cpc \notin {"down", "add", "get"}
    /\ cpc \in {"down", "add", "get", "reg", "put"} => Kernel = {}

LoanInv == IInv /\ (~overrun => AllocPhase)

(* A step of the loan, or none. *)
LoanStep == [Loan!Next]_(Loan!vars)

-----------------------------------------------------------------------------
(* The loans as sums, and the owner of a buffer.                            *)

(* A buffer is lent to those who hold a reference and to the poll thread    *)
(* before it has taken any.                                                 *)
LEMMA LoanFacts ==
  ASSUME TypeOK, NEW b \in Bufs
  PROVE  /\ Loans[b] = Held(b) + One(Dequeued(b))
         /\ Loans[b] \in Nat
         /\ Loans[b] = 0 <=> Free(b) /\ ~Dequeued(b)
<1>1. Loans[b] = Held(b) + One(Dequeued(b))
  BY DEF Loans, Held
<1>2. Held(b) \in Nat /\ (Free(b) <=> Held(b) = 0)
  BY HeldFacts
<1>3. CASE Dequeued(b)
  <2>1. One(Dequeued(b)) = 1
    BY <1>3 DEF One
  <2>2. Held(b) + 1 \in Nat /\ Held(b) + 1 # 0
    BY <1>2
  <2> QED
    BY <1>1, <1>3, <2>1, <2>2, Zenon
<1>4. CASE ~Dequeued(b)
  <2>1. One(Dequeued(b)) = 0
    BY <1>4 DEF One
  <2>2. Held(b) + 0 = Held(b)
    BY <1>2
  <2> QED
    BY <1>1, <1>2, <1>4, <2>1, <2>2, Zenon
<1> QED
  BY <1>3, <1>4

(* The same in the next state. *)
LEMMA LoanFactsNext ==
  ASSUME TypeOK', NEW b \in Bufs
  PROVE  Loans[b]' = Held(b)' + One(Dequeued(b)') /\ Loans[b]' \in Nat
<1>1. Held(b)' \in Nat
  <2>1. IsFiniteSet(Threads)
    BY ConstAssumption, FS_AddElement DEF Threads
  <2>2. IsFiniteSet(Dropping(b)')
    BY <2>1, FS_Subset DEF Dropping
  <2>3. Cardinality(Dropping(b)') \in Nat
    BY <2>2, FS_CardinalityType
  <2>4. tokens'[b] \in Nat /\ cmdQ'[b] \in Nat
    BY DEF TypeOK, TypeThreads
  <2>5. PollRefs(b)' \in Nat
    BY DEF PollRefs, One
  <2> QED
    BY ONLY <2>3, <2>4, <2>5 DEF Held
<1>2. Loans[b]' = Held(b)' + One(Dequeued(b)')
  BY DEF Loans, Held
<1> QED
  BY <1>1, <1>2 DEF One

(* A buffer whose holders stay the same stays lent as often.                *)
LEMMA SameLoan ==
  ASSUME NEW b \in Bufs, tokens'[b] = tokens[b], cmdQ'[b] = cmdQ[b],
         PollRefs(b)' = PollRefs(b), Dropping(b)' = Dropping(b),
         Dequeued(b)' <=> Dequeued(b)
  PROVE  Loans[b]' = Loans[b]
<1>1. One(Dequeued(b))' = One(Dequeued(b))
  BY DEF One
<1>2. Cardinality(Dropping(b))' = Cardinality(Dropping(b))
  OBVIOUS
<1>3. Loans[b] = tokens[b] + cmdQ[b] + PollRefs(b) + Cardinality(Dropping(b)) + One(Dequeued(b))
  BY DEF Loans
<1>4. Loans[b]' = tokens'[b] + cmdQ'[b] + PollRefs(b)' + Cardinality(Dropping(b))'
                    + One(Dequeued(b))'
  BY DEF Loans
<1> QED
  BY <1>1, <1>2, <1>3, <1>4

(* A step that moves no buffer and changes no loan is none of the loan's.   *)
LEMMA NoLoanMoves ==
  ASSUME Kernel' = Kernel, alloc' = alloc, overrun' = overrun,
         \A b \in Bufs : Loans[b]' = Loans[b]
  PROVE  LoanStep
<1>1. Owner' = Owner
  BY DEF Owner
<1>2. Loans' = Loans
  <2>1. Loans = [b \in Bufs |-> Loans[b]] /\ Loans' = [b \in Bufs |-> Loans[b]']
    BY DEF Loans
  <2> QED
    BY <2>1
<1> QED
  BY <1>1, <1>2 DEF LoanStep, Loan!vars

(* A step that changes the loan of one buffer of the user side by one.      *)
LEMMA OneLoanMoves ==
  ASSUME NEW b \in Bufs, b \notin Kernel, alloc,
         Kernel' = Kernel, alloc' = alloc, overrun' = overrun,
         \A c \in Bufs \ {b} : Loans[c]' = Loans[c],
         Loans[b] \in Nat,
         \/ Loans[b]' = Loans[b]
         \/ Loans[b] > 0 /\ Loans[b]' = Loans[b] + 1
         \/ Loans[b] > 0 /\ Loans[b]' = Loans[b] - 1
         \/ Loans[b] = 0 /\ Loans[b]' = 1
  PROVE  LoanStep
<1>1. Owner' = Owner /\ Owner[b] = "user"
  BY DEF Owner
<1>2. Loans' = [Loans EXCEPT ![b] = Loans[b]']
  <2>1. Loans = [c \in Bufs |-> Loans[c]] /\ Loans' = [c \in Bufs |-> Loans[c]']
    BY DEF Loans
  <2> QED
    BY <2>1
<1>3. CASE Loans[b]' = Loans[b]
  BY <1>3, NoLoanMoves
<1>4. CASE Loans[b] > 0 /\ Loans[b]' = Loans[b] + 1
  <2>1. Loan!Share(b)
    BY <1>1, <1>2, <1>4 DEF Loan!Share
  <2> QED
    BY <2>1 DEF LoanStep, Loan!Next, Loan!Step
<1>5. CASE Loans[b] > 0 /\ Loans[b]' = Loans[b] - 1
  <2>1. Loan!Return(b)
    BY <1>1, <1>2, <1>5 DEF Loan!Return
  <2> QED
    BY <2>1 DEF LoanStep, Loan!Next, Loan!Step
<1>6. CASE Loans[b] = 0 /\ Loans[b]' = 1
  <2>1. Loan!Hold(b)
    BY <1>1, <1>2, <1>6 DEF Loan!Hold
  <2> QED
    BY <2>1 DEF LoanStep, Loan!Next, Loan!Step
<1> QED
  BY <1>3, <1>4, <1>5, <1>6

(* A step that gives the driver a buffer nobody holds.                      *)
LEMMA DriverGets ==
  ASSUME NEW b \in Bufs, b \notin Kernel, alloc, Loans[b] = 0,
         Kernel' = Kernel \cup {b}, alloc' = alloc, overrun' = overrun,
         \A c \in Bufs : Loans[c]' = Loans[c]
  PROVE  LoanStep
<1>1. Owner[b] = "user" /\ Owner' = [Owner EXCEPT ![b] = "driver"]
  BY DEF Owner
<1>2. Loans' = Loans
  <2>1. Loans = [c \in Bufs |-> Loans[c]] /\ Loans' = [c \in Bufs |-> Loans[c]']
    BY DEF Loans
  <2> QED
    BY <2>1
<1>3. Loan!Queue(b)
  BY <1>1, <1>2 DEF Loan!Queue
<1> QED
  BY <1>3 DEF LoanStep, Loan!Next, Loan!Step

-----------------------------------------------------------------------------
(* The phases of allocation.                                                *)

(* Only GET_BUF and PUT_BUF change whether buffers exist, and the driver    *)
(* has some only while the stream is registered.                            *)
LEMMA AllocStep ==
  ASSUME "reg_qbuf" \notin Faults,
         TypeOK, Consistent, AllocPhase, Next, ~overrun'
  PROVE  AllocPhase'
<1> USE DEF Consistent, Phases, AllocPhase, Kernel, ctlVars, kernVars
<1>1. CASE UNCHANGED <<cpc, alloc, kq, filled>>
  BY <1>1
<1>2. CASE AddStream \/ Acquire \/ SetFmt \/ Release \/ ChannelStart
  BY <1>2 DEF AddStream, Acquire, SetFmt, Release, ChannelStart
<1>3. CASE GetBuf
  BY <1>3 DEF GetBuf
<1>4. CASE RegBuf
  BY <1>4 DEF RegBuf
<1>5. CASE RegBufStep \/ RegBufDone \/ Start \/ StreamonScan \/ StreamonTimeout
             \/ Streamon \/ StreamonAbort \/ Streamoff1 \/ Streamoff2 \/ ReleaseCmd \/ JoinCmd
  <2>1. /\ cpc \notin {"down", "add", "get", "reg", "put"}
        /\ cpc' \notin {"down", "add", "get", "reg", "put"}
        /\ alloc' = alloc
    BY <1>5 DEF RegBufStep, RegBufDone, Start, StreamonScan, StreamonTimeout, Streamon,
       StreamonAbort, Streamoff1, Streamoff2, ReleaseCmd, JoinCmd
  <2> QED
    BY <2>1
<1>6. CASE UnregBuf \/ PutBuf
  BY <1>6 DEF UnregBuf, PutBuf
<1>7. ~RegBufFail
  BY DEF RegBufFail, MayFail
<1>8. CASE ProcPipe \/ (\E b \in Bufs : MapBuf(b))
  <2>1. /\ cpc' # cpc => /\ cpc \in {"offwait", "abortwait", "condwait"}
                         /\ cpc' \in {"off", "release", "streamon"}
        /\ UNCHANGED <<alloc, kq, filled>>
    BY <1>8 DEF ProcPipe, MapBuf
  <2> QED
    BY <2>1
<1>9. CASE \E b \in Bufs : Dqbuf(b) \/ KernelFill(b)
  <2>1. Kernel' \subseteq Kernel /\ UNCHANGED <<cpc, alloc>>
    BY <1>9 DEF Dqbuf, KernelFill
  <2> QED
    BY <2>1
<1>10. ASSUME NEW t \in Threads, QbufIoctl(t) PROVE AllocPhase'
  <2>1. pc[t] = "ioctl" /\ UNCHANGED <<cpc, alloc, filled>>
    BY <1>10 DEF QbufIoctl
  <2>2. cpc \notin {"down", "add", "get", "reg"}
    BY <2>1 DEF ConsumerPhase, AllIdle
  <2>3. cpc = "put" => kq' = kq
    BY <1>10, <2>1 DEF ConsumerPhase, AllIdle, QbufIoctl
  <2> QED
    BY <2>1, <2>2, <2>3
<1>11. (LinkStream \/ PollData \/ Notify \/ DqbufEmpty \/ DqCount \/ TakeRefs \/ NotifyChannel
          \/ NotifyLinked \/ NotifyApp \/ \E b \in Bufs : DispatchApp(b))
        => UNCHANGED <<cpc, alloc, kq, filled>>
  BY DEF LinkStream, PollData, Notify, DqbufEmpty, DqCount, TakeRefs, NotifyChannel,
         NotifyLinked, NotifyApp, DispatchApp
<1>12. (\E w \in Workers, b \in Bufs : Qbuf(w, b))
         \/ (\E t \in Threads : BufDone(t) /\ ~QbufIoctl(t))
        => UNCHANGED <<cpc, alloc, kq, filled>>
  BY DEF Qbuf, BufDone, DoneCheck, DoneDec, QbufCount, QbufUndo, DoneMark
<1> QED
  BY <1>1, <1>2, <1>3, <1>4, <1>5, <1>6, <1>7, <1>8, <1>9, <1>10, <1>11, <1>12
  DEF Next, Control, Poll

(* With every step the stream's invariant and the phases of allocation hold. *)
LEMMA LoanInvStep ==
  ASSUME "reg_qbuf" \notin Faults, LoanInv, [Next]_vars
  PROVE  LoanInv'
<1>1. IInv'
  BY InvStep DEF LoanInv
<1>2. CASE UNCHANGED vars
  BY <1>1, <1>2 DEF LoanInv, AllocPhase, Kernel, vars, ctlVars, kernVars
<1>3. CASE Next /\ ~overrun'
  <2>1. ~overrun
    BY <1>3, OverrunStays DEF LoanInv, IInv
  <2> QED
    BY <1>1, <1>3, <2>1, AllocStep DEF LoanInv, IInv
<1> QED
  BY <1>1, <1>2, <1>3 DEF LoanInv

-----------------------------------------------------------------------------
(* The steps of the stream, as steps of the loan.                           *)

(* The control thread: buffers are obtained, queued or held at first, given *)
(* up by the driver, and freed.                                             *)
LEMMA ControlLoans ==
  ASSUME "reg_qbuf" \notin Faults,
         TypeOK, TypeOK', Consistent, AllocPhase, AllocPhase', Control, ~overrun'
  PROVE  LoanStep
<1> USE DEF Consistent, Phases
<1>1. CASE RegBufStep
  <2>1. PICK b \in Bufs : b = regIdx
    BY <1>1 DEF RegBufStep
  <2>2. /\ cpc = "regloop" /\ cpc' = "regloop"
        /\ UNCHANGED <<cpc, alloc, overrun, cmdQ, ppc, pbuf, pc, cur, filled>>
    BY <1>1 DEF RegBufStep, cmdVars
  <2>3. alloc /\ b \notin Kernel /\ tokens[b] = 0 /\ cmdQ[b] = 0
    BY <2>1, <2>2 DEF AllocPhase, RegPhase, CmdPhase, ActivePcs, Zero, Bufs
  <2>4. AllIdle /\ ppc \in {"poll", "notify", "dq"}
    BY <2>2 DEF ConsumerPhase, DriverPhase
  <2>5. Free(b) /\ ~Dequeued(b)
    BY <2>3, <2>4, IdleEmpty, PollEmpty DEF Free
  <2>6. \A c \in Bufs : /\ PollRefs(c)' = PollRefs(c) /\ (Dequeued(c)' <=> Dequeued(c))
                        /\ Dropping(c)' = Dropping(c)
    BY <2>2, SamePoll, SameThreads
  <2>7. Loans[b] = 0
    BY <2>5, LoanFacts
  <2>8. CASE RegQueue(b)
    <3>1. Kernel' = Kernel \cup {b} /\ tokens' = tokens
      BY <2>2, <2>8 DEF RegQueue, Kernel
    <3>2. \A c \in Bufs : Loans[c]' = Loans[c]
      BY <2>2, <2>6, <3>1, SameLoan
    <3> QED
      BY <2>2, <2>3, <2>7, <3>1, <3>2, DriverGets
  <2>9. CASE RegHold(b)
    <3>1. Kernel' = Kernel /\ tokens' = [tokens EXCEPT ![b] = @ + 1]
      BY <2>2, <2>9 DEF RegHold, Kernel
    <3>2. \A c \in Bufs \ {b} : Loans[c]' = Loans[c]
      BY <2>2, <2>6, <3>1, SameLoan DEF TypeOK, TypeThreads
    <3>3. Loans[b]' = 1
      <4>1. tokens'[b] = 1 /\ cmdQ'[b] = 0
        BY <2>2, <2>3, <3>1 DEF TypeOK, TypeThreads
      <4>2. PollRefs(b)' = 0 /\ Dropping(b)' = {} /\ ~Dequeued(b)'
        BY <2>5, <2>6 DEF Free
      <4>3. Cardinality(Dropping(b)') = 0 /\ One(Dequeued(b)') = 0
        BY <4>2, FS_EmptySet DEF One
      <4> QED
        BY <4>1, <4>2, <4>3 DEF Loans
    <3> QED
      BY <2>2, <2>3, <2>7, <3>1, <3>2, <3>3, OneLoanMoves
  <2> QED
    BY <1>1, <2>1, <2>8, <2>9 DEF RegBufStep
<1>2. CASE ~RegBufStep
  <2>1. UNCHANGED <<tokens, ppc, pbuf, pc, cur>>
    BY <1>2 DEF Control, AddStream, Acquire, SetFmt, Release, ChannelStart, GetBuf,
       RegBuf, RegBufFail, RegBufDone, Start, StreamonScan, StreamonTimeout,
       Streamon, StreamonAbort, Streamoff1, Streamoff2, ReleaseCmd, JoinCmd, UnregBuf, PutBuf,
       pollVars, doneVars
  <2>2. cmdQ' = cmdQ
    <3>1. Start => cmdQ = Zero
      BY DEF Start, CmdPhase, ActivePcs
    <3> QED
      BY <1>2, <3>1 DEF Control, AddStream, Acquire, SetFmt, Release, ChannelStart, GetBuf,
       RegBuf, RegBufFail, RegBufDone, Start, StreamonScan, StreamonTimeout,
       Streamon, StreamonAbort, Streamoff1, Streamoff2, ReleaseCmd, JoinCmd, UnregBuf, PutBuf,
       cmdVars
  <2>3. \A c \in Bufs : Loans[c]' = Loans[c]
    BY <2>1, <2>2, SamePoll, SameThreads, SameLoan
  <2>4. Loans' = Loans
    <3>1. Loans = [c \in Bufs |-> Loans[c]] /\ Loans' = [c \in Bufs |-> Loans[c]']
      BY DEF Loans
    <3> QED
      BY <2>3, <3>1
  <2>5. CASE GetBuf
    <3>1. Kernel = {} /\ Kernel' = Kernel /\ overrun' = overrun /\ ~alloc
      BY <2>5 DEF GetBuf, AllocPhase, kernVars, Kernel
    <3>2. CASE alloc'
      <4>1. Loan!Allocate
        BY <2>4, <3>1, <3>2 DEF Loan!Allocate, Owner
      <4> QED
        BY <3>1, <4>1 DEF LoanStep, Loan!Next, Loan!Step
    <3>3. CASE ~alloc'
      BY <2>3, <3>1, <3>3, NoLoanMoves, <2>5 DEF GetBuf
    <3> QED
      BY <3>2, <3>3
  <2>6. CASE PutBuf
    <3>1. /\ Kernel = {} /\ Kernel' = Kernel /\ overrun' = overrun /\ alloc /\ ~alloc'
          /\ cpc = "put" /\ tokens = Zero /\ \A t \in Threads : pc[t] = "idle"
      BY <2>6 DEF PutBuf, AllocPhase, kernVars, Kernel, ConsumersDone
    <3>2. cmdQ = Zero /\ ppc \in {"poll", "notify", "dq"}
      BY <3>1 DEF CmdPhase, DriverPhase, ActivePcs
    <3>3. \A c \in Bufs : Free(c) /\ ~Dequeued(c)
      BY <3>1, <3>2, IdleEmpty, PollEmpty DEF Free, AllIdle, Zero
    <3>4. \A c \in Bufs : Loans[c] = 0
      BY <3>3, LoanFacts
    <3>5. Loan!Free
      BY <2>4, <3>1, <3>4 DEF Loan!Free, Owner
    <3> QED
      BY <3>1, <3>5 DEF LoanStep, Loan!Next, Loan!Step
  <2>7. CASE Streamoff2 \/ UnregBuf
    <3>1. Kernel' = {} /\ alloc /\ alloc' /\ Kernel \subseteq Bufs
      BY <2>7 DEF Streamoff2, UnregBuf, AllocPhase, ctlVars, Kernel, TypeOK, TypeShared
    <3>2. Loan!Withdraw
      BY <2>4, <3>1 DEF Loan!Withdraw, Owner
    <3>3. overrun' = overrun
      BY <2>7 DEF Streamoff2, UnregBuf, TypeOK, TypeFlags
    <3> QED
      BY <3>2, <3>3 DEF LoanStep, Loan!Next, Loan!Step
  <2>8. CASE Release \/ RegBuf
    <3>1. Kernel = {} /\ Kernel' = Kernel /\ alloc' = alloc /\ overrun' = overrun
      BY <2>8 DEF Release, RegBuf, AllocPhase, Kernel, ctlVars
    <3> QED
      BY <2>3, <3>1, NoLoanMoves
  <2>9. CASE ~(GetBuf \/ PutBuf \/ Streamoff2 \/ UnregBuf \/ Release \/ RegBuf)
    <3>1. Kernel' = Kernel /\ alloc' = alloc /\ overrun' = overrun
      BY <1>2, <2>9 DEF Control, AddStream, Acquire, SetFmt, ChannelStart,
       RegBufFail, RegBufDone, Start, StreamonScan, StreamonTimeout,
       Streamon, StreamonAbort, Streamoff1, ReleaseCmd, JoinCmd, ctlVars, kernVars, Kernel
    <3> QED
      BY <2>3, <3>1, NoLoanMoves
  <2> QED
    BY <2>5, <2>6, <2>7, <2>8, <2>9
<1> QED
  BY <1>1, <1>2

(* VIDIOC_DQBUF delivers a buffer to the poll thread, its first holder.      *)
LEMMA DqbufLoans ==
  ASSUME TypeOK, TypeOK', Consistent, AllocPhase, NEW b \in Bufs, Dqbuf(b)
  PROVE  LoanStep
<1> USE DEF Consistent, Phases
<1>1. /\ ppc = "dq" /\ ppc' = "count" /\ pbuf' = b /\ b \in filled
      /\ filled' = filled \ {b} /\ kq' = kq
      /\ UNCHANGED <<alloc, overrun, tokens, cmdQ, pc, cur>>
  BY DEF Dqbuf, ctlVars, cmdVars, doneVars
<1>2. \A c \in Bufs : /\ Dropping(c)' = Dropping(c)
                      /\ PollRefs(c) = 0 /\ PollRefs(c)' = 0
                      /\ ~Dequeued(c) /\ (Dequeued(c)' <=> c = b)
  BY <1>1, SameThreads, PollEmpty DEF PollRefs, Dequeued
<1>3. b \in Kernel /\ Free(b) /\ Kernel' = Kernel \ {b} /\ alloc
  BY <1>1 DEF Location, Kernel, AllocPhase
<1>4. Loans[b] = 0 /\ Loans[b]' = 1
  <2>1. Loans[b] = 0
    BY <1>2, <1>3, LoanFacts
  <2>2. tokens'[b] = 0 /\ cmdQ'[b] = 0 /\ PollRefs(b)' = 0 /\ Dropping(b)' = {} /\ Dequeued(b)'
    BY <1>1, <1>2, <1>3 DEF Free
  <2>3. Cardinality(Dropping(b)') = 0 /\ One(Dequeued(b)') = 1
    BY <2>2, FS_EmptySet DEF One
  <2>4. Loans[b]' = tokens'[b] + cmdQ'[b] + PollRefs(b)' + Cardinality(Dropping(b)')
                      + One(Dequeued(b)')
    BY DEF Loans
  <2> QED
    BY ONLY <2>1, <2>2, <2>3, <2>4
<1>5. \A c \in Bufs \ {b} : Loans[c]' = Loans[c]
  BY <1>1, <1>2, SameLoan
<1>6. Loans' = [Loans EXCEPT ![b] = 1]
  <2>1. Loans = [c \in Bufs |-> Loans[c]] /\ Loans' = [c \in Bufs |-> Loans[c]']
    BY DEF Loans
  <2> QED
    BY <1>4, <1>5, <2>1
<1>7. Owner[b] = "driver" /\ Owner' = [Owner EXCEPT ![b] = "user"]
  BY <1>1, <1>3 DEF Owner
<1>8. Loan!Deliver(b)
  BY <1>4, <1>6, <1>7 DEF Loan!Deliver
<1> QED
  BY <1>1, <1>8 DEF LoanStep, Loan!Next, Loan!Step

(* From there the poll thread shares the buffer with a second reference and  *)
(* with a linked channel, or returns it when nobody wants it.                *)
LEMMA PollFrameLoans ==
  ASSUME TypeOK, TypeOK', Consistent, AllocPhase,
         DqCount \/ TakeRefs \/ NotifyChannel \/ NotifyLinked \/ NotifyApp
  PROVE  LoanStep
<1> USE DEF Consistent, Phases
<1>1. PICK p \in Bufs : p = pbuf
  BY DEF DqCount, TakeRefs, NotifyChannel, NotifyLinked, NotifyApp, TypeOK, TypePoll
<1>2. /\ p \in Bufs /\ p = pbuf /\ ppc \in {"count", "ref", "chan", "link", "enq"}
      /\ pbuf' \in {p, NoBuf}
      /\ UNCHANGED <<cpc, alloc, overrun, pc, cur, kq, filled>>
  BY <1>1 DEF DqCount, TakeRefs, NotifyChannel, NotifyLinked, NotifyApp,
         ctlVars, kernVars, doneVars, bufVars, cmdVars
<1>3. Kernel' = Kernel /\ alloc /\ cpc \in {"run", "offwait", "off"}
  BY <1>2 DEF DriverPhase, AllocPhase, Kernel
<1>4. \A c \in Bufs : Dropping(c)' = Dropping(c)
  BY <1>2, SameThreads
<1>5. \A c \in Bufs \ {p} : Loans[c]' = Loans[c]
  <2>1. \A c \in Bufs \ {p} : PollRefs(c)' = PollRefs(c) /\ (Dequeued(c)' <=> Dequeued(c))
    BY <1>2 DEF PollRefs, Dequeued, NoBuf, Bufs
  <2>2. \A c \in Bufs \ {p} : tokens'[c] = tokens[c] /\ cmdQ'[c] = cmdQ[c]
    BY <1>2 DEF DqCount, TakeRefs, NotifyChannel, NotifyLinked, NotifyApp, TypeOK,
                TypeThreads, cmdVars, doneVars
  <2> QED
    BY <1>4, <2>1, <2>2, SameLoan
<1> DEFINE B == One(Bundled)
           C == One(HasCb)
           L == One(linked)
           d == Cardinality(Dropping(p))
           held == tokens[p] + cmdQ[p] + d
<1>6. /\ tokens[p] \in Nat /\ cmdQ[p] \in Nat /\ d \in Nat /\ B \in Nat /\ C \in Nat
      /\ L \in Nat /\ held \in Nat /\ Loans[p] \in Nat
  BY HeldFacts, LoanFacts DEF One
<1>7. /\ Loans[p] = tokens[p] + cmdQ[p] + PollRefs(p) + d + One(Dequeued(p))
      /\ Loans[p]' = tokens'[p] + cmdQ'[p] + PollRefs(p)' + d + One(Dequeued(p)')
  BY <1>4 DEF Loans
<1>8. Dequeued(p) => p \notin Kernel /\ held = 0 /\ Loans[p] = 1 /\ PollRefs(p) = 0
  <2> SUFFICES ASSUME Dequeued(p) PROVE p \notin Kernel /\ held = 0 /\ Loans[p] = 1 /\ PollRefs(p) = 0
    OBVIOUS
  <2>1. p \notin Kernel /\ Free(p)
    BY DEF Location
  <2>2. tokens[p] = 0 /\ cmdQ[p] = 0 /\ PollRefs(p) = 0 /\ Dropping(p) = {} /\ One(Dequeued(p)) = 1
    BY <2>1 DEF Free, One
  <2>3. d = 0
    BY <2>2, FS_EmptySet
  <2>4. held = 0
    BY ONLY <2>2, <2>3
  <2>5. Loans[p] = 1
    BY ONLY <1>7, <2>2, <2>3
  <2> QED
    BY <2>1, <2>2, <2>4, <2>5
<1>9. PollRefs(p) # 0 => p \notin Kernel /\ Loans[p] > 0
  <2> SUFFICES ASSUME PollRefs(p) # 0 PROVE p \notin Kernel /\ Loans[p] > 0
    OBVIOUS
  <2>1. p \notin Kernel /\ ~Free(p)
    BY DEF Location, Free
  <2>2. Loans[p] # 0
    BY <2>1, LoanFacts
  <2> QED
    BY <1>6, <2>1, <2>2
<1>10. CASE DqCount
  <2>1. UNCHANGED <<tokens, cmdQ>> /\ ppc = "count" /\ Dequeued(p)
    BY <1>2, <1>10 DEF DqCount, cmdVars, doneVars, Dequeued
  <2>2. CASE ppc' = "ref" /\ pbuf' = pbuf
    <3>1. Dequeued(p)' /\ PollRefs(p)' = PollRefs(p)
      BY <1>2, <2>1, <2>2 DEF Dequeued, PollRefs
    <3> QED
      BY <1>2, <1>3, <1>4, <1>5, <2>1, <3>1, SameLoan, NoLoanMoves
  <2>3. CASE ppc' = "poll" /\ pbuf' = NoBuf
    <3>1. PollRefs(p)' = 0 /\ One(Dequeued(p)') = 0
      BY <2>3 DEF PollRefs, Dequeued, One
    <3>2. Loans[p]' = Loans[p] - 1 /\ Loans[p] > 0
      <4>1. held = 0 /\ Loans[p] = 1
        BY <1>8, <2>1
      <4>2. Loans[p]' = held + 0 + 0
        BY <1>6, <1>7, <2>1, <3>1
      <4> QED
        BY <4>1, <4>2
    <3> QED
      BY <1>2, <1>3, <1>5, <1>6, <1>8, <2>1, <3>2, OneLoanMoves
  <2> QED
    BY <1>10, <2>2, <2>3 DEF DqCount
<1>11. CASE TakeRefs
  <2>1. /\ UNCHANGED <<tokens, cmdQ, pbuf>> /\ ppc = "ref" /\ ppc' = "chan" /\ Dequeued(p)
    BY <1>2, <1>11 DEF TakeRefs, cmdVars, doneVars, Dequeued
  <2>2. PollRefs(p)' = B + C
    BY <1>2, <2>1 DEF PollRefs
  <2>3. One(Dequeued(p)') = IF B + C = 0 THEN 1 ELSE 0
    BY <1>2, <2>1 DEF Dequeued, One
  <2>4. Loans[p]' = Loans[p] \/ Loans[p]' = Loans[p] + 1
    <3>1. Loans[p]' = B + C + One(Dequeued(p)')
      BY <1>6, <1>7, <1>8, <2>1, <2>2
    <3>2. B \in {0, 1} /\ C \in {0, 1}
      BY DEF One
    <3> QED
      BY <1>8, <2>1, <2>3, <3>1, <3>2
  <2> QED
    BY <1>2, <1>3, <1>5, <1>6, <1>8, <2>1, <2>4, OneLoanMoves
<1>12. CASE NotifyChannel
  <2>1. /\ UNCHANGED <<cmdQ, pbuf>> /\ ppc = "chan" /\ ppc' = "link"
        /\ tokens'[p] = tokens[p] + B
    BY <1>2, <1>12 DEF NotifyChannel, cmdVars, TypeOK, TypeThreads
  <2>2. PollRefs(p) = B + C /\ PollRefs(p)' = C
    BY <1>2, <2>1 DEF PollRefs
  <2>3. One(Dequeued(p)') = One(Dequeued(p)) /\ One(Dequeued(p)) \in Nat
    BY <1>2, <2>1 DEF Dequeued, One
  <2>4. Loans[p]' = Loans[p]
    BY <1>6, <1>7, <2>1, <2>2, <2>3
  <2> QED
    BY <1>2, <1>3, <1>5, <2>4, NoLoanMoves
<1>13. CASE NotifyLinked
  <2>1. /\ UNCHANGED <<cmdQ, pbuf>> /\ ppc = "link" /\ ppc' = "enq"
        /\ tokens'[p] = tokens[p] + L
    BY <1>2, <1>13 DEF NotifyLinked, cmdVars, TypeOK, TypeThreads
  <2>2. PollRefs(p) = C /\ PollRefs(p)' = C /\ One(Dequeued(p)') = 0
    BY <1>2, <2>1 DEF PollRefs, Dequeued, One
  <2>3. L \in {0, 1} /\ One(Dequeued(p)) \in {0, 1}
    BY DEF One
  <2>4. Loans[p]' = Loans[p] + L - One(Dequeued(p))
    BY <1>6, <1>7, <2>1, <2>2, <2>3
  <2>5. CASE Loans[p]' = Loans[p]
    BY <1>2, <1>3, <1>5, <2>5, NoLoanMoves
  <2>6. CASE Loans[p]' # Loans[p]
    <3>1. \/ L = 1 /\ ~Dequeued(p) /\ Loans[p]' = Loans[p] + 1
          \/ L = 0 /\ Dequeued(p) /\ Loans[p]' = Loans[p] - 1
      <4>1. CASE Dequeued(p)
        BY <1>6, <2>3, <2>4, <2>6, <4>1 DEF One
      <4>2. CASE ~Dequeued(p)
        BY <1>6, <2>3, <2>4, <2>6, <4>2 DEF One
      <4> QED
        BY <4>1, <4>2
    <3>2. p \notin Kernel /\ Loans[p] > 0
      <4>1. CASE Dequeued(p)
        BY <1>8, <4>1
      <4>2. CASE ~Dequeued(p)
        <5>1. linked
          BY <3>1, <4>2 DEF One
        <5>2. HasCb \/ Bundled
          BY <1>2, <2>1, <4>2 DEF Dequeued
        <5>3. HasCb
          BY <5>1, <5>2, LinkAssumption DEF CmdPhase
        <5>4. PollRefs(p) # 0
          BY <2>2, <5>3 DEF One
        <5> QED
          BY <1>9, <5>4
      <4> QED
        BY <4>1, <4>2
    <3> QED
      BY <1>2, <1>3, <1>5, <1>6, <3>1, <3>2, OneLoanMoves
  <2> QED
    BY <2>5, <2>6
<1>14. CASE NotifyApp
  <2>1. HasCb => cmdActive
    BY <1>3 DEF CmdPhase, ActivePcs
  <2>2. tokens' = tokens /\ ppc = "enq" /\ ppc' = "poll" /\ cmdQ'[p] = cmdQ[p] + C
    BY <1>2, <1>6, <1>14, <2>1 DEF NotifyApp, doneVars, TypeOK, TypeThreads, One
  <2>3. /\ PollRefs(p) = C /\ PollRefs(p)' = 0
        /\ One(Dequeued(p)) = 0 /\ One(Dequeued(p)') = 0
    BY <1>2, <2>2 DEF PollRefs, Dequeued, NoBuf, Bufs, One
  <2>4. Loans[p]' = Loans[p]
    BY <1>6, <1>7, <2>2, <2>3
  <2> QED
    BY <1>2, <1>3, <1>5, <2>4, NoLoanMoves
<1> QED
  BY <1>10, <1>11, <1>12, <1>13, <1>14

(* The driver, the mapping thread, a linking channel, and the poll thread    *)
(* between frames move no buffer across the border and no loan.              *)
LEMMA QuietLoans ==
  ASSUME TypeOK, TypeOK', Consistent,
         \/ ProcPipe \/ PollData \/ Notify \/ DqbufEmpty \/ LinkStream
         \/ \E b \in Bufs : MapBuf(b) \/ KernelFill(b)
  PROVE  LoanStep
<1>1. /\ UNCHANGED <<alloc, overrun, tokens, cmdQ, pc, cur>> /\ Kernel' = Kernel
  BY DEF ProcPipe, PollData, Notify, DqbufEmpty, LinkStream, MapBuf, KernelFill,
         ctlVars, kernVars, cmdVars, doneVars, Kernel
<1>2. \A c \in Bufs : /\ PollRefs(c)' = PollRefs(c) /\ (Dequeued(c)' <=> Dequeued(c))
  <2>1. CASE UNCHANGED <<ppc, pbuf>>
    BY <2>1, SamePoll
  <2>2. CASE PollData \/ Notify \/ DqbufEmpty
    <3>1. ppc \in {"poll", "notify", "dq"} /\ ppc' \in {"poll", "notify", "dq"}
      BY <2>2 DEF PollData, Notify, DqbufEmpty
    <3> QED
      BY <3>1, PollEmpty, PollEmptyNext
  <2>3. ~(PollData \/ Notify \/ DqbufEmpty) => UNCHANGED <<ppc, pbuf>>
    BY DEF ProcPipe, LinkStream, MapBuf, KernelFill, pollVars
  <2> QED
    BY <2>1, <2>2, <2>3
<1>3. \A c \in Bufs : Loans[c]' = Loans[c]
  BY <1>1, <1>2, SameThreads, SameLoan
<1> QED
  BY <1>1, <1>3, NoLoanMoves

(* mm_stream_dispatch_app_data shares the queue's loan with the application. *)
LEMMA DispatchLoans ==
  ASSUME TypeOK, TypeOK', Consistent, AllocPhase, NEW b \in Bufs, DispatchApp(b)
  PROVE  LoanStep
<1> USE DEF Consistent, Phases
<1>1. /\ cmdQ[b] > 0 /\ "cmd" \in Threads /\ pc["cmd"] = "idle"
      /\ pc' = [pc EXCEPT !["cmd"] = "check"] /\ cur' = [cur EXCEPT !["cmd"] = b]
      /\ UNCHANGED <<cpc, alloc, overrun, ppc, pbuf, kq, filled>>
  BY DEF DispatchApp, Threads, ctlVars, kernVars, pollVars
<1>2. cpc \in ActivePcs
  BY <1>1 DEF CmdPhase, Zero
<1>3. b \notin Kernel /\ Kernel' = Kernel /\ alloc
  BY <1>1, <1>2 DEF Location, Free, AllocPhase, ActivePcs, Kernel
<1>4. /\ \A c \in Bufs \ {b} : Dropping(c)' = Dropping(c)
      /\ Cardinality(Dropping(b)') = Cardinality(Dropping(b)) + 1
  BY <1>1, ThreadJoins
<1>5. \A c \in Bufs : PollRefs(c)' = PollRefs(c) /\ (Dequeued(c)' <=> Dequeued(c))
  BY <1>1, SamePoll
<1>6. \A c \in Bufs \ {b} : Loans[c]' = Loans[c]
  <2>1. \A c \in Bufs \ {b} : tokens'[c] = tokens[c] /\ cmdQ'[c] = cmdQ[c]
    BY DEF DispatchApp, TypeOK, TypeThreads
  <2> QED
    BY <1>4, <1>5, <2>1, SameLoan
<1>7. tokens'[b] = tokens[b] + 1 /\ cmdQ'[b] = cmdQ[b] - 1
  BY DEF DispatchApp, TypeOK, TypeThreads
<1>8. Loans[b]' = Loans[b] + 1 /\ Loans[b] > 0 /\ Loans[b] \in Nat
  <2>1. /\ Loans[b] = Held(b) + One(Dequeued(b)) /\ Loans[b]' = Held(b)' + One(Dequeued(b)')
        /\ One(Dequeued(b)') = One(Dequeued(b)) /\ One(Dequeued(b)) \in Nat
        /\ Held(b) \in Nat
    BY <1>5, LoanFacts, LoanFactsNext, HeldFacts DEF One
  <2>2. /\ Held(b) = tokens[b] + cmdQ[b] + PollRefs(b) + Cardinality(Dropping(b))
        /\ Held(b)' = tokens'[b] + cmdQ'[b] + PollRefs(b)' + Cardinality(Dropping(b)')
    BY DEF Held
  <2>3. Held(b)' = Held(b) + 1 /\ Held(b) > 0
    BY <1>1, <1>4, <1>5, <1>7, <2>2, HeldFacts
  <2> QED
    BY ONLY <2>1, <2>3
<1> QED
  BY <1>1, <1>3, <1>6, <1>8, OneLoanMoves

(* QBUF passes a loan to the thread that returns it; a stream that is no     *)
(* longer active returns it at once.                                         *)
LEMMA QbufLoans ==
  ASSUME TypeOK, TypeOK', Consistent, AllocPhase, NEW w \in Workers, NEW b \in Bufs, Qbuf(w, b)
  PROVE  LoanStep
<1> USE DEF Consistent, Phases
<1>1. /\ tokens[b] > 0 /\ w \in Threads /\ pc[w] = "idle"
      /\ UNCHANGED <<cpc, alloc, overrun, cmdQ, ppc, pbuf, kq, filled>>
  BY DEF Qbuf, Threads, ctlVars, kernVars, pollVars, cmdVars
<1>2. cpc \notin {"down", "add", "get", "reg"}
  BY <1>1 DEF ConsumerPhase, Zero
<1>3. b \notin Kernel /\ Kernel' = Kernel /\ alloc
  <2>1. ~Free(b)
    BY <1>1, HeldFacts DEF Free
  <2> QED
    BY <1>1, <1>2, <2>1 DEF Location, AllocPhase, Kernel
<1>4. \A c \in Bufs : PollRefs(c)' = PollRefs(c) /\ (Dequeued(c)' <=> Dequeued(c))
  BY <1>1, SamePoll
<1>5. /\ \A c \in Bufs \ {b} : tokens'[c] = tokens[c]
      /\ tokens'[b] = tokens[b] - 1
  BY DEF Qbuf, TypeOK, TypeThreads
<1>6. /\ \A c \in Bufs \ {b} : Dropping(c)' = Dropping(c)
      /\ \/ Cardinality(Dropping(b)') = Cardinality(Dropping(b))
         \/ Cardinality(Dropping(b)') = Cardinality(Dropping(b)) + 1
  <2>1. CASE state = "ACTIVE"
    <3>1. pc' = [pc EXCEPT ![w] = "check"] /\ cur' = [cur EXCEPT ![w] = b]
      BY <2>1 DEF Qbuf
    <3> QED
      BY <1>1, <3>1, ThreadJoins
  <2>2. CASE state # "ACTIVE"
    <3>1. pc' = pc /\ cur' = cur
      BY <2>2 DEF Qbuf
    <3> QED
      BY <3>1, SameThreads
  <2> QED
    BY <2>1, <2>2
<1>7. \A c \in Bufs \ {b} : Loans[c]' = Loans[c]
  BY <1>1, <1>4, <1>5, <1>6, SameLoan
<1>8. /\ Loans[b] > 0 /\ Loans[b] \in Nat
      /\ Loans[b]' = Loans[b] \/ Loans[b]' = Loans[b] - 1
  <2>1. /\ Loans[b] = Held(b) + One(Dequeued(b)) /\ Loans[b]' = Held(b)' + One(Dequeued(b)')
        /\ One(Dequeued(b)') = One(Dequeued(b)) /\ One(Dequeued(b)) \in Nat
        /\ Held(b) \in Nat
    BY <1>4, LoanFacts, LoanFactsNext, HeldFacts DEF One
  <2>2. /\ Held(b) = tokens[b] + cmdQ[b] + PollRefs(b) + Cardinality(Dropping(b))
        /\ Held(b)' = tokens'[b] + cmdQ'[b] + PollRefs(b)' + Cardinality(Dropping(b)')
    BY DEF Held
  <2>3. Held(b) > 0 /\ (Held(b)' = Held(b) \/ Held(b)' = Held(b) - 1)
    BY <1>1, <1>4, <1>5, <1>6, <2>2, HeldFacts
  <2> QED
    BY ONLY <2>1, <2>3
<1> QED
  BY <1>1, <1>3, <1>7, <1>8, OneLoanMoves

(* mm_stream_buf_done returns the loan with its reference, or at once when   *)
(* the count is already zero; the driver gets a buffer that nobody holds.    *)
LEMMA BufDoneLoans ==
  ASSUME TypeOK, TypeOK', Consistent, AllocPhase, NEW t \in Threads, BufDone(t)
  PROVE  LoanStep
<1> USE DEF Consistent, Phases
<1>1. PICK b \in Bufs : b = cur[t]
  BY DEF BufDone, DoneCheck, DoneDec, QbufCount, QbufIoctl, QbufUndo, DoneMark, TypeOK, TypeThreads
<1>2. /\ pc[t] # "idle"
      /\ UNCHANGED <<cpc, alloc, overrun, tokens, cmdQ, ppc, pbuf, filled>>
  BY DEF BufDone, DoneCheck, DoneDec, QbufCount, QbufIoctl, QbufUndo, DoneMark,
         ctlVars, kernVars, pollVars, cmdVars
<1>3. \A u \in Threads \ {t} : pc'[u] = pc[u] /\ cur'[u] = cur[u]
  BY DEF BufDone, DoneCheck, DoneDec, QbufCount, QbufIoctl, QbufUndo, DoneMark,
         Return, TypeOK, TypeThreads
<1>4. alloc
  BY <1>2 DEF ConsumerPhase, AllIdle, AllocPhase
<1>5. \A c \in Bufs : PollRefs(c)' = PollRefs(c) /\ (Dequeued(c)' <=> Dequeued(c))
  BY <1>2, SamePoll
<1>6. CASE DoneCheck(t) \/ DoneDec(t)
  <2>1. /\ pc[t] \in {"check", "dec"} /\ kq' = kq
        /\ pc'[t] \in {"idle", "dec", "inc"} /\ (pc'[t] = "dec" => cur'[t] = cur[t])
    BY <1>6 DEF DoneCheck, DoneDec, Return, kernVars, TypeOK, TypeThreads
  <2>2. t \in Dropping(b) /\ Kernel' = Kernel
    BY <1>1, <1>2, <2>1 DEF Dropping, Kernel
  <2>3. ~Free(b)
    BY <2>2 DEF Free
  <2>4. b \notin Kernel
    BY <2>3 DEF Location
  <2>5. \A c \in Bufs \ {b} : Dropping(c)' = Dropping(c)
    BY <1>1, <1>3, <2>1 DEF Dropping
  <2>6. \A c \in Bufs \ {b} : Loans[c]' = Loans[c]
    BY <1>2, <1>5, <2>5, SameLoan
  <2>7. Dropping(b)' = Dropping(b) \/ Dropping(b)' = Dropping(b) \ {t}
    BY <1>1, <1>3, <2>1 DEF Dropping
  <2>8. \/ Cardinality(Dropping(b)') = Cardinality(Dropping(b))
        \/ Cardinality(Dropping(b)') = Cardinality(Dropping(b)) - 1
    BY <2>2, <2>7, HeldFacts, FS_RemoveElement
  <2>9. /\ Loans[b] > 0 /\ Loans[b] \in Nat
        /\ Loans[b]' = Loans[b] \/ Loans[b]' = Loans[b] - 1
    <3>1. /\ Loans[b] = Held(b) + One(Dequeued(b)) /\ Loans[b]' = Held(b)' + One(Dequeued(b)')
          /\ One(Dequeued(b)') = One(Dequeued(b)) /\ One(Dequeued(b)) \in Nat
          /\ Held(b) \in Nat /\ Held(b) # 0
      BY <1>5, <2>3, LoanFacts, LoanFactsNext, HeldFacts DEF One
    <3>2. /\ Held(b) = tokens[b] + cmdQ[b] + PollRefs(b) + Cardinality(Dropping(b))
          /\ Held(b)' = tokens'[b] + cmdQ'[b] + PollRefs(b)' + Cardinality(Dropping(b)')
      BY DEF Held
    <3>3. Held(b)' = Held(b) \/ Held(b)' = Held(b) - 1
      BY <1>2, <1>5, <2>8, <3>2, HeldFacts
    <3> QED
      BY ONLY <3>1, <3>3
  <2> QED
    BY <1>2, <1>4, <2>2, <2>4, <2>6, <2>9, OneLoanMoves
<1>7. CASE QbufCount(t) \/ QbufIoctl(t) \/ QbufUndo(t) \/ DoneMark(t)
  <2>1. pc[t] \in {"inc", "ioctl", "undo", "mark"} /\ pc'[t] \in {"idle", "ioctl", "mark", "undo"}
    BY <1>7 DEF QbufCount, QbufIoctl, QbufUndo, DoneMark, Return, TypeOK, TypeThreads
  <2>2. \A c \in Bufs : Dropping(c)' = Dropping(c)
    BY <1>3, <2>1 DEF Dropping
  <2>3. \A c \in Bufs : Loans[c]' = Loans[c]
    BY <1>2, <1>5, <2>2, SameLoan
  <2>4. CASE kq' = kq
    <3>1. Kernel' = Kernel
      BY <1>2, <2>4 DEF Kernel
    <3> QED
      BY <1>2, <2>3, <3>1, NoLoanMoves
  <2>5. CASE kq' # kq
    <3>1. pc[t] = "ioctl" /\ kq' = kq \cup {b} /\ b \notin Kernel /\ reqbufs
      BY <1>1, <1>7, <2>5 DEF QbufCount, QbufIoctl, QbufUndo, DoneMark, kernVars
    <3>2. Kernel' = Kernel \cup {b} /\ cpc # "put" /\ t \in Requeuing(b)
      BY <1>1, <1>2, <3>1, BusyPhase DEF Kernel, Requeuing
    <3>3. Free(b) /\ ~Dequeued(b)
      BY <3>2 DEF Location
    <3>4. Loans[b] = 0
      BY <3>3, LoanFacts
    <3> QED
      BY <1>2, <1>4, <2>3, <3>1, <3>2, <3>4, DriverGets
  <2> QED
    BY <2>4, <2>5
<1> QED
  BY <1>6, <1>7 DEF BufDone

-----------------------------------------------------------------------------
(* Every step of the stream is a step of the loan, or none; once a STREAMOFF *)
(* has overtaken the poll thread the loan allows any.                        *)
LEMMA StepLoans ==
  ASSUME "reg_qbuf" \notin Faults, LoanInv, [Next]_vars
  PROVE  LoanStep
<1>1. CASE UNCHANGED vars
  <2>1. /\ UNCHANGED <<alloc, overrun, tokens, cmdQ, pc, cur, ppc, pbuf>> /\ Kernel' = Kernel
    BY <1>1 DEF vars, ctlVars, kernVars, pollVars, cmdVars, doneVars, Kernel
  <2>2. \A c \in Bufs : Loans[c]' = Loans[c]
    BY <2>1, SamePoll, SameThreads, SameLoan
  <2> QED
    BY <2>1, <2>2, NoLoanMoves
<1>2. CASE overrun'
  BY <1>2 DEF LoanStep, Loan!Next
<1>3. CASE Next /\ ~overrun'
  <2>1. TypeOK' /\ LoanInv'
    BY LoanInvStep DEF LoanInv, IInv
  <2>2. AllocPhase'
    BY <1>3, <2>1 DEF LoanInv
  <2>3. ~overrun
    BY <1>3, OverrunStays DEF LoanInv, IInv
  <2>4. TypeOK /\ Consistent /\ AllocPhase
    BY <2>3 DEF LoanInv, IInv
  <2>5. CASE Control
    BY <1>3, <2>1, <2>2, <2>4, <2>5, ControlLoans
  <2>6. CASE Poll
    BY <2>1, <2>4, <2>6, QuietLoans, DqbufLoans, PollFrameLoans DEF Poll
  <2>7. CASE LinkStream
    BY <2>1, <2>4, <2>7, QuietLoans
  <2>8. ASSUME NEW b \in Bufs, MapBuf(b) \/ KernelFill(b) \/ DispatchApp(b) PROVE LoanStep
    BY <2>1, <2>4, <2>8, QuietLoans, DispatchLoans
  <2>9. ASSUME NEW w \in Workers, NEW b \in Bufs, Qbuf(w, b) PROVE LoanStep
    BY <2>1, <2>4, <2>9, QbufLoans
  <2>10. ASSUME NEW t \in Threads, BufDone(t) PROVE LoanStep
    BY <2>1, <2>4, <2>10, BufDoneLoans
  <2> QED
    BY <1>3, <2>5, <2>6, <2>7, <2>8, <2>9, <2>10 DEF Next
<1> QED
  BY <1>1, <1>2, <1>3

(* A stream without buffers lends none.                                      *)
LEMMA InitLoans == Init => Loan!Init /\ LoanInv
<1> SUFFICES ASSUME Init PROVE Loan!Init /\ LoanInv
  OBVIOUS
<1>1. TypeOK /\ IInv
  BY InvInit DEF IInv
<1>2. Kernel = {} /\ ~alloc /\ cpc = "down" /\ overrun = FALSE
  BY DEF Init, Kernel
<1>3. \A c \in Bufs : Free(c) /\ ~Dequeued(c)
  <2>1. AllIdle /\ ppc = "poll" /\ tokens = Zero /\ cmdQ = Zero
    BY DEF Init, AllIdle
  <2> QED
    BY <2>1, IdleEmpty, PollEmpty DEF Free, Zero
<1>4. \A c \in Bufs : Loans[c] = 0
  BY <1>1, <1>3, LoanFacts
<1>5. Loans = [c \in Bufs |-> 0]
  <2>1. Loans = [c \in Bufs |-> Loans[c]]
    BY DEF Loans
  <2> QED
    BY <1>4, <2>1
<1> QED
  BY <1>1, <1>2, <1>5 DEF Loan!Init, Owner, LoanInv, AllocPhase

(* The stream implements the loan of its buffers: a frame goes back to the   *)
(* driver, and the buffers are freed, only when nobody holds one any more,   *)
(* provided that no VIDIOC_QBUF of the registration fails.                   *)
THEOREM Refinement ==
  ASSUME "reg_qbuf" \notin Faults
  PROVE  Spec => ImplementsLoan
<1>1. LoanInv /\ [Next]_vars => LoanInv'
  BY LoanInvStep
<1>2. LoanInv /\ [Next]_vars => [Loan!Next]_(Loan!vars)
  BY StepLoans DEF LoanStep
<1> QED
  BY InitLoans, <1>1, <1>2, PTL DEF Spec, ImplementsLoan, Loan!Spec
=============================================================================
