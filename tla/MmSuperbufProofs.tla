-------------------------- MODULE MmSuperbufProofs --------------------------
(* Proofs about MmSuperbuf: what is asked for and the ZSL snapshots, in     *)
(* every mode of the queue; the queue itself, the buffers and the order of  *)
(* dispatch, when every superbuf is matched from all its streams.           *)
EXTENDS MmSuperbuf, SequenceTheorems, FiniteSetTheorems, WellFoundedInduction, TLAPS

-----------------------------------------------------------------------------
(* What is asked for.                                                       *)

Places4 == {"off", "wait", "meta", "comp", "skip", "zsl", "drain", "loop"}
Cmds == [type : {"DATA"}, buf : Bufs] \cup Calls \cup [type : {"EXIT"}]
Channel ==
    [pending_cnt : Nat, pending_retro_cnt : Nat,
     bWaitForPrepSnapshotDone : BOOLEAN, unLockAEC : BOOLEAN,
     stopZslSnapshot : BOOLEAN, manualZSLSnapshot : BOOLEAN,
     startZSlSnapshotCalled : BOOLEAN, needLEDFlash : BOOLEAN,
     bracketingState : {"off", "wait", "active"}, isFlashBracketingEnabled : BOOLEAN,
     isZoom1xFrameRequested : BOOLEAN, burstSnapNum : Nat,
     diverted_frame_id : Nat]

ChTypes ==
    /\ pc \in Places4 /\ active \in BOOLEAN /\ zslOn \in BOOLEAN
    /\ cmdQ \in Seq(Cmds) /\ ch \in Channel
    /\ DOMAIN sq = DOMAIN InitSq /\ sq.notify_mode \in NotifyModes
    /\ ~active => pc = "off"

(* The flag startZSlSnapshotCalled, the daemon and the request agree, but   *)
(* between a command and the look at the ZSL snapshot that follows it.      *)
ZslInv ==
    /\ pc \in {"off", "wait", "drain", "loop"} /\ ch.pending_cnt = 0 /\ ~ch.manualZSLSnapshot =>
           ~zslOn /\ ~ch.startZSlSnapshotCalled
    /\ zslOn /\ ~ch.manualZSLSnapshot => ch.startZSlSnapshotCalled
    /\ ch.stopZslSnapshot \/ ch.burstSnapNum > 0 => ch.startZSlSnapshotCalled

RequestInv == ChTypes /\ RetroFirst /\ ZslInv

LEMMA CmdTaken ==
  ASSUME cmdQ \in Seq(Cmds), cmdQ # <<>>
  PROVE  Head(cmdQ) \in Cmds /\ Tail(cmdQ) \in Seq(Cmds)
BY HeadTailProperties

LEMMA CmdAdded ==
  ASSUME cmdQ \in Seq(Cmds), NEW c \in Cmds
  PROVE  Append(cmdQ, c) \in Seq(Cmds)
BY AppendProperties

LEMMA CountedTyped ==
  ASSUME ChTypes, RetroFirst, ZslInv, Wanted, pc = "loop"
  PROVE  /\ Counted \in Channel
         /\ Counted.pending_retro_cnt <= Counted.pending_cnt
         /\ Counted.bWaitForPrepSnapshotDone => Counted.pending_retro_cnt = 0
         /\ Counted.manualZSLSnapshot = ch.manualZSLSnapshot
         /\ Counted.pending_cnt = 0 /\ ~ch.manualZSLSnapshot => ~Counted.startZSlSnapshotCalled
         /\ Counted.startZSlSnapshotCalled => ch.startZSlSnapshotCalled
         /\ Counted.stopZslSnapshot \/ Counted.burstSnapNum > 0 => Counted.startZSlSnapshotCalled
<1>1. CASE sq.notify_mode = "continuous"
  <2>1. Counted = ch
    BY <1>1 DEF Counted
  <2>2. ch.pending_cnt = 0 /\ ~ch.manualZSLSnapshot => ~ch.startZSlSnapshotCalled
    BY DEF ZslInv
  <2> QED
    BY <2>1, <2>2 DEF ChTypes, RetroFirst, ZslInv
<1> DEFINE c == [ch EXCEPT
                !.pending_cnt = @ - 1,
                !.pending_retro_cnt = IF @ > 0 THEN @ - 1 ELSE 0,
                !.bWaitForPrepSnapshotDone = @ \/ ch.pending_retro_cnt = 1]
<1>2. CASE sq.notify_mode # "continuous"
  <2>1. ch.pending_cnt \in Nat /\ ch.pending_cnt > 0 /\ ch.pending_retro_cnt \in Nat
    BY <1>2 DEF Wanted, ChTypes, Channel
  <2>2. /\ c \in Channel /\ c.pending_cnt = ch.pending_cnt - 1
        /\ c.pending_retro_cnt = IF ch.pending_retro_cnt > 0 THEN ch.pending_retro_cnt - 1 ELSE 0
        /\ c.bWaitForPrepSnapshotDone <=> ch.bWaitForPrepSnapshotDone \/ ch.pending_retro_cnt = 1
        /\ c.manualZSLSnapshot = ch.manualZSLSnapshot
        /\ c.startZSlSnapshotCalled = ch.startZSlSnapshotCalled
        /\ c.stopZslSnapshot = ch.stopZslSnapshot /\ c.burstSnapNum = ch.burstSnapNum
    <3>1. ch \in Channel
      BY DEF ChTypes
    <3>2. /\ c.pending_cnt = ch.pending_cnt - 1
          /\ c.pending_retro_cnt = IF ch.pending_retro_cnt > 0 THEN ch.pending_retro_cnt - 1 ELSE 0
          /\ c.bWaitForPrepSnapshotDone = (ch.bWaitForPrepSnapshotDone \/ ch.pending_retro_cnt = 1)
          /\ c.manualZSLSnapshot = ch.manualZSLSnapshot
          /\ c.startZSlSnapshotCalled = ch.startZSlSnapshotCalled
          /\ c.stopZslSnapshot = ch.stopZslSnapshot /\ c.burstSnapNum = ch.burstSnapNum
      BY <3>1 DEF Channel
    <3>3. c \in Channel
      <4> DEFINE n == ch.pending_cnt - 1
                 r == IF ch.pending_retro_cnt > 0 THEN ch.pending_retro_cnt - 1 ELSE 0
                 b == ch.bWaitForPrepSnapshotDone \/ ch.pending_retro_cnt = 1
      <4>1. n \in Nat /\ r \in Nat
        BY <2>1
      <4>3. b \in BOOLEAN
        BY Zenon
      <4>2. c = [ch EXCEPT !.pending_cnt = n, !.pending_retro_cnt = r, !.bWaitForPrepSnapshotDone = b]
        OBVIOUS
      <4> HIDE DEF n, r, b, c
      <4> QED
        BY <3>1, <4>1, <4>2, <4>3 DEF Channel
    <3> QED
      BY <3>2, <3>3
  <2>3. c.pending_retro_cnt <= c.pending_cnt /\ (c.bWaitForPrepSnapshotDone => c.pending_retro_cnt = 0)
    BY <2>1, <2>2 DEF RetroFirst
  <2> HIDE DEF c
  <2>4. Counted = IF ZslStops(c) THEN StoppedZsl(c) ELSE c
    BY <1>2 DEF Counted, c
  <2>5. CASE ZslStops(c)
    <3>1. /\ StoppedZsl(c) \in Channel /\ StoppedZsl(c).pending_cnt = c.pending_cnt
          /\ StoppedZsl(c).pending_retro_cnt = c.pending_retro_cnt
          /\ StoppedZsl(c).bWaitForPrepSnapshotDone = c.bWaitForPrepSnapshotDone
          /\ StoppedZsl(c).manualZSLSnapshot = c.manualZSLSnapshot
          /\ ~StoppedZsl(c).startZSlSnapshotCalled /\ ~StoppedZsl(c).stopZslSnapshot
          /\ StoppedZsl(c).burstSnapNum = 0
      BY <2>2 DEF StoppedZsl, Channel
    <3> QED
      BY <2>2, <2>3, <2>4, <2>5, <3>1
  <2>6. CASE ~ZslStops(c)
    BY <2>2, <2>3, <2>4, <2>6 DEF ZslStops, ZslInv
  <2> QED
    BY <2>5, <2>6
<1> QED
  BY <1>1, <1>2

LEMMA DispatchedTyped ==
  ASSUME RequestInv, Wanted, pc = "loop", pc' = pc, cmdQ' = cmdQ, active' = active,
         zslOn' = (zslOn /\ ~LastOne), sq' = Popped,
         ch' = Counted \/ ch' = [Counted EXCEPT !.unLockAEC = FALSE]
  PROVE  RequestInv'
<1>1. /\ Counted \in Channel
      /\ Counted.pending_retro_cnt <= Counted.pending_cnt
      /\ Counted.bWaitForPrepSnapshotDone => Counted.pending_retro_cnt = 0
      /\ Counted.manualZSLSnapshot = ch.manualZSLSnapshot
      /\ Counted.pending_cnt = 0 /\ ~ch.manualZSLSnapshot => ~Counted.startZSlSnapshotCalled
      /\ Counted.startZSlSnapshotCalled => ch.startZSlSnapshotCalled
      /\ Counted.stopZslSnapshot \/ Counted.burstSnapNum > 0 => Counted.startZSlSnapshotCalled
  BY CountedTyped DEF RequestInv
<1> DEFINE c == Counted
<1>2. /\ c.startZSlSnapshotCalled \in BOOLEAN /\ ch.startZSlSnapshotCalled \in BOOLEAN
      /\ c.manualZSLSnapshot \in BOOLEAN
  BY <1>1 DEF RequestInv, ChTypes, Channel
<1>3. LastOne <=> ch.startZSlSnapshotCalled /\ ~c.startZSlSnapshotCalled
  BY DEF LastOne
<1>4. /\ ch' \in Channel /\ ch'.pending_cnt = c.pending_cnt
      /\ ch'.pending_retro_cnt = c.pending_retro_cnt
      /\ ch'.bWaitForPrepSnapshotDone = c.bWaitForPrepSnapshotDone
      /\ ch'.manualZSLSnapshot = c.manualZSLSnapshot
      /\ ch'.startZSlSnapshotCalled = c.startZSlSnapshotCalled
      /\ ch'.stopZslSnapshot = c.stopZslSnapshot /\ ch'.burstSnapNum = c.burstSnapNum
  <2> HIDE DEF c
  <2>1. c \in Channel /\ (ch' = c \/ ch' = [c EXCEPT !.unLockAEC = FALSE])
    BY <1>1 DEF c
  <2> QED
    BY <2>1 DEF Channel
<1>5. DOMAIN sq' = DOMAIN InitSq /\ sq'.notify_mode \in NotifyModes
  BY DEF Popped, RequestInv, ChTypes, InitSq
<1>6. ChTypes'
  <2>1. zslOn' \in BOOLEAN
    BY DEF RequestInv, ChTypes
  <2> QED
    BY <1>4, <1>5, <2>1 DEF RequestInv, ChTypes, InitSq
<1>7. RetroFirst'
  BY <1>1, <1>4 DEF RetroFirst
<1>8. zslOn' /\ ~ch'.manualZSLSnapshot => c.startZSlSnapshotCalled
  BY <1>1, <1>2, <1>3, <1>4 DEF RequestInv, ZslInv
<1>9. ch'.pending_cnt = 0 /\ ~ch'.manualZSLSnapshot => ~zslOn' /\ ~ch'.startZSlSnapshotCalled
  BY <1>1, <1>2, <1>4, <1>8
<1> QED
  BY <1>1, <1>4, <1>6, <1>7, <1>8, <1>9 DEF RequestInv, ZslInv

LEMMA CallsAreCmds == Controls \subseteq Cmds /\ FlushCmd(0) \in Cmds /\ Cmd("EXIT") \in Cmds
<1>1. Controls \subseteq Calls
  BY ConstAssumption
<1> QED
  BY <1>1 DEF Cmds, Calls, FlushCmd, Cmd

(* A step that changes neither ch nor zslOn, and does not come from the     *)
(* middle of a command.                                                     *)
LEMMA RequestSame ==
  ASSUME RequestInv, ch' = ch, zslOn' = zslOn, pc' \in Places4,
         cmdQ' \in Seq(Cmds), active' \in BOOLEAN, ~active' => pc' = "off",
         DOMAIN sq' = DOMAIN InitSq, sq'.notify_mode \in NotifyModes,
         pc' \in {"off", "wait", "drain", "loop"} => pc \in {"off", "wait", "drain", "loop"}
  PROVE  RequestInv'
<1>1. ChTypes'
  BY DEF RequestInv, ChTypes, InitSq
<1> QED
  BY <1>1 DEF RequestInv, RetroFirst, ZslInv

LEMMA SqSame ==
  ASSUME ChTypes, sq' = sq
  PROVE  DOMAIN sq' = DOMAIN InitSq /\ sq'.notify_mode \in NotifyModes
BY DEF ChTypes, InitSq

(* A step at the end of comp_and_enqueue may change what ch says of frames. *)
LEMMA RequestDiverted ==
  ASSUME RequestInv, zslOn' = zslOn, pc' = "zsl", cmdQ' = cmdQ, active' = active,
         DOMAIN sq' = DOMAIN InitSq, sq'.notify_mode \in NotifyModes, pc = "comp",
         \/ \E d \in Nat : ch' = [ch EXCEPT !.diverted_frame_id = d]
         \/ \E d \in BOOLEAN : ch' = [ch EXCEPT !.isFlashBracketingEnabled = d]
  PROVE  RequestInv'
<1>1. ch \in Channel
  BY DEF RequestInv, ChTypes
<1>2. /\ ch' \in Channel /\ ch'.pending_cnt = ch.pending_cnt /\ ch'.pending_retro_cnt = ch.pending_retro_cnt
      /\ ch'.bWaitForPrepSnapshotDone = ch.bWaitForPrepSnapshotDone
      /\ ch'.manualZSLSnapshot = ch.manualZSLSnapshot /\ ch'.stopZslSnapshot = ch.stopZslSnapshot
      /\ ch'.startZSlSnapshotCalled = ch.startZSlSnapshotCalled
      /\ ch'.burstSnapNum = ch.burstSnapNum
  BY <1>1 DEF Channel
<1>3. ChTypes'
  BY <1>2 DEF RequestInv, ChTypes, Places4, InitSq
<1> QED
  BY <1>2, <1>3 DEF RequestInv, RetroFirst, ZslInv

LEMMA MetadataRequest ==
  ASSUME RequestInv, NEW m \in MetaInfos, HandleMetadata(m)
  PROVE  RequestInv'
<1>1. /\ ch \in Channel /\ pc = "meta" /\ pc' = "comp" /\ zslOn' = zslOn /\ cmdQ' = cmdQ
      /\ active' = active /\ DOMAIN sq = DOMAIN InitSq /\ sq.notify_mode \in NotifyModes
  BY DEF RequestInv, ChTypes, HandleMetadata, threads
<1>2. /\ m.prep \in Prep /\ m.divert \in Nat /\ m.crop1x \in BOOLEAN /\ DivertWidth \in Nat \ {0}
  BY ConstAssumption
<1>3. Diverted(m) \in Nat
  BY <1>1, <1>2 DEF Diverted, Channel
<1>4. DOMAIN sq' = DOMAIN InitSq /\ sq'.notify_mode = sq.notify_mode
  <2>1. CASE MetaZoom(m)
    BY <1>1, <2>1 DEF MetaZoom, InitSq
  <2>2. CASE MetaCapture(m)
    <3>1. PICK q0 : /\ DOMAIN q0 = DOMAIN InitSq /\ q0.notify_mode = sq.notify_mode
                    /\ sq' = WithUserExpected(WithBurstEnd(WithRange(q0, m), m), m)
      <4> DEFINE k == MetaFlushLen(m)
                 q0 == [sq EXCEPT !.nodes = SubSeq(@, k + 1, Len(@)),
                              !.match_cnt = @ - NumMatched(SubSeq(sq.nodes, 1, k)),
                              !.expected_frame_id = IF m.prep = "future"
                   \/ (ch.bracketingState = "wait" /\ m.prep = "none" /\ ~HasRange(m)) THEN @ + FutureWait ELSE @]
      <4>1. DOMAIN q0 = DOMAIN InitSq /\ q0.notify_mode = sq.notify_mode
        BY <1>1 DEF InitSq
      <4>2. sq' = WithUserExpected(WithBurstEnd(WithRange(q0, m), m), m)
        BY <2>2 DEF MetaCapture
      <4> QED
        BY <4>1, <4>2
    <3>2. PICK q1 : q1 = WithRange(q0, m)
      OBVIOUS
    <3>3. DOMAIN q1 = DOMAIN InitSq /\ q1.notify_mode = sq.notify_mode
      BY <3>1, <3>2 DEF WithRange, InitSq
    <3>4. PICK q2 : q2 = WithBurstEnd(q1, m)
      OBVIOUS
    <3>5. DOMAIN q2 = DOMAIN InitSq /\ q2.notify_mode = sq.notify_mode
      BY <3>3, <3>4 DEF WithBurstEnd, InitSq
    <3>6. sq' = WithUserExpected(q2, m)
      BY <3>1, <3>2, <3>4
    <3> QED
      BY <3>5, <3>6 DEF WithUserExpected, InitSq
  <2> QED
    BY <2>1, <2>2 DEF HandleMetadata
<1> DEFINE Capture(wait, led, stop, ends, b) ==
               /\ (wait => ch.bWaitForPrepSnapshotDone) /\ (ends => ch.burstSnapNum > 0)
               /\ stop => ch.stopZslSnapshot \/ ends
               /\ ch' = [ch EXCEPT !.diverted_frame_id = Diverted(m), !.bWaitForPrepSnapshotDone = wait,
                                   !.needLEDFlash = led, !.stopZslSnapshot = stop, !.bracketingState = b]
           Brackets == {"off", "wait", "active"}
<1>5. \/ ch' = [ch EXCEPT !.isZoom1xFrameRequested = ~m.crop1x, !.diverted_frame_id = Diverted(m)]
      \/ \E wait, led, stop, ends \in BOOLEAN, b \in Brackets : Capture(wait, led, stop, ends, b)
  <2>1. CASE MetaZoom(m)
    BY <2>1 DEF MetaZoom
  <2>2. CASE MetaCapture(m)
    <3>1. PICK q1 : ch' = [ch EXCEPT
                  !.diverted_frame_id = Diverted(m),
                  !.bWaitForPrepSnapshotDone = @ /\ m.prep = "none",
                  !.needLEDFlash = LedAfterPrep(m) /\ ~LedBurstEnds(q1, m),
                  !.stopZslSnapshot = @ \/ LedBurstEnds(q1, m),
                  !.bracketingState = BracketingAfter(m)]
      BY <2>2 DEF MetaCapture
    <3> DEFINE wait == ch.bWaitForPrepSnapshotDone /\ m.prep = "none"
               led == LedAfterPrep(m) /\ ~LedBurstEnds(q1, m)
               stop == ch.stopZslSnapshot \/ LedBurstEnds(q1, m)
               ends == LedBurstEnds(q1, m)
               b == BracketingAfter(m)
    <3>2. wait \in BOOLEAN /\ led \in BOOLEAN /\ stop \in BOOLEAN
      BY Zenon
    <3>3. ends \in BOOLEAN /\ (ends => ch.burstSnapNum > 1)
      BY DEF LedBurstEnds
    <3>4. b \in Brackets
      BY <1>1 DEF BracketingAfter, Channel
    <3>5. ends => ch.burstSnapNum > 0
      BY <1>1, <3>3 DEF Channel
    <3>6. ch' = [ch EXCEPT !.diverted_frame_id = Diverted(m), !.bWaitForPrepSnapshotDone = wait,
                           !.needLEDFlash = led, !.stopZslSnapshot = stop, !.bracketingState = b]
      BY <3>1
    <3>7. (wait => ch.bWaitForPrepSnapshotDone) /\ (stop => ch.stopZslSnapshot \/ ends)
      OBVIOUS
    <3> HIDE DEF wait, led, stop, ends, b
    <3>8. Capture(wait, led, stop, ends, b)
      BY <3>5, <3>6, <3>7
    <3> HIDE DEF Capture, Brackets
    <3> QED
      BY <3>2, <3>3, <3>4, <3>8
  <2> QED
    BY <2>1, <2>2 DEF HandleMetadata
<1>6. /\ ch' \in Channel /\ ch'.pending_cnt = ch.pending_cnt /\ ch'.pending_retro_cnt = ch.pending_retro_cnt
      /\ ch'.bWaitForPrepSnapshotDone => ch.bWaitForPrepSnapshotDone
      /\ ch'.manualZSLSnapshot = ch.manualZSLSnapshot
      /\ ch'.stopZslSnapshot => ch.stopZslSnapshot \/ ch.burstSnapNum > 0
      /\ ch'.startZSlSnapshotCalled = ch.startZSlSnapshotCalled
      /\ ch'.burstSnapNum = ch.burstSnapNum
  <2>1. CASE ch' = [ch EXCEPT !.isZoom1xFrameRequested = ~m.crop1x, !.diverted_frame_id = Diverted(m)]
    BY <1>1, <1>2, <1>3, <2>1 DEF Channel
  <2>2. CASE \E wait, led, stop, ends \in BOOLEAN, b \in Brackets : Capture(wait, led, stop, ends, b)
    <3>1. PICK wait \in BOOLEAN, led \in BOOLEAN, stop \in BOOLEAN, ends \in BOOLEAN, b \in Brackets :
              Capture(wait, led, stop, ends, b)
      BY <2>2
    <3>2. /\ ch' \in Channel /\ ch'.pending_cnt = ch.pending_cnt
          /\ ch'.pending_retro_cnt = ch.pending_retro_cnt
          /\ ch'.bWaitForPrepSnapshotDone = wait
          /\ ch'.manualZSLSnapshot = ch.manualZSLSnapshot
          /\ ch'.stopZslSnapshot = stop
          /\ ch'.startZSlSnapshotCalled = ch.startZSlSnapshotCalled
          /\ ch'.burstSnapNum = ch.burstSnapNum
      <4>1. ch' = [ch EXCEPT !.diverted_frame_id = Diverted(m), !.bWaitForPrepSnapshotDone = wait,
                             !.needLEDFlash = led, !.stopZslSnapshot = stop, !.bracketingState = b]
        BY <3>1
      <4>2. b \in {"off", "wait", "active"}
        OBVIOUS
      <4> HIDE DEF Capture, Brackets
      <4> QED
        BY <1>1, <1>3, <4>1, <4>2, ZenonT(60) DEF Channel
    <3> QED
      BY <3>1, <3>2
  <2> QED
    BY <1>5, <2>1, <2>2
<1>7. ChTypes'
  BY <1>1, <1>4, <1>6 DEF RequestInv, ChTypes, Places4, InitSq
<1> QED
  BY <1>1, <1>6, <1>7 DEF RequestInv, RetroFirst, ZslInv

LEMMA RequestKept ==
  ASSUME RequestInv, [Next]_vars
  PROVE  RequestInv'
<1> USE DEF threads, history
<1>0. /\ ChTypes /\ RetroFirst /\ ZslInv
      /\ pc \in Places4 /\ cmdQ \in Seq(Cmds) /\ active \in BOOLEAN /\ (~active => pc = "off")
      /\ ch \in Channel /\ zslOn \in BOOLEAN
      /\ DOMAIN sq = DOMAIN InitSq /\ sq.notify_mode \in NotifyModes
  BY DEF RequestInv, ChTypes
<1>1. CASE UNCHANGED vars
  BY <1>1, <1>0, RequestSame, SqSame DEF vars
<1>2. CASE ChannelStart
  <2>1. ch' \in Channel /\ RetroFirst' /\ ZslInv'
    BY <1>2, <1>0 DEF ChannelStart, Channel, RetroFirst, ZslInv
  <2>2. <<>> \in Seq(Cmds)
    OBVIOUS
  <2>3. DOMAIN sq' = DOMAIN InitSq /\ sq'.notify_mode = sq.notify_mode
    BY <1>2, <1>0 DEF ChannelStart, InitSq
  <2> QED
    BY <1>2, <1>0, <2>1, <2>2, <2>3 DEF ChannelStart, RequestInv, ChTypes, Places4, InitSq
<1>3. ASSUME NEW c \in Controls, ControlCall(c)
      PROVE  RequestInv'
  BY <1>3, <1>0, RequestSame, SqSame, CmdAdded, CallsAreCmds DEF ControlCall
<1>4. ASSUME NEW b \in Bufs, Deliver(b)
      PROVE  RequestInv'
  <2>1. Data(b) \in Cmds
    BY DEF Data, Cmds
  <2> QED
    BY <1>4, <1>0, <2>1, RequestSame, SqSame, CmdAdded DEF Deliver
<1>5. CASE StopFlush
  BY <1>5, <1>0, RequestSame, SqSame, CmdAdded, CallsAreCmds DEF StopFlush
<1>6. CASE StopExit
  BY <1>6, <1>0, RequestSame, SqSame, CmdAdded, CallsAreCmds DEF StopExit
<1>7. CASE StopDeinit
  <2>1. DOMAIN sq' = DOMAIN InitSq /\ sq'.notify_mode = sq.notify_mode
    BY <1>7, <1>0 DEF StopDeinit, InitSq
  <2> QED
    BY <1>7, <1>0, <2>1, RequestSame DEF StopDeinit
<1>8. CASE TakeData
  <2>1. cmdQ' \in Seq(Cmds)
    BY <1>8, <1>0, CmdTaken DEF TakeData, Take
  <2>2. pc' \in {"zsl", "meta", "comp"}
    BY <1>8 DEF TakeData
  <2> QED
    BY <1>8, <1>0, <2>1, <2>2, RequestSame, SqSame DEF TakeData, Take, Places4
<1>9. CASE TakeRequest
  <2>1. cmdQ' \in Seq(Cmds) /\ Head(cmdQ) \in Cmds /\ Head(cmdQ).type = "REQ_DATA"
    BY <1>9, <1>0, CmdTaken DEF TakeRequest, Take
  <2>2. Head(cmdQ).num \in Nat /\ Head(cmdQ).retro \in Nat
    BY <2>1 DEF Cmds, Calls
  <2>3. PICK n \in Nat, r \in Nat :
           /\ r <= n
           /\ ch' = [ch EXCEPT !.pending_cnt = n, !.pending_retro_cnt = r,
                               !.bWaitForPrepSnapshotDone = FALSE,
                               !.needLEDFlash = @ /\ r = 0,
                               !.stopZslSnapshot = FALSE, !.unLockAEC = FALSE]
    <3> DEFINE n == Head(cmdQ).num
               r == IF Head(cmdQ).retro > n \/ n = 0 THEN n ELSE Head(cmdQ).retro
    <3>1. n \in Nat /\ r \in Nat /\ r <= n
      BY <2>2
    <3>2. ch' = [ch EXCEPT !.pending_cnt = n, !.pending_retro_cnt = r,
                               !.bWaitForPrepSnapshotDone = FALSE,
                               !.needLEDFlash = @ /\ r = 0,
                               !.stopZslSnapshot = FALSE, !.unLockAEC = FALSE]
      BY <1>9 DEF TakeRequest
    <3> QED
      BY <3>1, <3>2
  <2>4. ch' \in Channel
    <3> DEFINE led == ch.needLEDFlash /\ r = 0
    <3>1. led \in BOOLEAN
      BY Zenon
    <3>2. ch' = [ch EXCEPT !.pending_cnt = n, !.pending_retro_cnt = r,
                           !.bWaitForPrepSnapshotDone = FALSE, !.needLEDFlash = led,
                           !.stopZslSnapshot = FALSE, !.unLockAEC = FALSE]
      BY <2>3
    <3> HIDE DEF led
    <3> QED
      BY <1>0, <2>3, <3>1, <3>2 DEF Channel
  <2>5. /\ ch'.pending_cnt = n /\ ch'.pending_retro_cnt = r /\ ~ch'.bWaitForPrepSnapshotDone
        /\ ch'.manualZSLSnapshot = ch.manualZSLSnapshot /\ ~ch'.stopZslSnapshot
        /\ ch'.startZSlSnapshotCalled = ch.startZSlSnapshotCalled
        /\ ch'.burstSnapNum = ch.burstSnapNum
    BY <1>0, <2>3 DEF Channel
  <2>6. pc' = "skip" /\ zslOn' = zslOn /\ active' = active /\ sq' = sq /\ pc = "wait"
    BY <1>9 DEF TakeRequest, Take
  <2> QED
    BY <1>0, <2>1, <2>3, <2>4, <2>5, <2>6, SqSame DEF RequestInv, ChTypes, RetroFirst, ZslInv, Places4
<1>10. CASE SkipStep
  <2>1. DOMAIN sq' = DOMAIN InitSq /\ sq'.notify_mode = sq.notify_mode
    BY <1>10, <1>0 DEF SkipStep, DropMatched, Popped, Blocked, InitSq
  <2> QED
    BY <1>10, <1>0, <2>1, RequestSame DEF SkipStep
<1>11. CASE SkipDone
  BY <1>11, <1>0, RequestSame, SqSame DEF SkipDone, Places4
<1>12. CASE TakeStartZsl
  <2>1. cmdQ' \in Seq(Cmds)
    BY <1>12, <1>0, CmdTaken DEF TakeStartZsl, Take
  <2>2. ch' = [ch EXCEPT !.manualZSLSnapshot = TRUE] /\ zslOn' = TRUE /\ pc' = "zsl" /\ sq' = sq
        /\ active' = active /\ pc = "wait"
    BY <1>12 DEF TakeStartZsl, Take
  <2> QED
    BY <1>0, <2>1, <2>2, SqSame DEF RequestInv, ChTypes, RetroFirst, ZslInv, Places4, Channel
<1>13. CASE TakeStopZsl
  <2>1. cmdQ' \in Seq(Cmds)
    BY <1>13, <1>0, CmdTaken DEF TakeStopZsl, Take
  <2>2. ch' = [ch EXCEPT !.manualZSLSnapshot = FALSE] /\ zslOn' = FALSE /\ pc' = "zsl" /\ sq' = sq
        /\ active' = active /\ pc = "wait"
    BY <1>13 DEF TakeStopZsl, Take
  <2> QED
    BY <1>0, <2>1, <2>2, SqSame DEF RequestInv, ChTypes, RetroFirst, ZslInv, Places4, Channel
<1>14. CASE TakeNotify
  <2>1. cmdQ' \in Seq(Cmds) /\ Head(cmdQ) \in Cmds /\ Head(cmdQ).type = "CONFIG_NOTIFY"
    BY <1>14, <1>0, CmdTaken DEF TakeNotify, Take
  <2>2. Head(cmdQ).mode \in NotifyModes
    BY <2>1 DEF Cmds, Calls
  <2>3. DOMAIN sq' = DOMAIN InitSq /\ sq'.notify_mode \in NotifyModes
    BY <1>14, <1>0, <2>2 DEF TakeNotify, InitSq
  <2> QED
    BY <1>14, <1>0, <2>1, <2>3, RequestSame DEF TakeNotify, Places4, Take
<1>15. CASE TakeFlush
  <2>1. cmdQ' \in Seq(Cmds)
    BY <1>15, <1>0, CmdTaken DEF TakeFlush, Take
  <2>2. DOMAIN sq' = DOMAIN InitSq /\ sq'.notify_mode = sq.notify_mode
    BY <1>15, <1>0 DEF TakeFlush, FlushAll, InitSq
  <2> QED
    BY <1>15, <1>0, <2>1, <2>2, RequestSame DEF TakeFlush
<1>16. CASE TakeGeneral
  <2>1. cmdQ' \in Seq(Cmds) /\ Head(cmdQ) \in Cmds /\ Head(cmdQ).type = "GENERAL"
    BY <1>16, <1>0, CmdTaken DEF TakeGeneral, Take
  <2>2. Head(cmdQ).kind \in {"bracketing", "flash", "zoom1x"} /\ Head(cmdQ).start \in BOOLEAN
    BY <2>1 DEF Cmds, Calls
  <2>3. DOMAIN sq' = DOMAIN InitSq /\ sq'.notify_mode = sq.notify_mode
    BY <1>16, <1>0 DEF TakeGeneral, FlushAll, InitSq
  <2>4. PICK start \in BOOLEAN :
           \/ ch' = [ch EXCEPT !.bracketingState = IF start THEN "wait" ELSE "off"]
           \/ ch' = [ch EXCEPT !.isFlashBracketingEnabled = start]
           \/ ch' = [ch EXCEPT !.isZoom1xFrameRequested = start]
    BY <1>16, <2>2 DEF TakeGeneral
  <2>5. ch' \in Channel
    BY <1>0, <2>4 DEF Channel
  <2>6. /\ ch'.pending_cnt = ch.pending_cnt /\ ch'.pending_retro_cnt = ch.pending_retro_cnt
        /\ ch'.bWaitForPrepSnapshotDone = ch.bWaitForPrepSnapshotDone
        /\ ch'.manualZSLSnapshot = ch.manualZSLSnapshot /\ ch'.stopZslSnapshot = ch.stopZslSnapshot
        /\ ch'.startZSlSnapshotCalled = ch.startZSlSnapshotCalled
        /\ ch'.burstSnapNum = ch.burstSnapNum
    BY <1>0, <2>4 DEF Channel
  <2>7. pc' = "zsl" /\ zslOn' = zslOn /\ active' = active /\ pc = "wait"
    BY <1>16 DEF TakeGeneral, Take
  <2> QED
    BY <1>0, <2>1, <2>3, <2>5, <2>6, <2>7 DEF RequestInv, ChTypes, RetroFirst, ZslInv, Places4, InitSq
<1>17. CASE TakeExit
  <2>1. cmdQ' \in Seq(Cmds)
    BY <1>17, <1>0, CmdTaken DEF TakeExit, Take
  <2> QED
    BY <1>17, <1>0, <2>1, RequestSame, SqSame DEF TakeExit, Take, Places4
<1>18. ASSUME NEW m \in MetaInfos, HandleMetadata(m)
       PROVE  RequestInv'
  BY <1>18, MetadataRequest
<1>19. CASE DiscardOlder
  BY <1>19, <1>0, RequestSame, SqSame DEF DiscardOlder, AtComp, Places4
<1>20. CASE Isolate
  <2>1. DOMAIN sq' = DOMAIN InitSq /\ sq'.notify_mode = sq.notify_mode
    BY <1>20, <1>0 DEF Isolate, InitSq
  <2> QED
    BY <1>20, <1>0, <2>1, RequestSame DEF Isolate, AtComp, Places4
<1>21. CASE DuplicateSlot
  <2>1. DOMAIN sq' = DOMAIN InitSq /\ sq'.notify_mode = sq.notify_mode
    BY <1>21, <1>0 DEF DuplicateSlot, InitSq
  <2> QED
    BY <1>21, <1>0, <2>1, RequestSame DEF DuplicateSlot, Searching, AtComp, Places4
<1>22. CASE FillPartial
  <2>1. DOMAIN sq' = DOMAIN InitSq /\ sq'.notify_mode = sq.notify_mode
    BY <1>22, <1>0 DEF FillPartial, InitSq
  <2>2. PICK d \in Nat : ch' = [ch EXCEPT !.diverted_frame_id = d]
    BY <1>22, <1>0 DEF FillPartial, Channel
  <2> QED
    BY <1>22, <1>0, <2>1, <2>2, RequestDiverted DEF FillPartial, Searching, AtComp, Places4
<1>23. CASE FillMatched
  <2>1. DOMAIN sq' = DOMAIN InitSq /\ sq'.notify_mode = sq.notify_mode
    BY <1>23, <1>0 DEF FillMatched, InitSq
  <2>2. PICK d \in BOOLEAN : ch' = [ch EXCEPT !.isFlashBracketingEnabled = d]
    <3> DEFINE d == ch.isFlashBracketingEnabled /\ cur[2] < sq.expected_frame_id_without_led
    <3>1. d \in BOOLEAN
      BY Zenon
    <3>2. ch' = [ch EXCEPT !.isFlashBracketingEnabled = d]
      BY <1>23 DEF FillMatched
    <3> QED
      BY <3>1, <3>2
  <2> QED
    BY <1>23, <1>0, <2>1, <2>2, RequestDiverted DEF FillMatched, Searching, AtComp, Places4
<1>24. CASE RejectExcess
  BY <1>24, <1>0, RequestSame, SqSame DEF RejectExcess, Searching, AtComp, Places4
<1>25. CASE InsertNew
  <2>1. DOMAIN sq' = DOMAIN InitSq /\ sq'.notify_mode = sq.notify_mode
    BY <1>25, <1>0 DEF InsertNew, Inserted, InitSq
  <2>2. PICK d \in Nat : ch' = [ch EXCEPT !.diverted_frame_id = d]
    BY <1>25, <1>0 DEF InsertNew, Channel
  <2> QED
    BY <1>25, <1>0, <2>1, <2>2, RequestDiverted DEF InsertNew, Searching, AtComp, Places4
<1>26. CASE InsertFails
  <2>1. DOMAIN sq' = DOMAIN InitSq /\ sq'.notify_mode = sq.notify_mode
    BY <1>26, <1>0 DEF InsertFails, InitSq
  <2> QED
    BY <1>26, <1>0, <2>1, RequestSame DEF InsertFails, Searching, AtComp, Places4
<1>27. CASE ZslStart
  <2>1. pc' = "drain" /\ active' = active /\ cmdQ' = cmdQ /\ sq' = sq /\ zslOn' = TRUE /\ pc = "zsl"
    BY <1>27 DEF ZslStart, AtZsl
  <2>2. ch' = [ch EXCEPT !.startZSlSnapshotCalled = TRUE, !.burstSnapNum = ch.pending_cnt,
                         !.bWaitForPrepSnapshotDone = FALSE]
    BY <1>27 DEF ZslStart
  <2>3. ch.pending_cnt > 0
    BY <1>27 DEF ZslStart, ZslStarts
  <2>4. /\ ch' \in Channel /\ ch'.pending_cnt = ch.pending_cnt /\ ch'.pending_retro_cnt = ch.pending_retro_cnt
        /\ ~ch'.bWaitForPrepSnapshotDone /\ ch'.startZSlSnapshotCalled
    BY <1>0, <2>2 DEF Channel
  <2> QED
    BY <1>0, <2>1, <2>3, <2>4, SqSame DEF RequestInv, ChTypes, RetroFirst, ZslInv, Places4, Channel
<1>28. CASE ZslStop
  <2>1. pc' = "drain" /\ active' = active /\ cmdQ' = cmdQ /\ sq' = sq /\ zslOn' = FALSE /\ pc = "zsl"
    BY <1>28 DEF ZslStop, AtZsl
  <2>2. ch' = [StoppedZsl(ch) EXCEPT !.bWaitForPrepSnapshotDone = FALSE]
    BY <1>28 DEF ZslStop
  <2>4. /\ ch' \in Channel /\ ch'.pending_cnt = ch.pending_cnt /\ ch'.pending_retro_cnt = ch.pending_retro_cnt
        /\ ~ch'.bWaitForPrepSnapshotDone /\ ~ch'.startZSlSnapshotCalled /\ ~ch'.stopZslSnapshot
        /\ ch'.burstSnapNum = 0
    BY <1>0, <2>2 DEF Channel, StoppedZsl
  <2> QED
    <3>1. ChTypes'
      BY <1>0, <2>1, <2>4, SqSame DEF ChTypes, Places4
    <3>2. RetroFirst' /\ ZslInv'
      BY <1>0, <2>1, <2>4 DEF RetroFirst, ZslInv
    <3> QED
      BY <3>1, <3>2 DEF RequestInv
<1>29. CASE ZslNone
  <2>1. pc' = "drain" /\ active' = active /\ cmdQ' = cmdQ /\ sq' = sq /\ zslOn' = zslOn /\ ch' = ch /\ pc = "zsl"
    BY <1>29 DEF ZslNone, AtZsl
  <2>2. ch.pending_cnt = 0 /\ ~ch.manualZSLSnapshot => ~ch.startZSlSnapshotCalled
    BY <1>29 DEF ZslNone, ZslStops
  <2> QED
    BY <1>0, <2>1, <2>2, SqSame DEF RequestInv, ChTypes, RetroFirst, ZslInv, Places4
<1>30. CASE DrainStep
  <2>1. DOMAIN sq' = DOMAIN InitSq /\ sq'.notify_mode = sq.notify_mode
    BY <1>30, <1>0 DEF DrainStep, DropMatched, Popped, Blocked, InitSq
  <2> QED
    BY <1>30, <1>0, <2>1, RequestSame DEF DrainStep
<1>31. CASE DrainDone
  BY <1>31, <1>0, RequestSame, SqSame DEF DrainDone, Places4
<1>32. CASE Dispatch
  BY <1>32, DispatchedTyped DEF Dispatch
<1>33. CASE DispatchFails
  BY <1>33, DispatchedTyped DEF DispatchFails
<1>34. CASE DispatchDone
  <2>1. DOMAIN sq' = DOMAIN InitSq /\ sq'.notify_mode = sq.notify_mode
    BY <1>34, <1>0 DEF DispatchDone, Blocked, InitSq
  <2> QED
    BY <1>34, <1>0, <2>1, RequestSame DEF DispatchDone, Places4
<1>35. CASE Callback
  BY <1>35, <1>0, RequestSame, SqSame DEF Callback
<1> QED
  BY <1>1, <1>2, <1>3, <1>4, <1>5, <1>6, <1>7, <1>8, <1>9, <1>10, <1>11, <1>12, <1>13, <1>14, <1>15,
     <1>16, <1>17, <1>18, <1>19, <1>20, <1>21, <1>22, <1>23, <1>24, <1>25, <1>26, <1>27, <1>28, <1>29,
     <1>30, <1>31, <1>32, <1>33, <1>34, <1>35
     DEF Next, Stop, CmdThread, TakeCmd, CompAndEnqueue

LEMMA RequestInit == Init => RequestInv
<1> SUFFICES ASSUME Init
             PROVE  RequestInv
  OBVIOUS
<1>1. <<>> \in Seq(Cmds) /\ NotifyMode \in NotifyModes
  BY ConstAssumption
<1>2. InitCh \in Channel /\ ch = InitCh
  BY DEF Init, InitCh, Channel
<1>3. ChTypes
  BY <1>1, <1>2 DEF Init, ChTypes, InitSq, Places4
<1> QED
  BY <1>3 DEF Init, InitCh, RequestInv, RetroFirst, ZslInv

(* What was asked for, the flags of the ZSL snapshot and the daemon agree.  *)
THEOREM RequestInvariance == Spec => []RequestInv
  BY RequestInit, RequestKept, PTL DEF Spec

(* The superbufs taken from the past are among those asked for, and once    *)
(* they are out the channel waits for a prepared snapshot, whatever is      *)
(* requested, cancelled, flushed or dispatched in between.                  *)
THEOREM RetroFirstAlways == Spec => []RetroFirst
<1>1. RequestInv => RetroFirst
  BY DEF RequestInv
<1> QED
  BY <1>1, RequestInvariance, PTL

(* The daemon takes no ZSL snapshots when no picture is asked for, unless   *)
(* the HAL turned them on itself.                                           *)
THEOREM ZslOffWhenIdleAlways == Spec => []ZslOffWhenIdle
<1>1. RequestInv => ZslOffWhenIdle
  BY DEF RequestInv, ZslInv, ZslOffWhenIdle
<1> QED
  BY <1>1, RequestInvariance, PTL

-----------------------------------------------------------------------------
(* The queue, when every superbuf is matched from the frames of all streams: *)
(* its priority is normal and snapshot frames are not made superbufs of     *)
(* their own.                                                               *)
Normal == ~LowPriority /\ ~(SnapshotOnly /\ Snapshot \in Streams /\ Cardinality(Streams) > 1)

Superbufs ==
    [frame_idx : Frames, slot : [Streams -> Bufs \cup {NoBuf}],
     matched : BOOLEAN, expected : BOOLEAN, unmatched_meta_idx : {0}]
Queue ==
    [nodes : Seq(Superbufs), match_cnt : Nat, expected_frame_id : Nat,
     good_frame_id : Nat, expected_frame_id_without_led : Nat,
     led_off_start_frame_id : Nat, frame_skip_count : Nat, once : BOOLEAN,
     notify_mode : NotifyModes, user_expected_frame_id : Nat]

(* The buffers of a superbuf are of its frame, one of each stream; it is    *)
(* matched when it has all of them, and is never empty.                     *)
NodeInv(n) ==
    /\ \A s \in Streams : n.slot[s] # NoBuf => n.slot[s][1] = s /\ n.slot[s][2] = n.frame_idx
    /\ n.matched <=> \A s \in Streams : n.slot[s] # NoBuf
    /\ \E s \in Streams : n.slot[s] # NoBuf

(* The first m superbufs are the matched ones, the frames are in order and  *)
(* no buffer is in two superbufs.                                           *)
Shape(ns, m) ==
    /\ ns \in Seq(Superbufs) /\ m \in Nat /\ m <= Len(ns)
    /\ \A i \in DOMAIN ns : NodeInv(ns[i]) /\ (ns[i].matched <=> i <= m)
    /\ \A i, j \in DOMAIN ns : i < j =>
           /\ ns[i].frame_idx <= ns[j].frame_idx
           /\ Repeats = {} \/ m < i => ns[i].frame_idx < ns[j].frame_idx
    /\ \A i, j \in DOMAIN ns : \A b \in BufsOf(ns[i]) : b \in BufsOf(ns[j]) => i = j

LEMMA BufShape ==
  ASSUME NEW b \in Bufs
  PROVE  /\ b[1] \in Streams /\ b[2] \in Frames /\ b[2] \in Nat /\ b[3] \in {1, 2} /\ b # NoBuf
         /\ Repeats = {} => b[3] = 1
<1>1. Repeats \subseteq Streams \X Frames /\ Frames \subseteq Nat
  BY ConstAssumption DEF Frames
<1>2. CASE b \in Streams \X Frames \X {1}
  <2>1. PICK s \in Streams, f \in Frames : b = <<s, f, 1>>
    BY <1>2
  <2>2. b # <<>>
    BY <2>1
  <2> QED
    BY <1>1, <2>1, <2>2 DEF NoBuf
<1>3. CASE b \in {<<r[1], r[2], 2>> : r \in Repeats}
  <2>1. PICK r \in Repeats : b = <<r[1], r[2], 2>>
    BY <1>3
  <2>2. r[1] \in Streams /\ r[2] \in Frames
    BY <1>1
  <2>3. b # <<>>
    BY <2>1
  <2> QED
    BY <1>1, <2>1, <2>2, <2>3 DEF NoBuf
<1> QED
  BY <1>2, <1>3 DEF Bufs

LEMMA NodeBufs ==
  ASSUME NEW n \in Superbufs, NodeInv(n), NEW b \in BufsOf(n)
  PROVE  /\ b \in Bufs /\ b[2] = n.frame_idx /\ b[1] \in Streams /\ n.slot[b[1]] = b
BY DEF BufsOf, Superbufs, NodeInv

LEMMA MatchedFirst ==
  ASSUME NEW ns, NEW m, Shape(ns, m)
  PROVE  NumMatched(ns) = m
<1>1. m \in Nat /\ m <= Len(ns) /\ DOMAIN ns = 1 .. Len(ns) /\ Len(ns) \in Nat
  BY DEF Shape
<1>2. {i \in DOMAIN ns : ns[i].matched} = 1 .. m
  BY <1>1 DEF Shape
<1>3. Cardinality(1 .. m) = m
  BY <1>1, FS_Interval
<1> QED
  BY <1>2, <1>3 DEF NumMatched

LEMMA ShapeTypes ==
  ASSUME NEW ns, NEW m, Shape(ns, m)
  PROVE  /\ ns \in Seq(Superbufs) /\ Len(ns) \in Nat /\ DOMAIN ns = 1 .. Len(ns)
         /\ m \in Nat /\ m <= Len(ns)
         /\ \A i \in DOMAIN ns : ns[i] \in Superbufs /\ ns[i].frame_idx \in Nat /\ i \in Nat
<1>1. FirstFrame \in Nat
  BY ConstAssumption
<1>2. \A n \in Superbufs : n.frame_idx \in Nat
  BY <1>1 DEF Superbufs, Frames
<1> QED
  BY <1>2 DEF Shape

(* The sequence w is ns at the positions h picks, in their order, and the   *)
(* first k of w are among the first m of ns.                                *)
Picks(h, w, k, ns, m) ==
    /\ w \in Seq(Superbufs) /\ k \in Nat /\ k <= Len(w) /\ h \in [DOMAIN w -> DOMAIN ns]
    /\ \A i \in DOMAIN w : w[i] = ns[h[i]] /\ (h[i] <= m <=> i <= k)
    /\ \A i, j \in DOMAIN w : i < j => h[i] < h[j]
BufsAt(ns, D) == UNION {BufsOf(ns[j]) : j \in D}

LEMMA Picked ==
  ASSUME NEW ns, NEW m, Shape(ns, m), NEW w, NEW k, NEW h, Picks(h, w, k, ns, m)
  PROVE  Shape(w, k) /\ BufsIn(w) = BufsAt(ns, {h[i] : i \in DOMAIN w})
<1>1. BufsIn(w) = BufsAt(ns, {h[i] : i \in DOMAIN w})
  BY DEF BufsIn, BufsAt, Picks
<1>2. DOMAIN w \subseteq Nat /\ DOMAIN ns \subseteq Nat
  BY DEF Shape, Picks
<1>3. \A i, j \in DOMAIN w : h[i] = h[j] => i = j
  BY <1>2 DEF Picks
<1>4. \A i \in DOMAIN w : NodeInv(w[i]) /\ (w[i].matched <=> i <= k)
  BY DEF Shape, Picks
<1>5. \A i, j \in DOMAIN w : i < j =>
         /\ w[i].frame_idx <= w[j].frame_idx
         /\ Repeats = {} \/ k < i => w[i].frame_idx < w[j].frame_idx
  BY <1>2 DEF Shape, Picks
<1>6. \A i, j \in DOMAIN w : \A b \in BufsOf(w[i]) : b \in BufsOf(w[j]) => i = j
  BY <1>3 DEF Shape, Picks
<1>7. w \in Seq(Superbufs) /\ k \in Nat /\ k <= Len(w)
  BY DEF Picks
<1> QED
  BY <1>1, <1>4, <1>5, <1>6, <1>7 DEF Shape

(* The buffers of the positions D and of the others.                        *)
LEMMA Divided ==
  ASSUME NEW ns, NEW m, Shape(ns, m), NEW D, NEW K, D \cup K = DOMAIN ns, D \cap K = {}
  PROVE  /\ BufsAt(ns, K) = BufsIn(ns) \ BufsAt(ns, D)
         /\ BufsAt(ns, D) \subseteq BufsIn(ns)
         /\ BufsIn(ns) \subseteq Bufs
<1>1. \A i, j \in DOMAIN ns : \A b \in BufsOf(ns[i]) : b \in BufsOf(ns[j]) => i = j
  BY DEF Shape
<1>2. BufsAt(ns, D) \subseteq BufsIn(ns)
  BY DEF BufsIn, BufsAt
<1>3. BufsAt(ns, K) = BufsIn(ns) \ BufsAt(ns, D)
  BY <1>1 DEF BufsIn, BufsAt
<1>4. BufsIn(ns) \subseteq Bufs
  BY NodeBufs DEF Shape, BufsIn
<1> QED
  BY <1>2, <1>3, <1>4

LEMMA SubSeqOf ==
  ASSUME NEW ns \in Seq(Superbufs), NEW a \in Nat, NEW b \in Nat, 1 <= a, b <= Len(ns), a <= b + 1
  PROVE  /\ SubSeq(ns, a, b) \in Seq(Superbufs) /\ Len(SubSeq(ns, a, b)) = b - a + 1
         /\ DOMAIN SubSeq(ns, a, b) = 1 .. (b - a + 1)
         /\ \A i \in 1 .. (b - a + 1) : SubSeq(ns, a, b)[i] = ns[a + i - 1]
<1>1. \A i \in a .. b : ns[i] \in Superbufs
  OBVIOUS
<1>2. /\ SubSeq(ns, a, b) \in Seq(Superbufs)
      /\ Len(SubSeq(ns, a, b)) = IF a <= b THEN b - a + 1 ELSE 0
      /\ \A i \in 1 .. (b - a + 1) : SubSeq(ns, a, b)[i] = ns[a + i - 1]
  BY <1>1, SubSeqProperties
<1>3. Len(SubSeq(ns, a, b)) = b - a + 1
  BY <1>2
<1>4. DOMAIN SubSeq(ns, a, b) = 1 .. Len(SubSeq(ns, a, b))
  BY <1>2
<1> QED
  BY <1>2, <1>3, <1>4

(* The first k leave: matched ones only, or all.                            *)
MayLeave(k, ns, m) == k \in Nat /\ k <= Len(ns) /\ (k <= m \/ k = Len(ns))
SplitAt(k, g, w, ns) ==
    /\ g \in Seq(Superbufs) /\ Len(g) = k /\ \A i \in 1 .. k : g[i] = ns[i]
    /\ w \in Seq(Superbufs) /\ Len(w) = Len(ns) - k /\ \A i \in DOMAIN w : w[i] = ns[k + i]

LEMMA SubSeqSplits ==
  ASSUME NEW ns \in Seq(Superbufs), NEW k \in 0 .. Len(ns)
  PROVE  SplitAt(k, SubSeq(ns, 1, k), SubSeq(ns, k + 1, Len(ns)), ns)
<1>1. Len(ns) \in Nat /\ k \in Nat /\ k <= Len(ns)
  OBVIOUS
<1>2. /\ SubSeq(ns, 1, k) \in Seq(Superbufs) /\ Len(SubSeq(ns, 1, k)) = k - 1 + 1
      /\ \A i \in 1 .. (k - 1 + 1) : SubSeq(ns, 1, k)[i] = ns[1 + i - 1]
  BY <1>1, SubSeqOf
<1> DEFINE a == k + 1
<1>3. a \in Nat /\ 1 <= a /\ a <= Len(ns) + 1 /\ Len(ns) - a + 1 = Len(ns) - k
  BY <1>1
<1>4. \A i \in Nat : a + i - 1 = k + i /\ 1 + i - 1 = i
  BY <1>1
<1> HIDE DEF a
<1>5. /\ SubSeq(ns, a, Len(ns)) \in Seq(Superbufs) /\ Len(SubSeq(ns, a, Len(ns))) = Len(ns) - a + 1
      /\ DOMAIN SubSeq(ns, a, Len(ns)) = 1 .. (Len(ns) - a + 1)
      /\ \A i \in 1 .. (Len(ns) - a + 1) : SubSeq(ns, a, Len(ns))[i] = ns[a + i - 1]
  BY <1>1, <1>3, SubSeqOf
<1>6. \A i \in DOMAIN SubSeq(ns, a, Len(ns)) : SubSeq(ns, a, Len(ns))[i] = ns[k + i]
  BY <1>4, <1>5
<1>7. \A i \in 1 .. k : SubSeq(ns, 1, k)[i] = ns[i]
  BY <1>1, <1>2, <1>4
<1>8. Len(SubSeq(ns, 1, k)) = k
  BY <1>1, <1>2
<1>9. SplitAt(k, SubSeq(ns, 1, k), SubSeq(ns, a, Len(ns)), ns)
  BY <1>2, <1>3, <1>5, <1>6, <1>7, <1>8 DEF SplitAt
<1> QED
  BY <1>9 DEF a

LEMMA Leave ==
  ASSUME NEW ns, NEW m, Shape(ns, m), NEW k, MayLeave(k, ns, m), NEW g, NEW w, SplitAt(k, g, w, ns)
  PROVE  /\ Shape(w, m - NumMatched(g)) /\ Len(w) = Len(ns) - k
         /\ NumMatched(g) = IF k <= m THEN k ELSE m
         /\ BufsIn(w) = BufsIn(ns) \ BufsIn(g)
         /\ BufsIn(g) \subseteq BufsIn(ns)
<1>0. k <= m \/ k = Len(ns)
  BY DEF MayLeave
<1>1. /\ ns \in Seq(Superbufs) /\ Len(ns) \in Nat /\ DOMAIN ns = 1 .. Len(ns) /\ m \in Nat /\ m <= Len(ns)
      /\ k \in Nat /\ k <= Len(ns)
  BY ShapeTypes DEF MayLeave
<1>2. w \in Seq(Superbufs) /\ Len(w) = Len(ns) - k /\ DOMAIN w = 1 .. (Len(ns) - k)
      /\ \A i \in DOMAIN w : w[i] = ns[k + i]
  BY <1>1 DEF SplitAt
<1>3. g \in Seq(Superbufs) /\ DOMAIN g = 1 .. k /\ \A i \in 1 .. k : g[i] = ns[i]
  BY <1>1 DEF SplitAt
<1>4. PICK c \in Nat : c <= m /\ c <= k /\ c = (IF k <= m THEN k ELSE m)
  BY <1>1
<1>5. NumMatched(g) = c
  <2>1. \A i \in 1 .. k : g[i].matched <=> i <= m
    BY <1>1, <1>3 DEF Shape
  <2>2. \A i \in DOMAIN g : g[i].matched <=> i <= c
    BY <1>1, <1>3, <1>4, <2>1
  <2>3. {i \in DOMAIN g : g[i].matched} = 1 .. c
    BY <1>1, <1>3, <1>4, <2>2
  <2>4. Cardinality(1 .. c) = c
    BY <1>4, FS_Interval
  <2> QED
    BY <2>3, <2>4 DEF NumMatched
<1>6. PICK d \in Nat : d = m - c
  <2>1. m - c \in Nat
    BY <1>1, <1>4
  <2> QED
    BY <2>1
<1>7. d <= Len(w) /\ \A i \in DOMAIN w : k + i \in DOMAIN ns /\ (k + i <= m <=> i <= d)
  <2>1. CASE k <= m
    BY <1>1, <1>2, <1>4, <1>6, <2>1
  <2>2. CASE ~(k <= m)
    <3>1. k = Len(ns) /\ c = m
      BY <1>0, <1>4, <2>2
    <3>2. d = 0
      BY <1>1, <1>6, <3>1
    <3>3. Len(w) = 0 /\ DOMAIN w = {}
      BY <1>1, <1>2, <3>1
    <3> QED
      BY <3>2, <3>3
  <2> QED
    BY <2>1, <2>2
<1> DEFINE h == [i \in DOMAIN w |-> k + i]
<1>8. /\ h \in [DOMAIN w -> DOMAIN ns] /\ \A i \in DOMAIN w : h[i] = k + i
  BY <1>7
<1> HIDE DEF h
<1>9. \A i \in DOMAIN w : w[i] = ns[h[i]] /\ (h[i] <= m <=> i <= d)
  BY <1>2, <1>7, <1>8
<1>10. \A i, j \in DOMAIN w : i < j => h[i] < h[j]
  BY <1>1, <1>2, <1>8
<1>11. Picks(h, w, d, ns, m)
  BY <1>2, <1>7, <1>8, <1>9, <1>10 DEF Picks
<1>12. {h[i] : i \in DOMAIN w} = (k + 1) .. Len(ns)
  <2>1. \A j \in (k + 1) .. Len(ns) : j - k \in DOMAIN w /\ k + (j - k) = j
    BY <1>1, <1>2
  <2>2. \A i \in DOMAIN w : k + i \in (k + 1) .. Len(ns)
    BY <1>1, <1>2
  <2>3. \A j \in (k + 1) .. Len(ns) : h[j - k] = j
    BY <1>8, <2>1
  <2> QED
    BY <1>8, <2>1, <2>2, <2>3
<1>13. Shape(w, d) /\ BufsIn(w) = BufsAt(ns, {h[i] : i \in DOMAIN w})
  BY <1>11, Picked
<1>14. BufsIn(g) = BufsAt(ns, 1 .. k)
  BY <1>3 DEF BufsIn, BufsAt
<1>15. (1 .. k) \cup ((k + 1) .. Len(ns)) = DOMAIN ns /\ (1 .. k) \cap ((k + 1) .. Len(ns)) = {}
  BY <1>1
<1>16. /\ BufsAt(ns, (k + 1) .. Len(ns)) = BufsIn(ns) \ BufsAt(ns, 1 .. k)
       /\ BufsAt(ns, 1 .. k) \subseteq BufsIn(ns)
  BY <1>15, Divided
<1>17. BufsIn(w) = BufsIn(ns) \ BufsIn(g) /\ BufsIn(g) \subseteq BufsIn(ns)
  BY <1>12, <1>13, <1>14, <1>16
<1> QED
  BY <1>2, <1>4, <1>5, <1>6, <1>13, <1>17

(* The superbuf at g leaves.                                                *)
LeavesAt(g, w, ns) ==
    /\ w \in Seq(Superbufs) /\ Len(w) = Len(ns) - 1
    /\ \A i \in DOMAIN w : w[i] = ns[IF i < g THEN i ELSE i + 1]

LEMMA OneLeaves ==
  ASSUME NEW ns, NEW m, Shape(ns, m), NEW g \in (m + 1) .. Len(ns), NEW w, LeavesAt(g, w, ns)
  PROVE  Shape(w, m) /\ BufsIn(w) = BufsIn(ns) \ BufsOf(ns[g]) /\ BufsOf(ns[g]) \subseteq BufsIn(ns)
<1> DEFINE h == [i \in DOMAIN w |-> IF i < g THEN i ELSE i + 1]
<1>1. /\ Len(ns) \in Nat /\ DOMAIN ns = 1 .. Len(ns) /\ m \in Nat /\ m <= Len(ns) /\ w \in Seq(Superbufs)
      /\ DOMAIN w = 1 .. (Len(ns) - 1) /\ Len(w) = Len(ns) - 1 /\ g \in Nat /\ g <= Len(ns) /\ m < g
  BY ShapeTypes DEF LeavesAt
<1>2. \A i \in DOMAIN w : h[i] = (IF i < g THEN i ELSE i + 1) /\ w[i] = ns[h[i]]
  BY DEF LeavesAt
<1>3. h \in [DOMAIN w -> DOMAIN ns]
  BY <1>1
<1> HIDE DEF h
<1>4. \A i \in DOMAIN w : w[i] = ns[h[i]] /\ (h[i] <= m <=> i <= m)
  BY <1>1, <1>2
<1>5. \A i, j \in DOMAIN w : i < j => h[i] < h[j]
  BY <1>1, <1>2
<1>6. m <= Len(w)
  BY <1>1
<1>7. Picks(h, w, m, ns, m)
  BY <1>1, <1>3, <1>4, <1>5, <1>6 DEF Picks
<1>8. {h[i] : i \in DOMAIN w} = DOMAIN ns \ {g}
  <2>1. \A j \in DOMAIN ns \ {g} : \E i \in DOMAIN w : h[i] = j
    <3> TAKE j \in DOMAIN ns \ {g}
    <3>1. CASE j < g
      BY <1>1, <1>2, <3>1
    <3>2. CASE g < j
      <4>1. j - 1 \in DOMAIN w /\ h[j - 1] = j
        BY <1>1, <1>2, <3>2
      <4> QED
        BY <4>1
    <3> QED
      BY <1>1, <3>1, <3>2
  <2>2. \A i \in DOMAIN w : h[i] \in DOMAIN ns \ {g}
    BY <1>1, <1>2
  <2> QED
    BY <2>1, <2>2
<1>9. {g} \cup (DOMAIN ns \ {g}) = DOMAIN ns /\ {g} \cap (DOMAIN ns \ {g}) = {}
  BY <1>1
<1>10. BufsOf(ns[g]) = BufsAt(ns, {g})
  BY DEF BufsAt
<1>11. BufsAt(ns, DOMAIN ns \ {g}) = BufsIn(ns) \ BufsAt(ns, {g}) /\ BufsAt(ns, {g}) \subseteq BufsIn(ns)
  BY <1>9, Divided
<1>12. Shape(w, m) /\ BufsIn(w) = BufsAt(ns, {h[i] : i \in DOMAIN w})
  BY <1>7, Picked
<1> QED
  BY <1>8, <1>10, <1>11, <1>12

(* The frame c goes into the superbuf at p, which becomes x; it may be      *)
(* matched then.                                                            *)
FilledAt(p, x, c, w, ns) ==
    /\ w \in Seq(Superbufs) /\ Len(w) = Len(ns) /\ c \notin BufsIn(ns)
    /\ NodeInv(x) /\ x.frame_idx = ns[p].frame_idx /\ BufsOf(x) = BufsOf(ns[p]) \cup {c}
    /\ \A i \in DOMAIN ns : w[i] = IF i = p THEN x ELSE ns[i]
Grows(x, p, k, m) ==
    \/ ~x.matched /\ k = m
    \/ x.matched /\ k = m + 1 /\ p = m + 1

LEMMA OneFilled ==
  ASSUME NEW ns, NEW m, Shape(ns, m), NEW p \in (m + 1) .. Len(ns), NEW x, NEW c, NEW w,
         FilledAt(p, x, c, w, ns), NEW k, Grows(x, p, k, m)
  PROVE  Shape(w, k) /\ BufsIn(w) = BufsIn(ns) \cup {c}
<1>1. /\ Len(ns) \in Nat /\ DOMAIN ns = 1 .. Len(ns) /\ m \in Nat /\ m <= Len(ns)
      /\ w \in Seq(Superbufs) /\ Len(w) = Len(ns) /\ DOMAIN w = DOMAIN ns
      /\ p \in Nat /\ p \in DOMAIN ns /\ m < p
      /\ \A i \in DOMAIN ns : ns[i].frame_idx \in Nat
  BY ShapeTypes DEF FilledAt
<1>2. \A i \in DOMAIN ns : BufsOf(w[i]) = BufsOf(ns[i]) \cup IF i = p THEN {c} ELSE {}
  BY <1>1 DEF FilledAt
<1>3. BufsIn(w) = BufsIn(ns) \cup {c}
  <2>1. \A b : b \in BufsIn(w) <=> \E i \in DOMAIN ns : b \in BufsOf(w[i])
    BY <1>1 DEF BufsIn
  <2>2. \A b : b \in BufsIn(ns) <=> \E i \in DOMAIN ns : b \in BufsOf(ns[i])
    BY <1>1 DEF BufsIn
  <2> QED
    BY <1>1, <1>2, <2>1, <2>2
<1>4. k \in Nat /\ k <= Len(w) /\ m <= k
  BY <1>1 DEF Grows
<1>5. \A i \in DOMAIN w : NodeInv(w[i]) /\ (w[i].matched <=> i <= k) /\ w[i].frame_idx = ns[i].frame_idx
  <2> TAKE i \in DOMAIN w
  <2>1. CASE i = p
    BY <1>1, <2>1 DEF Grows, FilledAt
  <2>2. CASE i # p
    <3>1. w[i] = ns[i] /\ NodeInv(ns[i]) /\ (ns[i].matched <=> i <= m)
      BY <1>1, <2>2 DEF Shape, FilledAt
    <3>2. i <= m <=> i <= k
      BY <1>1, <2>2 DEF Grows
    <3> QED
      BY <3>1, <3>2
  <2> QED
    BY <2>1, <2>2
<1>6. \A i, j \in DOMAIN w : i < j =>
         /\ w[i].frame_idx <= w[j].frame_idx
         /\ Repeats = {} \/ k < i => w[i].frame_idx < w[j].frame_idx
  <2>1. \A i, j \in DOMAIN ns : i < j =>
           /\ ns[i].frame_idx <= ns[j].frame_idx
           /\ Repeats = {} \/ m < i => ns[i].frame_idx < ns[j].frame_idx
    BY DEF Shape
  <2>2. \A i \in DOMAIN ns : k < i => m < i
    BY <1>1, <1>4
  <2> QED
    BY <1>1, <1>5, <2>1, <2>2
<1>7. \A i, j \in DOMAIN w : \A b \in BufsOf(w[i]) : b \in BufsOf(w[j]) => i = j
  <2>1. \A i, j \in DOMAIN ns : \A b \in BufsOf(ns[i]) : b \in BufsOf(ns[j]) => i = j
    BY DEF Shape
  <2>2. \A i \in DOMAIN ns : c \notin BufsOf(ns[i])
    BY DEF FilledAt, BufsIn
  <2> QED
    BY <1>1, <1>2, <2>1, <2>2
<1> QED
  BY <1>1, <1>3, <1>4, <1>5, <1>6, <1>7 DEF Shape

(* The frame c comes in a superbuf x of its own, before the one at p.       *)
InsertedAt(p, x, c, w, ns) ==
    /\ w \in Seq(Superbufs) /\ Len(w) = Len(ns) + 1 /\ c \notin BufsIn(ns)
    /\ NodeInv(x) /\ x.frame_idx \in Nat /\ BufsOf(x) = {c}
    /\ \A i \in DOMAIN w : w[i] = IF i < p THEN ns[i] ELSE IF i = p THEN x ELSE ns[i - 1]
FitsAt(p, x, ns, m) ==
    /\ \A i \in DOMAIN ns : i < p => /\ ns[i].frame_idx <= x.frame_idx
                                     /\ Repeats = {} \/ m < i => ns[i].frame_idx < x.frame_idx
    /\ \A i \in DOMAIN ns : p <= i => x.frame_idx < ns[i].frame_idx

LEMMA OneInserted ==
  ASSUME NEW ns, NEW m, Shape(ns, m), NEW p \in (m + 1) .. (Len(ns) + 1), NEW x, NEW c, NEW w,
         InsertedAt(p, x, c, w, ns), FitsAt(p, x, ns, m), NEW k, Grows(x, p, k, m)
  PROVE  Shape(w, k) /\ BufsIn(w) = BufsIn(ns) \cup {c}
<1> DEFINE h == [i \in DOMAIN w |-> IF i < p THEN i ELSE i - 1]
<1>1. /\ Len(ns) \in Nat /\ DOMAIN ns = 1 .. Len(ns) /\ m \in Nat /\ m <= Len(ns)
      /\ w \in Seq(Superbufs) /\ DOMAIN w = 1 .. (Len(ns) + 1) /\ Len(w) = Len(ns) + 1
      /\ p \in Nat /\ m < p /\ p <= Len(ns) + 1 /\ p \in DOMAIN w /\ x.frame_idx \in Nat
      /\ \A i \in DOMAIN ns : ns[i].frame_idx \in Nat
  BY ShapeTypes DEF InsertedAt
<1>2. \A i \in DOMAIN w : h[i] = IF i < p THEN i ELSE i - 1
  OBVIOUS
<1> HIDE DEF h
<1>3. \A i \in DOMAIN w : i # p => h[i] \in DOMAIN ns /\ w[i] = ns[h[i]]
  BY <1>1, <1>2 DEF InsertedAt
<1>4. \A j \in DOMAIN ns : \E i \in DOMAIN w : i # p /\ h[i] = j
  <2> TAKE j \in DOMAIN ns
  <2>1. CASE j < p
    BY <1>1, <1>2, <2>1
  <2>2. CASE p <= j
    <3>1. j + 1 \in DOMAIN w /\ j + 1 # p /\ ~(j + 1 < p) /\ j + 1 - 1 = j
      BY <1>1, <2>2
    <3>2. h[j + 1] = j
      BY <1>2, <3>1, SMTT(60)
    <3> QED
      BY <3>1, <3>2
  <2> QED
    BY <1>1, <2>1, <2>2
<1>5. w[p] = x /\ BufsOf(x) = {c} /\ NodeInv(x) /\ c \notin BufsIn(ns)
  BY <1>1 DEF InsertedAt
<1>6. BufsIn(w) = BufsIn(ns) \cup {c}
  <2>1. \A b : b \in BufsIn(w) <=> \E i \in DOMAIN w : b \in BufsOf(w[i])
    BY DEF BufsIn
  <2>2. \A b : b \in BufsIn(ns) <=> \E i \in DOMAIN ns : b \in BufsOf(ns[i])
    BY DEF BufsIn
  <2> QED
    BY <1>1, <1>3, <1>4, <1>5, <2>1, <2>2, SMTT(60)
<1>7. k \in Nat /\ k <= Len(w) /\ m <= k
  BY <1>1 DEF Grows
<1>8. \A i \in DOMAIN w : NodeInv(w[i]) /\ (w[i].matched <=> i <= k)
  <2> TAKE i \in DOMAIN w
  <2>1. CASE i = p
    BY <1>1, <1>5, <2>1 DEF Grows
  <2>2. CASE i # p
    <3>1. h[i] \in DOMAIN ns /\ w[i] = ns[h[i]] /\ NodeInv(w[i]) /\ (w[i].matched <=> h[i] <= m)
      BY <1>3, <2>2 DEF Shape
    <3>2. h[i] <= m <=> i <= k
      BY <1>1, <1>2, <2>2 DEF Grows
    <3> QED
      BY <3>1, <3>2
  <2> QED
    BY <2>1, <2>2
<1>9. ASSUME NEW i \in DOMAIN w, NEW j \in DOMAIN w, i < j
      PROVE  /\ w[i].frame_idx <= w[j].frame_idx
             /\ Repeats = {} \/ k < i => w[i].frame_idx < w[j].frame_idx
  <2>1. CASE i = p
    <3>1. h[j] \in DOMAIN ns /\ p <= h[j] /\ w[j] = ns[h[j]]
      BY <1>1, <1>2, <1>3, <1>9, <2>1
    <3>2. x.frame_idx < ns[h[j]].frame_idx
      BY <3>1 DEF FitsAt
    <3> QED
      BY <1>1, <1>5, <2>1, <3>1, <3>2
  <2>2. CASE j = p
    <3>1. i \in DOMAIN ns /\ i < p /\ w[i] = ns[i] /\ (k < i => m < i)
      BY <1>1, <1>2, <1>3, <1>7, <1>9, <2>2
    <3>2. ns[i].frame_idx <= x.frame_idx /\ (Repeats = {} \/ m < i => ns[i].frame_idx < x.frame_idx)
      BY <3>1 DEF FitsAt
    <3> QED
      BY <1>5, <2>2, <3>1, <3>2
  <2>3. CASE i # p /\ j # p
    <3>1. h[i] < h[j] /\ (k < i => m < h[i])
      BY <1>1, <1>2, <1>9, <2>3 DEF Grows
    <3>2. h[i] \in DOMAIN ns /\ h[j] \in DOMAIN ns /\ w[i] = ns[h[i]] /\ w[j] = ns[h[j]]
      BY <1>3, <2>3
    <3> QED
      BY <3>1, <3>2 DEF Shape
  <2> QED
    BY <2>1, <2>2, <2>3
<1>10. ASSUME NEW i \in DOMAIN w, NEW j \in DOMAIN w, NEW b \in BufsOf(w[i]), b \in BufsOf(w[j])
       PROVE  i = j
  <2>1. \A a \in DOMAIN ns : c \notin BufsOf(ns[a])
    BY <1>5 DEF BufsIn
  <2>2. CASE i = p \/ j = p
    BY <1>3, <1>5, <1>10, <2>1, <2>2
  <2>3. CASE i # p /\ j # p
    <3>1. h[i] = h[j]
      BY <1>3, <1>10, <2>3 DEF Shape
    <3> QED
      BY <1>1, <1>2, <2>3, <3>1
  <2> QED
    BY <2>2, <2>3
<1> QED
  BY <1>1, <1>6, <1>7, <1>8, <1>9, <1>10 DEF Shape

LEMMA WithoutNone ==
  ASSUME NEW ns \in Seq(Superbufs), NEW R, R \cap DOMAIN ns = {}
  PROVE  Without(ns, R) = ns
<1>1. DOMAIN ns \ R = 1 .. Len(ns) /\ Len(ns) \in Nat /\ DOMAIN ns = 1 .. Len(ns)
  OBVIOUS
<1>2. PICK L \in Nat : L = Len(ns) /\ Cardinality(1 .. L) = L
  <2>1. \A n \in Nat : Cardinality(1 .. n) = n
    BY FS_Interval
  <2> QED
    BY <1>1, <2>1
<1>3. ASSUME NEW k \in 1 .. Len(ns)
      PROVE  Cardinality({j \in 1 .. Len(ns) : j <= k}) = k
  <2>1. {j \in 1 .. Len(ns) : j <= k} = 1 .. k
    BY <1>1
  <2>2. Cardinality(1 .. k) = k
    BY <1>1, FS_Interval
  <2> QED
    BY <2>1, <2>2
<1>4. ASSUME NEW i \in 1 .. Len(ns)
      PROVE  RankedIn(1 .. Len(ns), i) = i
  BY <1>3 DEF RankedIn
<1>5. Without(ns, R) = [i \in 1 .. Len(ns) |-> ns[i]]
  <2>1. Without(ns, R) = [i \in 1 .. Len(ns) |-> ns[RankedIn(1 .. Len(ns), i)]]
    BY <1>1, <1>2 DEF Without
  <2> QED
    BY <1>4, <2>1
<1>6. ns = [i \in 1 .. Len(ns) |-> ns[i]]
  BY <1>1
<1> QED
  BY <1>5, <1>6

LEMMA WithoutOne ==
  ASSUME NEW ns \in Seq(Superbufs), NEW R, NEW g \in DOMAIN ns, R \cap DOMAIN ns = {g}
  PROVE  LeavesAt(g, Without(ns, R), ns)
<1> DEFINE L == Len(ns)
           keep == (1 .. L) \ {g}
           Rank(k) == Cardinality({j \in keep : j <= k})
<1>1. DOMAIN ns \ R = keep /\ L \in Nat /\ DOMAIN ns = 1 .. L /\ g \in 1 .. L /\ L - 1 \in Nat
  OBVIOUS
<1>2. Cardinality(keep) = L - 1
  <2>0. \A n \in Nat : IsFiniteSet(1 .. n) /\ Cardinality(1 .. n) = n
    BY FS_Interval
  <2>1. IsFiniteSet(1 .. L) /\ Cardinality(1 .. L) = L
    BY <1>1, <2>0
  <2>2. g \in 1 .. L /\ L \in Nat
    BY <1>1
  <2> HIDE DEF L
  <2>3. Cardinality((1 .. L) \ {g}) = Cardinality(1 .. L) - 1
    BY <2>1, <2>2, FS_RemoveElement
  <2> QED
    BY <2>1, <2>2, <2>3
<1>3. ASSUME NEW k \in keep
      PROVE  Rank(k) = IF k < g THEN k ELSE k - 1
  <2>1. IsFiniteSet(1 .. k) /\ Cardinality(1 .. k) = k
    BY <1>1, FS_Interval
  <2>2. CASE k < g
    <3>1. {j \in keep : j <= k} = 1 .. k
      BY <1>1, <2>2
    <3> QED
      BY <2>1, <2>2, <3>1
  <2>3. CASE ~(k < g)
    <3>1. {j \in keep : j <= k} = (1 .. k) \ {g} /\ g \in 1 .. k
      BY <1>1, <2>3
    <3>2. Cardinality((1 .. k) \ {g}) = k - 1
      BY <2>1, <3>1, FS_RemoveElement
    <3> QED
      BY <2>3, <3>1, <3>2
  <2> QED
    BY <2>2, <2>3
<1>4. ASSUME NEW i \in 1 .. (L - 1)
      PROVE  RankedIn(keep, i) = IF i < g THEN i ELSE i + 1
  <2> DEFINE a == IF i < g THEN i ELSE i + 1
  <2>1. a \in keep /\ (IF a < g THEN a ELSE a - 1) = i
    BY <1>1
  <2>2. \A k \in keep : (IF k < g THEN k ELSE k - 1) = i => k = a
    BY <1>1
  <2>5. RankedIn(keep, i) = CHOOSE k \in keep : Rank(k) = i
    BY DEF RankedIn
  <2> HIDE DEF Rank, a, keep
  <2>3. Rank(a) = i /\ \A k \in keep : Rank(k) = i => k = a
    BY <1>3, <2>1, <2>2
  <2>4. RankedIn(keep, i) = a
    BY <2>1, <2>3, <2>5
  <2> QED
    BY <2>4 DEF a
<1> DEFINE w == [i \in 1 .. (L - 1) |-> ns[RankedIn(keep, i)]]
<1>5. Without(ns, R) = w
  <2> HIDE DEF keep
  <2> QED
    BY <1>1, <1>2 DEF Without
<1>6. \A i \in 1 .. (L - 1) : w[i] = ns[IF i < g THEN i ELSE i + 1]
  <2> HIDE DEF keep, Rank
  <2> QED
    BY <1>4
<1>7. \A i \in 1 .. (L - 1) : w[i] \in Superbufs
  <2>1. \A i \in 1 .. (L - 1) : (IF i < g THEN i ELSE i + 1) \in DOMAIN ns
    BY <1>1
  <2> HIDE DEF w
  <2> QED
    BY <1>6, <2>1
<1>8. w = [i \in 1 .. (L - 1) |-> w[i]]
  OBVIOUS
<1>9. w \in Seq(Superbufs) /\ Len(w) = L - 1 /\ DOMAIN w = 1 .. (L - 1)
  <2> HIDE DEF w
  <2> QED
    BY <1>1, <1>7, <1>8
<1> QED
  BY <1>5, <1>6, <1>9 DEF LeavesAt

-----------------------------------------------------------------------------
(* The search for the superbuf of the frame in hand.                        *)
LEMMA LeastOf ==
  ASSUME NEW I, I \subseteq Nat, I # {}
  PROVE  Min(I) \in I /\ \A j \in I : Min(I) <= j
<1>1. \E x \in I : \A y \in I : ~(<<y, x>> \in OpToRel(<, Nat))
  <2> DEFINE Rel == OpToRel(<, Nat)
  <2>1. IsWellFoundedOn(Rel, Nat)
    BY NatLessThanWellFounded
  <2> HIDE DEF Rel
  <2>2. \E x \in I : \A y \in I : ~(<<y, x>> \in Rel)
    BY <2>1, WFMin, Zenon
  <2> QED
    BY <2>2 DEF Rel
<1>2. PICK x \in I : \A y \in I : ~(<<y, x>> \in OpToRel(<, Nat))
  BY <1>1
<1>3. \A y \in I : ~(y < x)
  BY <1>2 DEF OpToRel
<1>4. \A y \in I : x <= y
  BY <1>3
<1> QED
  BY <1>4 DEF Min

(* The first of the positions I, or 0.                                      *)
First(k, I) ==
    \/ k = 0 /\ I = {}
    \/ k \in I /\ \A j \in I : k <= j

LEMMA FirstOf ==
  ASSUME NEW I, I \subseteq Nat
  PROVE  First(IF I # {} THEN Min(I) ELSE 0, I)
BY LeastOf DEF First

LEMMA SearchIs ==
  ASSUME Len(sq.nodes) \in Nat
  PROVE  /\ First(Found, {i \in 1 .. Len(sq.nodes) : Accepts(sq.nodes[i])})
         /\ First(LastBuf, {i \in 1 .. ScanEnd : IsOlderUnmatched(sq.nodes[i])})
         /\ First(InsertBefore, {i \in 1 .. ScanEnd : IsNewerUnmatched(sq.nodes[i])})
<1>1. First(Found, {i \in 1 .. Len(sq.nodes) : Accepts(sq.nodes[i])})
  <2> DEFINE I == {i \in 1 .. Len(sq.nodes) : Accepts(sq.nodes[i])}
  <2>1. Found = IF I # {} THEN Min(I) ELSE 0
    BY DEF Found, SelectInSeq
  <2>2. I \subseteq Nat
    OBVIOUS
  <2> HIDE DEF I
  <2>3. First(Found, I)
    BY <2>1, <2>2, FirstOf
  <2> QED
    BY <2>3 DEF I
<1>2. First(LastBuf, {i \in 1 .. ScanEnd : IsOlderUnmatched(sq.nodes[i])})
  <2> DEFINE I == {i \in 1 .. ScanEnd : IsOlderUnmatched(sq.nodes[i])}
  <2>1. LastBuf = IF I # {} THEN Min(I) ELSE 0
    BY DEF LastBuf, SelectInSubSeq
  <2>2. I \subseteq Nat
    OBVIOUS
  <2> HIDE DEF I
  <2>3. First(LastBuf, I)
    BY <2>1, <2>2, FirstOf
  <2> QED
    BY <2>3 DEF I
<1>3. First(InsertBefore, {i \in 1 .. ScanEnd : IsNewerUnmatched(sq.nodes[i])})
  <2> DEFINE I == {i \in 1 .. ScanEnd : IsNewerUnmatched(sq.nodes[i])}
  <2>1. InsertBefore = IF I # {} THEN Min(I) ELSE 0
    BY DEF InsertBefore, SelectInSubSeq
  <2>2. I \subseteq Nat
    OBVIOUS
  <2> HIDE DEF I
  <2>3. First(InsertBefore, I)
    BY <2>1, <2>2, FirstOf
  <2> QED
    BY <2>3 DEF I
<1> QED
  BY <1>1, <1>2, <1>3

QueueInv ==
    /\ sq \in Queue /\ Shape(sq.nodes, sq.match_cnt)
    /\ Len(sq.nodes) <= sq.match_cnt + MaxUnmatchedFrames + 1
    /\ cur \in Bufs \cup {NoBuf} /\ (pc \in {"meta", "comp"} <=> cur # NoBuf)

LEMMA QueueTypes ==
  ASSUME QueueInv
  PROVE  /\ sq.nodes \in Seq(Superbufs) /\ Len(sq.nodes) \in Nat /\ DOMAIN sq.nodes = 1 .. Len(sq.nodes)
         /\ sq.match_cnt \in Nat /\ sq.match_cnt <= Len(sq.nodes)
         /\ \A i \in DOMAIN sq.nodes :
                /\ sq.nodes[i] \in Superbufs /\ sq.nodes[i].frame_idx \in Nat /\ NodeInv(sq.nodes[i])
                /\ sq.nodes[i].matched <=> i <= sq.match_cnt
         /\ \A i, j \in DOMAIN sq.nodes : i < j /\ sq.match_cnt < i =>
                sq.nodes[i].frame_idx < sq.nodes[j].frame_idx
         /\ MaxUnmatchedFrames \in Nat
         /\ UnmatchedBundles = Len(sq.nodes) - sq.match_cnt
<1>1. Shape(sq.nodes, sq.match_cnt)
  BY DEF QueueInv
<1>2. NumMatched(sq.nodes) = sq.match_cnt
  BY <1>1, MatchedFirst
<1>3. MaxUnmatchedFrames \in Nat
  BY ConstAssumption
<1>4. /\ \A i \in DOMAIN sq.nodes : NodeInv(sq.nodes[i]) /\ (sq.nodes[i].matched <=> i <= sq.match_cnt)
      /\ \A i, j \in DOMAIN sq.nodes : i < j /\ sq.match_cnt < i =>
                sq.nodes[i].frame_idx < sq.nodes[j].frame_idx
  BY <1>1 DEF Shape
<1> QED
  BY <1>1, <1>2, <1>3, <1>4, ShapeTypes DEF UnmatchedBundles

(* The superbuf of the frame in hand, if there is one, is the only          *)
(* unmatched one of its frame.                                              *)
LEMMA FoundIs ==
  ASSUME QueueInv, Normal, cur \in Bufs
  PROVE  \/ /\ Found = 0 /\ ScanEnd = Len(sq.nodes)
            /\ \A i \in DOMAIN sq.nodes : sq.match_cnt < i => sq.nodes[i].frame_idx # cur[2]
         \/ /\ Found \in (sq.match_cnt + 1) .. Len(sq.nodes) /\ ScanEnd = Found - 1
            /\ sq.nodes[Found].frame_idx = cur[2]
            /\ \A i \in DOMAIN sq.nodes : sq.match_cnt < i /\ i < Found =>
                   sq.nodes[i].frame_idx < cur[2]
<1> DEFINE N == Len(sq.nodes)
<1>1. /\ N \in Nat /\ DOMAIN sq.nodes = 1 .. N /\ sq.match_cnt \in Nat
      /\ \A i \in 1 .. N : sq.nodes[i].matched <=> i <= sq.match_cnt
      /\ \A i, j \in 1 .. N : i < j /\ sq.match_cnt < i => sq.nodes[i].frame_idx < sq.nodes[j].frame_idx
  BY QueueTypes
<1>2. \A i \in 1 .. N : Accepts(sq.nodes[i]) <=> sq.match_cnt < i /\ sq.nodes[i].frame_idx = cur[2]
  <2>1. \A n : Accepts(n) <=> ~n.matched /\ n.frame_idx = cur[2]
    BY Zenon DEF Accepts, Normal
  <2> TAKE i \in 1 .. N
  <2>2. ~sq.nodes[i].matched <=> sq.match_cnt < i
    BY <1>1
  <2> QED
    BY <2>1, <2>2
<1>3. First(Found, {i \in 1 .. N : Accepts(sq.nodes[i])})
  BY <1>1, SearchIs
<1>4. CASE Found = 0
  <2>1. \A i \in 1 .. N : ~Accepts(sq.nodes[i])
    BY <1>3, <1>4 DEF First
  <2> QED
    BY <1>1, <1>2, <1>4, <2>1 DEF ScanEnd
<1>5. CASE Found # 0
  <2>1. Found \in 1 .. N /\ Accepts(sq.nodes[Found])
    BY <1>3, <1>5 DEF First
  <2>2. Found \in (sq.match_cnt + 1) .. N /\ sq.nodes[Found].frame_idx = cur[2]
    BY <1>1, <1>2, <2>1
  <2>3. ASSUME NEW i \in DOMAIN sq.nodes, sq.match_cnt < i, i < Found
        PROVE  sq.nodes[i].frame_idx < cur[2]
    <3>1. sq.nodes[i].frame_idx < sq.nodes[Found].frame_idx
      BY <1>1, <2>1, <2>3
    <3> QED
      BY <2>2, <3>1
  <2>4. ScanEnd = Found - 1
    BY <1>5 DEF ScanEnd
  <2> QED
    BY <2>2, <2>3, <2>4
<1> QED
  BY <1>4, <1>5

LEMMA LastBufIs ==
  ASSUME QueueInv, Normal, cur \in Bufs
  PROVE  \/ LastBuf = 0 /\ \A i \in 1 .. ScanEnd : sq.match_cnt < i => ~(sq.nodes[i].frame_idx < cur[2])
         \/ /\ LastBuf = sq.match_cnt + 1 /\ LastBuf \in 1 .. ScanEnd
            /\ sq.nodes[LastBuf].frame_idx < cur[2]
<1>1. /\ Len(sq.nodes) \in Nat /\ DOMAIN sq.nodes = 1 .. Len(sq.nodes) /\ sq.match_cnt \in Nat
      /\ \A i \in DOMAIN sq.nodes : sq.nodes[i].frame_idx \in Nat /\ (sq.nodes[i].matched <=> i <= sq.match_cnt)
      /\ \A i, j \in DOMAIN sq.nodes : i < j /\ sq.match_cnt < i => sq.nodes[i].frame_idx < sq.nodes[j].frame_idx
  BY QueueTypes
<1>2. ScanEnd \in Nat /\ ScanEnd <= Len(sq.nodes) /\ cur[2] \in Nat
  BY <1>1, FoundIs, BufShape
<1>3. \A i \in 1 .. ScanEnd : i \in DOMAIN sq.nodes
  BY <1>1, <1>2
<1>4. \A i \in 1 .. ScanEnd :
         IsOlderUnmatched(sq.nodes[i]) <=> sq.match_cnt < i /\ sq.nodes[i].frame_idx < cur[2]
  BY <1>1, <1>3 DEF IsOlderUnmatched
<1>5. First(LastBuf, {i \in 1 .. ScanEnd : IsOlderUnmatched(sq.nodes[i])})
  BY <1>1, SearchIs
<1>6. CASE LastBuf = 0
  <2>1. \A i \in 1 .. ScanEnd : ~IsOlderUnmatched(sq.nodes[i])
    BY <1>5, <1>6 DEF First
  <2> QED
    BY <1>4, <1>6, <2>1
<1>7. CASE LastBuf # 0
  <2>1. LastBuf \in 1 .. ScanEnd /\ IsOlderUnmatched(sq.nodes[LastBuf])
        /\ \A j \in 1 .. ScanEnd : IsOlderUnmatched(sq.nodes[j]) => LastBuf <= j
    BY <1>5, <1>7 DEF First
  <2>2. sq.match_cnt < LastBuf /\ sq.nodes[LastBuf].frame_idx < cur[2]
    BY <1>4, <2>1
  <2>3. LastBuf = sq.match_cnt + 1
    <3> SUFFICES ASSUME LastBuf # sq.match_cnt + 1
                 PROVE  FALSE
      OBVIOUS
    <3> DEFINE f == sq.match_cnt + 1
    <3>1. f \in 1 .. ScanEnd /\ f < LastBuf /\ sq.match_cnt < f
      BY <1>1, <1>2, <2>1, <2>2
    <3> HIDE DEF f
    <3>2. sq.nodes[f].frame_idx < sq.nodes[LastBuf].frame_idx
      BY <1>1, <1>3, <2>1, <3>1
    <3>3. sq.nodes[f].frame_idx < cur[2]
      <4>1. sq.nodes[f].frame_idx \in Nat /\ sq.nodes[LastBuf].frame_idx \in Nat
        BY <1>1, <1>3, <2>1, <3>1
      <4> QED
        BY <1>2, <2>2, <3>2, <4>1
    <3>4. IsOlderUnmatched(sq.nodes[f])
      BY <1>4, <3>1, <3>3
    <3> QED
      BY <1>2, <2>1, <3>1, <3>4
  <2> QED
    BY <2>1, <2>2, <2>3
<1> QED
  BY <1>6, <1>7

(* Where a superbuf of the frame in hand belongs, if there is none yet.     *)
InsertPos == IF InsertBefore = 0 THEN Len(sq.nodes) + 1 ELSE InsertBefore

LEMMA InsertPosIs ==
  ASSUME QueueInv, Normal, cur \in Bufs, Found = 0
  PROVE  /\ InsertPos \in (sq.match_cnt + 1) .. (Len(sq.nodes) + 1)
         /\ \A i \in DOMAIN sq.nodes : sq.match_cnt < i /\ i < InsertPos => sq.nodes[i].frame_idx < cur[2]
         /\ \A i \in DOMAIN sq.nodes : InsertPos <= i => cur[2] < sq.nodes[i].frame_idx
<1> DEFINE N == Len(sq.nodes)
<1>1. /\ N \in Nat /\ DOMAIN sq.nodes = 1 .. N /\ sq.match_cnt \in Nat /\ sq.match_cnt <= N
      /\ \A i \in DOMAIN sq.nodes : sq.nodes[i].frame_idx \in Nat /\ (sq.nodes[i].matched <=> i <= sq.match_cnt)
      /\ \A i, j \in DOMAIN sq.nodes : i < j /\ sq.match_cnt < i => sq.nodes[i].frame_idx < sq.nodes[j].frame_idx
  BY QueueTypes
<1>2. ScanEnd = N /\ cur[2] \in Nat
      /\ \A i \in DOMAIN sq.nodes : sq.match_cnt < i => sq.nodes[i].frame_idx # cur[2]
  BY <1>1, FoundIs, BufShape
<1>3. \A i \in 1 .. N :
         IsNewerUnmatched(sq.nodes[i]) <=> sq.match_cnt < i /\ sq.nodes[i].frame_idx > cur[2]
  BY <1>1 DEF IsNewerUnmatched
<1>4. First(InsertBefore, {i \in 1 .. N : IsNewerUnmatched(sq.nodes[i])})
  BY <1>1, <1>2, SearchIs
<1>5. CASE InsertBefore = 0
  <2>1. \A i \in 1 .. N : ~IsNewerUnmatched(sq.nodes[i])
    BY <1>4, <1>5 DEF First
  <2>2. InsertPos = N + 1
    BY <1>5 DEF InsertPos
  <2>3. \A i \in DOMAIN sq.nodes : sq.match_cnt < i => sq.nodes[i].frame_idx < cur[2]
    BY <1>1, <1>2, <1>3, <2>1
  <2> QED
    BY <1>1, <2>2, <2>3
<1>6. CASE InsertBefore # 0
  <2>1. InsertBefore \in 1 .. N /\ IsNewerUnmatched(sq.nodes[InsertBefore])
        /\ \A j \in 1 .. N : IsNewerUnmatched(sq.nodes[j]) => InsertBefore <= j
    BY <1>4, <1>6 DEF First
  <2>2. InsertPos = InsertBefore /\ sq.match_cnt < InsertBefore /\ sq.nodes[InsertBefore].frame_idx > cur[2]
    BY <1>3, <1>6, <2>1 DEF InsertPos
  <2>3. \A i \in DOMAIN sq.nodes : sq.match_cnt < i /\ i < InsertBefore => sq.nodes[i].frame_idx < cur[2]
    BY <1>1, <1>2, <1>3, <2>1
  <2>4. \A i \in DOMAIN sq.nodes : InsertBefore <= i => cur[2] < sq.nodes[i].frame_idx
    <3> SUFFICES ASSUME NEW i \in DOMAIN sq.nodes, InsertBefore <= i
                 PROVE  cur[2] < sq.nodes[i].frame_idx
      OBVIOUS
    <3>1. CASE i = InsertBefore
      BY <1>1, <1>2, <2>2, <3>1
    <3>2. CASE InsertBefore < i
      <4>1. sq.nodes[InsertBefore].frame_idx < sq.nodes[i].frame_idx
        BY <1>1, <2>1, <2>2, <3>2
      <4>2. sq.nodes[InsertBefore].frame_idx \in Nat /\ sq.nodes[i].frame_idx \in Nat
        BY <1>1, <2>1
      <4> QED
        BY <1>2, <2>2, <4>1, <4>2
    <3> QED
      BY <1>1, <2>1, <3>1, <3>2
  <2> QED
    BY <1>1, <2>1, <2>2, <2>3, <2>4
<1> QED
  BY <1>5, <1>6

(* At most one superbuf makes room, an unmatched one.                       *)
LEMMA EvictionIs ==
  ASSUME QueueInv, Normal, cur \in Bufs, Found = 0,
         ~(MaxUnmatchedFrames < UnmatchedBundles /\ LastBuf = 0)
  PROVE  \/ Evicted = {} /\ Forced = {} /\ Len(sq.nodes) < sq.match_cnt + MaxUnmatchedFrames + 1
         \/ \E g \in (sq.match_cnt + 1) .. Len(sq.nodes) :
                /\ g # InsertPos
                /\ \/ Evicted = {g} /\ Forced = {}
                   \/ Evicted = {} /\ Forced = {g}
<1> DEFINE N == Len(sq.nodes)
           m == sq.match_cnt
<1>1. /\ N \in Nat /\ DOMAIN sq.nodes = 1 .. N /\ m \in Nat /\ m <= N
      /\ MaxUnmatchedFrames \in Nat /\ UnmatchedBundles = N - m
      /\ \A i \in DOMAIN sq.nodes : sq.nodes[i].frame_idx \in Nat
  BY QueueTypes
<1>2. ScanEnd = N /\ cur[2] \in Nat /\ N <= m + MaxUnmatchedFrames + 1
  BY <1>1, FoundIs, BufShape DEF QueueInv
<1>3. \/ LastBuf = 0
      \/ LastBuf = m + 1 /\ LastBuf \in 1 .. N /\ sq.nodes[LastBuf].frame_idx < cur[2]
  BY <1>2, LastBufIs
<1>4. Evictable = {j \in LastBuf .. N : ~sq.nodes[j].expected /\ j # InsertBefore}
  BY DEF Evictable
<1>5. LastBuf \in Nat
  BY <1>1, <1>3
<1>6. IsFiniteSet(Evictable)
  <2>1. IsFiniteSet(LastBuf .. N)
    BY <1>1, <1>5, FS_Interval
  <2>2. Evictable \subseteq LastBuf .. N
    BY <1>4
  <2> QED
    BY <2>1, <2>2, FS_Subset
<1>7. ASSUME NEW j
      PROVE  /\ Cardinality({i \in Evictable : i < j}) \in Nat
             /\ Cardinality({i \in Evictable : i < j}) = 0 <=> {i \in Evictable : i < j} = {}
  <2>1. IsFiniteSet({i \in Evictable : i < j})
    <3>1. {i \in Evictable : i < j} \subseteq Evictable
      OBVIOUS
    <3> QED
      BY <1>6, <3>1, FS_Subset
  <2> QED
    BY <2>1, FS_CardinalityType, FS_EmptySet
<1>8. Cardinality({}) = 0 /\ \A g : Cardinality({g}) = 1
  BY FS_EmptySet, FS_Singleton
<1>9. CASE N - m <= MaxUnmatchedFrames
  <2>1. Excess = 0
    BY <1>1, <1>9 DEF Excess
  <2>2. Evicted = {}
    BY <1>7, <2>1 DEF Evicted
  <2>3. Forced = {}
    BY <1>8, <2>1, <2>2 DEF Forced
  <2>4. N < m + MaxUnmatchedFrames + 1
    BY <1>1, <1>9
  <2> QED
    BY <2>2, <2>3, <2>4
<1>10. CASE ~(N - m <= MaxUnmatchedFrames)
  <2>1. Excess = 1
    <3>1. N - m = MaxUnmatchedFrames + 1
      BY <1>1, <1>2, <1>10
    <3> QED
      BY <1>1, <3>1 DEF Excess
  <2>2. LastBuf = m + 1 /\ LastBuf \in 1 .. N /\ sq.nodes[LastBuf].frame_idx < cur[2] /\ LastBuf # 0
    BY <1>1, <1>3, <1>10
  <2>3. LastBuf # InsertPos
    <3>1. \A i \in DOMAIN sq.nodes : InsertPos <= i => cur[2] < sq.nodes[i].frame_idx
      BY InsertPosIs
    <3>2. LastBuf \in DOMAIN sq.nodes /\ sq.nodes[LastBuf].frame_idx \in Nat
      BY <1>1, <2>2
    <3>3. ~(InsertPos <= LastBuf)
      BY <1>2, <2>2, <3>1, <3>2
    <3> QED
      BY <1>1, <2>2, <3>3
  <2>4. \A g \in LastBuf .. N : g \in (m + 1) .. N /\ g # N + 1
    BY <1>1, <2>2
  <2>5. CASE Evictable = {}
    <3>1. Evicted = {}
      BY <2>5 DEF Evicted
    <3>2. Forced = {LastBuf}
      BY <1>8, <2>1, <3>1 DEF Forced
    <3>3. LastBuf \in (m + 1) .. N
      BY <1>1, <2>2
    <3> QED
      BY <2>3, <3>1, <3>2, <3>3
  <2>6. CASE Evictable # {}
    <3>1. Evictable \subseteq Nat
      BY <1>1, <1>4, <1>5
    <3>2. PICK g \in Evictable : \A j \in Evictable : g <= j
      BY <2>6, <3>1, LeastOf
    <3>3. \A j \in Evictable : Cardinality({i \in Evictable : i < j}) < 1 <=> j = g
      <4> SUFFICES ASSUME NEW j \in Evictable
                   PROVE  Cardinality({i \in Evictable : i < j}) < 1 <=> j = g
        OBVIOUS
      <4>1. Cardinality({i \in Evictable : i < j}) < 1 <=> {i \in Evictable : i < j} = {}
        BY <1>7
      <4>2. {i \in Evictable : i < j} = {} <=> j = g
        <5>1. j \in Nat /\ g \in Nat
          BY <3>1
        <5>2. CASE j = g
          <6>1. \A i \in Evictable : ~(i < g)
            <7> TAKE i \in Evictable
            <7>1. i \in Nat /\ g <= i
              BY <3>1, <3>2
            <7> QED
              BY <5>1, <7>1
          <6> QED
            BY <5>2, <6>1
        <5>3. CASE j # g
          <6>1. g < j
            BY <3>2, <5>1, <5>3
          <6>2. g \in {i \in Evictable : i < j}
            BY <6>1
          <6> QED
            BY <5>3, <6>2
        <5> QED
          BY <5>2, <5>3
      <4> QED
        BY <4>1, <4>2
    <3>4. Evicted = {g}
      BY <2>1, <2>2, <3>3 DEF Evicted
    <3>5. Forced = {}
      <4>2. Cardinality(Evicted) = 1
        BY <1>8, <3>4
      <4>1. ~(Cardinality(Evicted) < Excess)
        BY <2>1, <4>2
      <4> QED
        BY <4>1 DEF Forced
    <3>6. g \in LastBuf .. N /\ g # InsertBefore
      BY <1>4
    <3>7. g \in (m + 1) .. N /\ g # InsertPos
      BY <2>4, <3>6 DEF InsertPos
    <3> QED
      BY <3>4, <3>5, <3>7
  <2> QED
    BY <2>5, <2>6
<1> QED
  BY <1>9, <1>10

-----------------------------------------------------------------------------
(* Where the buffers are, and in which order.                               *)
Before(a, b) == a[2] < b[2] \/ (a[2] = b[2] /\ a[3] < b[3])
Order(K, P) == \A a \in K, b \in P : a[1] = b[1] => Before(a, b)

InQueue == BufsIn(sq.nodes)

LEMMA MatchedOlder ==
  ASSUME QueueInv, cur \in Bufs, Order(InQueue, {cur})
  PROVE  /\ cur \notin InQueue
         /\ \A i \in DOMAIN sq.nodes : i <= sq.match_cnt =>
                /\ sq.nodes[i].frame_idx <= cur[2]
                /\ Repeats = {} => sq.nodes[i].frame_idx < cur[2]
<1>1. cur[1] \in Streams /\ cur[2] \in Nat /\ cur[3] \in {1, 2} /\ (Repeats = {} => cur[3] = 1)
  BY BufShape
<1>2. cur \notin InQueue
  BY <1>1 DEF Order, Before
<1>3. ASSUME NEW i \in DOMAIN sq.nodes, i <= sq.match_cnt
      PROVE  /\ sq.nodes[i].frame_idx <= cur[2]
             /\ Repeats = {} => sq.nodes[i].frame_idx < cur[2]
  <2>1. sq.nodes[i] \in Superbufs /\ NodeInv(sq.nodes[i]) /\ sq.nodes[i].matched /\ sq.nodes[i].frame_idx \in Nat
    BY <1>3, QueueTypes
  <2> DEFINE a == sq.nodes[i].slot[cur[1]]
  <2>2. a # NoBuf /\ a[1] = cur[1] /\ a[2] = sq.nodes[i].frame_idx
    BY <1>1, <2>1 DEF NodeInv
  <2>3. a \in BufsOf(sq.nodes[i])
    BY <1>1, <2>2 DEF BufsOf
  <2>4. a \in InQueue
    BY <2>3 DEF InQueue, BufsIn
  <2>5. a \in Bufs
    BY <2>1, <2>3, NodeBufs
  <2> HIDE DEF a
  <2>6. a[3] \in {1, 2} /\ (Repeats = {} => a[3] = 1)
    BY <2>5, BufShape
  <2>7. a[2] < cur[2] \/ (a[2] = cur[2] /\ a[3] < cur[3])
    BY <2>2, <2>4 DEF Order, Before
  <2> QED
    BY <1>1, <2>1, <2>2, <2>6, <2>7
<1> QED
  BY <1>2, <1>3

(* What comp_and_enqueue leaves, when the buffers X part.                   *)
CompResult(X) ==
    /\ X \subseteq InQueue \cup {cur} /\ Part(X)
    /\ sq' \in Queue /\ Shape(sq'.nodes, sq'.match_cnt)
    /\ Len(sq'.nodes) <= sq'.match_cnt + MaxUnmatchedFrames + 1
    /\ BufsIn(sq'.nodes) = (InQueue \cup {cur}) \ X
    /\ \A i \in 1 .. sq'.match_cnt :
           \/ sq'.nodes[i].frame_idx = cur[2]
           \/ i <= sq.match_cnt /\ sq'.nodes[i].frame_idx = sq.nodes[i].frame_idx

LEMMA GivenBack ==
  ASSUME QueueInv, cur \in Bufs, Order(InQueue, {cur}), sq' = sq, Part({cur})
  PROVE  CompResult({cur})
<1>1. cur \notin InQueue
  BY MatchedOlder
<1>2. sq.match_cnt \in Nat
  BY QueueTypes
<1> QED
  BY <1>1, <1>2 DEF CompResult, QueueInv, InQueue

LEMMA DuplicateGivenBack ==
  ASSUME QueueInv, Normal, cur \in Bufs, Order(InQueue, {cur}), DuplicateSlot
  PROVE  CompResult({cur})
<1> DEFINE n == sq.nodes[Found]
<1>1. Found \in DOMAIN sq.nodes
  BY FoundIs, QueueTypes DEF DuplicateSlot
<1>2. n \in Superbufs
  BY <1>1, QueueTypes
<1>3. n.unmatched_meta_idx = 0
  BY <1>2 DEF Superbufs
<1>4. sq \in Queue /\ sq.nodes \in Seq(Superbufs)
  BY QueueTypes DEF QueueInv
<1>5. \A x, y : x = 0 /\ y = n.frame_idx =>
         [sq EXCEPT !.nodes[Found].unmatched_meta_idx = x, !.nodes[Found].frame_idx = y] = sq
  <2> SUFFICES ASSUME NEW x, NEW y, x = 0, y = n.frame_idx
               PROVE  [sq EXCEPT !.nodes[Found].unmatched_meta_idx = x, !.nodes[Found].frame_idx = y] = sq
    OBVIOUS
  <2>1. [n EXCEPT !.unmatched_meta_idx = x] = n /\ [n EXCEPT !.frame_idx = y] = n
    BY <1>2, <1>3 DEF Superbufs
  <2>2. [sq.nodes EXCEPT ![Found] = n] = sq.nodes
    BY <1>1, <1>4
  <2>3. [sq EXCEPT !.nodes = sq.nodes] = sq
    BY <1>4 DEF Queue
  <2> HIDE DEF n
  <2>4. [sq EXCEPT !.nodes[Found].unmatched_meta_idx = x] = sq
    BY <2>1, <2>2, <2>3 DEF n
  <2>5. [sq EXCEPT !.nodes[Found].frame_idx = y] = sq
    BY <2>1, <2>2, <2>3 DEF n
  <2> QED
    BY <2>4, <2>5
<1>8. sq' = sq
  <2> DEFINE y == IF n.unmatched_meta_idx > 0 THEN cur[2] ELSE n.frame_idx
  <2>1. sq' = [sq EXCEPT !.nodes[Found].unmatched_meta_idx = 0, !.nodes[Found].frame_idx = y]
    BY DEF DuplicateSlot
  <2>2. y = n.frame_idx
    BY <1>3
  <2> HIDE DEF y, n
  <2>3. [sq EXCEPT !.nodes[Found].unmatched_meta_idx = 0, !.nodes[Found].frame_idx = y] = sq
    BY <1>5, <2>2
  <2> QED
    BY <2>1, <2>3
<1> QED
  BY <1>8, GivenBack DEF DuplicateSlot

(* w is the sequence a, then x, then b.                                     *)
Joined(S, w, a, x, b) ==
    /\ w \in Seq(S) /\ Len(w) = Len(a) + 1 + Len(b)
    /\ \A i \in 1 .. (Len(a) + 1 + Len(b)) :
           w[i] = IF i <= Len(a) THEN a[i] ELSE IF i = Len(a) + 1 THEN x ELSE b[i - (Len(a) + 1)]

LEMMA ConcatAt ==
  ASSUME NEW S, NEW a \in Seq(S), NEW x \in S, NEW b \in Seq(S)
  PROVE  Joined(S, a \o <<x>> \o b, a, x, b)
<1> DEFINE c == a \o <<x>>
<1>1. <<x>> \in Seq(S) /\ Len(<<x>>) = 1 /\ <<x>>[1] = x
  OBVIOUS
<1>2. /\ c \in Seq(S) /\ Len(c) = Len(a) + 1 /\ Len(a) \in Nat
      /\ \A i \in 1 .. Len(c) : c[i] = IF i <= Len(a) THEN a[i] ELSE <<x>>[i - Len(a)]
  BY <1>1, ConcatProperties
<1>3. \A i \in 1 .. Len(c) : c[i] = IF i <= Len(a) THEN a[i] ELSE x
  <2>1. \A i \in 1 .. Len(c) : ~(i <= Len(a)) => i - Len(a) = 1
    BY <1>2
  <2> QED
    BY <1>1, <1>2, <2>1
<1> HIDE DEF c
<1>4. /\ c \o b \in Seq(S) /\ Len(c \o b) = Len(c) + Len(b) /\ Len(b) \in Nat
      /\ \A i \in 1 .. (Len(c) + Len(b)) : (c \o b)[i] = IF i <= Len(c) THEN c[i] ELSE b[i - Len(c)]
  <2>1. c \in Seq(S) /\ Len(b) \in Nat
    BY <1>2
  <2> QED
    BY <2>1, ConcatProperties
<1>6. \A i \in 1 .. (Len(a) + 1 + Len(b)) :
         (c \o b)[i] = IF i <= Len(a) THEN a[i] ELSE IF i = Len(a) + 1 THEN x ELSE b[i - (Len(a) + 1)]
  BY <1>2, <1>3, <1>4
<1> QED
  BY <1>2, <1>4, <1>6 DEF c, Joined

(* The superbuf the frame in hand is put into.                              *)
LEMMA FilledIs ==
  ASSUME QueueInv, Normal, cur \in Bufs, Found # 0, sq.nodes[Found].slot[cur[1]] = NoBuf
  PROVE  /\ Filled \in Superbufs /\ Filled.frame_idx = sq.nodes[Found].frame_idx
         /\ ~Filled.matched /\ BufsOf(Filled) = BufsOf(sq.nodes[Found]) \cup {cur}
         /\ \A s \in Streams : Filled.slot[s] # NoBuf =>
                Filled.slot[s][1] = s /\ Filled.slot[s][2] = Filled.frame_idx
         /\ Filled.slot[cur[1]] # NoBuf
<1> DEFINE n == sq.nodes[Found]
           s0 == [n.slot EXCEPT ![cur[1]] = cur]
<1>1. /\ Found \in DOMAIN sq.nodes /\ n.frame_idx = cur[2] /\ ~n.matched /\ n \in Superbufs /\ NodeInv(n)
  BY FoundIs, QueueTypes
<1>2. cur[1] \in Streams /\ cur # NoBuf
  BY BufShape
<1>3. n.unmatched_meta_idx = 0
  BY <1>1 DEF Superbufs
<1>4. s0 \in [Streams -> Bufs \cup {NoBuf}] /\ \A s \in Streams : s0[s] = IF s = cur[1] THEN cur ELSE n.slot[s]
  BY <1>1, <1>2 DEF Superbufs
<1>5. Filled = [n EXCEPT !.slot = s0, !.unmatched_meta_idx = 0, !.frame_idx = n.frame_idx]
  BY <1>3 DEF Filled
<1>6. n.slot[cur[1]] = NoBuf
  OBVIOUS
<1> HIDE DEF s0, n
<1>7. /\ Filled \in Superbufs /\ Filled.slot = s0 /\ Filled.frame_idx = n.frame_idx /\ Filled.matched = n.matched
  BY <1>1, <1>4, <1>5 DEF Superbufs
<1>8. BufsOf(Filled) = BufsOf(n) \cup {cur}
  <2>1. \A s \in Streams : s0[s] # NoBuf <=> s = cur[1] \/ n.slot[s] # NoBuf
    BY <1>2, <1>4
  <2> QED
    BY <1>2, <1>4, <1>6, <1>7, <2>1 DEF BufsOf
<1>9. \A s \in Streams : s0[s] # NoBuf => s0[s][1] = s /\ s0[s][2] = n.frame_idx
  BY <1>1, <1>4 DEF NodeInv
<1> QED
  BY <1>1, <1>2, <1>4, <1>7, <1>8, <1>9 DEF n

LEMMA PartNone ==
  ASSUME parted \in [Bufs -> {0, 1}], UNCHANGED parted
  PROVE  Part({})
<1>1. \A b \in Bufs : parted[b] + 0 = parted[b]
  OBVIOUS
<1> QED
  BY <1>1 DEF Part

LEMMA FillPartialIs ==
  ASSUME QueueInv, Normal, cur \in Bufs, Order(InQueue, {cur}), FillPartial,
         parted \in [Bufs -> {0, 1}]
  PROVE  CompResult({})
<1> DEFINE ns == sq.nodes
           kept == ch.diverted_frame_id = cur[2]
           x == [Filled EXCEPT !.expected = @ \/ kept]
           w == [ns EXCEPT ![Found] = x]
<1>1. Found # 0 /\ ns[Found].slot[cur[1]] = NoBuf /\ ~Completes /\ sq' = [sq EXCEPT !.nodes = w]
  BY DEF FillPartial
<1>2. /\ Found \in (sq.match_cnt + 1) .. Len(ns) /\ Found \in DOMAIN ns /\ ns[Found].frame_idx = cur[2]
      /\ ns \in Seq(Superbufs) /\ Len(ns) \in Nat /\ DOMAIN ns = 1 .. Len(ns)
  BY <1>1, FoundIs, QueueTypes
<1>3. /\ Filled \in Superbufs /\ Filled.frame_idx = ns[Found].frame_idx
      /\ ~Filled.matched /\ BufsOf(Filled) = BufsOf(ns[Found]) \cup {cur}
      /\ \A s \in Streams : Filled.slot[s] # NoBuf =>
             Filled.slot[s][1] = s /\ Filled.slot[s][2] = Filled.frame_idx
      /\ Filled.slot[cur[1]] # NoBuf
  BY <1>1, FilledIs
<1>4. x \in Superbufs /\ x.frame_idx = Filled.frame_idx /\ x.slot = Filled.slot /\ ~x.matched
  <2>1. (Filled.expected \/ kept) \in BOOLEAN
    BY Zenon
  <2> QED
    BY <1>3, <2>1 DEF Superbufs
<1> HIDE DEF x
<1>5. NodeInv(x) /\ BufsOf(x) = BufsOf(ns[Found]) \cup {cur}
  <2>1. cur[1] \in Streams /\ (x.matched <=> Completes)
    BY <1>1, <1>4, BufShape
  <2>2. BufsOf(x) = BufsOf(Filled)
    BY <1>4 DEF BufsOf
  <2>3. NodeInv(x)
    BY <1>3, <1>4, <2>1 DEF NodeInv, Completes
  <2> QED
    BY <1>3, <2>2, <2>3
<1>6. w \in Seq(Superbufs) /\ Len(w) = Len(ns) /\ \A i \in DOMAIN ns : w[i] = IF i = Found THEN x ELSE ns[i]
  BY <1>2, <1>4
<1>7. cur \notin InQueue
  BY MatchedOlder
<1> HIDE DEF w
<1>8. FilledAt(Found, x, cur, w, ns) /\ Grows(x, Found, sq.match_cnt, sq.match_cnt)
  BY <1>3, <1>4, <1>5, <1>6, <1>7 DEF FilledAt, Grows, InQueue
<1>9. Shape(w, sq.match_cnt) /\ BufsIn(w) = InQueue \cup {cur}
  BY <1>2, <1>8, OneFilled DEF QueueInv, InQueue
<1>10. sq' \in Queue /\ sq'.nodes = w /\ sq'.match_cnt = sq.match_cnt
  BY <1>1, <1>6 DEF QueueInv, Queue
<1>11. \A i \in 1 .. sq.match_cnt : w[i].frame_idx = ns[i].frame_idx
  BY <1>2, <1>3, <1>4, <1>6, QueueTypes, SMTT(60)
<1>12. Part({})
  BY PartNone DEF FillPartial
<1> QED
  BY <1>6, <1>9, <1>10, <1>11, <1>12 DEF CompResult, QueueInv

(* After the first a superbufs the next d leave.                            *)
RunLeavesAt(a, d, w, ns) ==
    /\ w \in Seq(Superbufs) /\ Len(w) = Len(ns) - d
    /\ \A i \in DOMAIN w : w[i] = ns[IF i <= a THEN i ELSE i + d]

LEMMA RunLeaves ==
  ASSUME NEW ns, NEW m, Shape(ns, m), NEW d \in 0 .. (Len(ns) - m), NEW w, RunLeavesAt(m, d, w, ns)
  PROVE  /\ Shape(w, m) /\ BufsIn(w) = BufsIn(ns) \ BufsAt(ns, (m + 1) .. (m + d))
         /\ BufsAt(ns, (m + 1) .. (m + d)) \subseteq BufsIn(ns)
<1> DEFINE h == [i \in DOMAIN w |-> IF i <= m THEN i ELSE i + d]
           D == (m + 1) .. (m + d)
<1>1. /\ Len(ns) \in Nat /\ DOMAIN ns = 1 .. Len(ns) /\ m \in Nat /\ m <= Len(ns) /\ w \in Seq(Superbufs)
      /\ DOMAIN w = 1 .. (Len(ns) - d) /\ Len(w) = Len(ns) - d /\ d \in Nat /\ m + d <= Len(ns)
  BY ShapeTypes DEF RunLeavesAt
<1>2. \A i \in DOMAIN w : h[i] = (IF i <= m THEN i ELSE i + d) /\ w[i] = ns[h[i]]
  BY DEF RunLeavesAt
<1>3. h \in [DOMAIN w -> DOMAIN ns]
  BY <1>1
<1> HIDE DEF h
<1>4. \A i \in DOMAIN w : w[i] = ns[h[i]] /\ (h[i] <= m <=> i <= m)
  BY <1>1, <1>2
<1>5. \A i, j \in DOMAIN w : i < j => h[i] < h[j]
  BY <1>1, <1>2
<1>6. m <= Len(w)
  BY <1>1
<1>7. Picks(h, w, m, ns, m)
  BY <1>1, <1>3, <1>4, <1>5, <1>6 DEF Picks
<1>8. {h[i] : i \in DOMAIN w} = DOMAIN ns \ D
  <2>1. \A j \in DOMAIN ns \ D : \E i \in DOMAIN w : h[i] = j
    <3> TAKE j \in DOMAIN ns \ D
    <3>1. CASE j <= m
      BY <1>1, <1>2, <3>1
    <3>2. CASE m + d < j
      <4>1. j - d \in DOMAIN w /\ h[j - d] = j
        BY <1>1, <1>2, <3>2
      <4> QED
        BY <4>1
    <3> QED
      BY <1>1, <3>1, <3>2
  <2>2. \A i \in DOMAIN w : h[i] \in DOMAIN ns \ D
    BY <1>1, <1>2
  <2> QED
    BY <2>1, <2>2
<1>9. D \cup (DOMAIN ns \ D) = DOMAIN ns /\ D \cap (DOMAIN ns \ D) = {}
  BY <1>1
<1> HIDE DEF D
<1>10. BufsAt(ns, DOMAIN ns \ D) = BufsIn(ns) \ BufsAt(ns, D) /\ BufsAt(ns, D) \subseteq BufsIn(ns)
  BY <1>9, Divided
<1>11. Shape(w, m) /\ BufsIn(w) = BufsAt(ns, {h[i] : i \in DOMAIN w})
  BY <1>7, Picked
<1> QED
  BY <1>8, <1>10, <1>11 DEF D

(* x in the place of the superbufs after the first m, up to the d-th after. *)
Spliced(ns, m, d, x) == SubSeq(ns, 1, m) \o <<x>> \o SubSeq(ns, m + 1 + d + 1, Len(ns))
LeftBy(ns, m, d) == [i \in 1 .. (Len(ns) - d) |-> ns[IF i <= m THEN i ELSE i + d]]

LEMMA RunLeft ==
  ASSUME NEW ns \in Seq(Superbufs), NEW m \in Nat, NEW d \in Nat, m + 1 + d <= Len(ns)
  PROVE  RunLeavesAt(m, d, LeftBy(ns, m, d), ns)
<1> DEFINE v == LeftBy(ns, m, d)
<1>1. Len(ns) \in Nat /\ DOMAIN ns = 1 .. Len(ns) /\ Len(ns) - d \in Nat
  OBVIOUS
<1>2. \A i \in 1 .. (Len(ns) - d) : (IF i <= m THEN i ELSE i + d) \in DOMAIN ns
  BY <1>1
<1>3. \A i \in 1 .. (Len(ns) - d) : ns[IF i <= m THEN i ELSE i + d] \in Superbufs
  BY <1>2
<1>4. v \in Seq(Superbufs) /\ Len(v) = Len(ns) - d /\ DOMAIN v = 1 .. (Len(ns) - d)
  BY <1>1, <1>3 DEF LeftBy
<1>5. \A i \in 1 .. (Len(ns) - d) : v[i] = ns[IF i <= m THEN i ELSE i + d]
  BY DEF LeftBy
<1> HIDE DEF v
<1> QED
  BY <1>4, <1>5 DEF RunLeavesAt, v

SplicedAt(m, d, x, w, v, ns) ==
    /\ w \in Seq(Superbufs) /\ Len(w) = Len(ns) - d
    /\ \A i \in 1 .. (Len(ns) - d) : w[i] = IF i = m + 1 THEN x ELSE v[i]
    /\ v[m + 1] = ns[m + 1 + d]

LEMMA RunSpliced ==
  ASSUME NEW ns \in Seq(Superbufs), NEW m \in Nat, NEW d \in Nat, m + 1 + d <= Len(ns), NEW x \in Superbufs
  PROVE  SplicedAt(m, d, x, Spliced(ns, m, d, x), LeftBy(ns, m, d), ns)
<1> DEFINE l == SubSeq(ns, 1, m)
           r == SubSeq(ns, m + 1 + d + 1, Len(ns))
           w == l \o <<x>> \o r
           f == m + 1 + d
<1>1. Len(ns) \in Nat /\ Len(ns) - d \in Nat /\ m \in 0 .. Len(ns) /\ f \in 0 .. Len(ns)
  OBVIOUS
<1>2. /\ l \in Seq(Superbufs) /\ Len(l) = m /\ \A i \in 1 .. m : l[i] = ns[i]
      /\ r \in Seq(Superbufs) /\ Len(r) = Len(ns) - f /\ \A i \in 1 .. (Len(ns) - f) : r[i] = ns[f + i]
  <2>1. SplitAt(m, l, SubSeq(ns, m + 1, Len(ns)), ns) /\ SplitAt(f, SubSeq(ns, 1, f), r, ns)
    BY <1>1, SubSeqSplits
  <2> HIDE DEF l, r, f
  <2>2. Len(r) = Len(ns) - f /\ r \in Seq(Superbufs) /\ \A i \in DOMAIN r : r[i] = ns[f + i]
    BY <2>1 DEF SplitAt
  <2>3. DOMAIN r = 1 .. (Len(ns) - f)
    BY <2>2
  <2> QED
    BY <2>1, <2>2, <2>3 DEF SplitAt
<1>3. /\ w \in Seq(Superbufs) /\ Len(w) = m + 1 + (Len(ns) - f)
      /\ \A i \in 1 .. (m + 1 + (Len(ns) - f)) :
             w[i] = IF i <= m THEN l[i] ELSE IF i = m + 1 THEN x ELSE r[i - (m + 1)]
  <2> HIDE DEF l, r, f
  <2>1. l \in Seq(Superbufs) /\ r \in Seq(Superbufs) /\ Len(l) = m /\ Len(r) = Len(ns) - f
    BY <1>2
  <2>2. /\ w \in Seq(Superbufs) /\ Len(w) = Len(l) + 1 + Len(r)
        /\ \A i \in 1 .. (Len(l) + 1 + Len(r)) :
               w[i] = IF i <= Len(l) THEN l[i] ELSE IF i = Len(l) + 1 THEN x ELSE r[i - (Len(l) + 1)]
    <3>1. Joined(Superbufs, w, l, x, r)
      BY <2>1, ConcatAt
    <3> HIDE DEF w
    <3> QED
      BY <3>1 DEF Joined
  <2> HIDE DEF w
  <2> QED
    BY <2>1, <2>2, Zenon
<1>4. m + 1 + (Len(ns) - f) = Len(ns) - d
  BY <1>1
<1>5. \A i \in 1 .. (Len(ns) - d) : LeftBy(ns, m, d)[i] = ns[IF i <= m THEN i ELSE i + d]
  BY DEF LeftBy
<1> HIDE DEF w, l, r
<1>6. ASSUME NEW i \in 1 .. (Len(ns) - d)
      PROVE  w[i] = IF i = m + 1 THEN x ELSE LeftBy(ns, m, d)[i]
  <2>1. w[i] = IF i <= m THEN l[i] ELSE IF i = m + 1 THEN x ELSE r[i - (m + 1)]
    BY <1>3, <1>4
  <2>2. LeftBy(ns, m, d)[i] = ns[IF i <= m THEN i ELSE i + d]
    BY <1>5
  <2>3. CASE i <= m
    <3>1. i \in 1 .. m /\ i # m + 1
      BY <2>3
    <3> QED
      BY <1>2, <2>1, <2>2, <2>3, <3>1
  <2>4. CASE i = m + 1
    BY <2>1, <2>4
  <2>5. CASE ~(i <= m) /\ i # m + 1
    <3>1. i - (m + 1) \in 1 .. (Len(ns) - f) /\ f + (i - (m + 1)) = i + d
      BY <1>1, <2>5
    <3>2. r[i - (m + 1)] = ns[f + (i - (m + 1))]
      BY <1>2, <3>1
    <3> QED
      BY <2>1, <2>2, <2>5, <3>1, <3>2
  <2> QED
    BY <2>3, <2>4, <2>5
<1>7. LeftBy(ns, m, d)[m + 1] = ns[m + 1 + d]
  <2>1. m + 1 \in 1 .. (Len(ns) - d) /\ ~(m + 1 <= m)
    BY <1>1
  <2> QED
    BY <1>5, <2>1
<1> QED
  <2>1. Spliced(ns, m, d, x) = w
    BY DEF Spliced, w, l, r
  <2> QED
    BY <1>3, <1>4, <1>6, <1>7, <2>1 DEF SplicedAt

LEMMA RunBufs ==
  ASSUME NEW ns \in Seq(Superbufs), NEW m \in Nat, NEW d \in Nat, m + 1 + d <= Len(ns)
  PROVE  BufsIn(SubSeq(ns, m + 1, m + d)) = BufsAt(ns, (m + 1) .. (m + d))
<1> DEFINE u == SubSeq(ns, m + 1, m + d)
<1>1. /\ m + 1 \in Nat /\ m + d \in Nat /\ 1 <= m + 1 /\ m + d <= Len(ns) /\ m + 1 <= m + d + 1
      /\ m + d - (m + 1) + 1 = d
  OBVIOUS
<1>2. DOMAIN u = 1 .. d /\ \A i \in 1 .. d : u[i] = ns[m + 1 + i - 1]
  BY <1>1, SubSeqOf
<1> HIDE DEF u
<1>3. \A i \in 1 .. d : m + i \in (m + 1) .. (m + d) /\ m + 1 + i - 1 = m + i
  OBVIOUS
<1>4. \A i \in 1 .. d : u[i] = ns[m + i]
  BY <1>2, <1>3
<1>5. \A j \in (m + 1) .. (m + d) : j - m \in 1 .. d /\ m + (j - m) = j
  OBVIOUS
<1>6. \A j \in (m + 1) .. (m + d) : \E i \in 1 .. d : ns[j] = u[i]
  BY <1>4, <1>5
<1>7. \A i \in 1 .. d : \E j \in (m + 1) .. (m + d) : ns[j] = u[i]
  BY <1>3, <1>4
<1>8. BufsIn(u) = BufsAt(ns, (m + 1) .. (m + d))
  BY <1>2, <1>6, <1>7 DEF BufsIn, BufsAt
<1> QED
  BY <1>8 DEF u

(* The superbufs from the first unmatched one up to f, without f, leave;    *)
(* x takes the place of f.                                                  *)
LEMMA FillMatchedIs ==
  ASSUME QueueInv, Normal, cur \in Bufs, Order(InQueue, {cur}), FillMatched
  PROVE  \E X : CompResult(X)
<1> DEFINE ns == sq.nodes
           m == sq.match_cnt
           f == Found
           x == [Filled EXCEPT !.matched = TRUE, !.expected = FALSE]
           from == IF LastBuf = 0 THEN f ELSE LastBuf
           l == SubSeq(ns, 1, from - 1)
           r == SubSeq(ns, f + 1, Len(ns))
           e == IF ch.isFlashBracketingEnabled THEN sq.expected_frame_id_without_led
                                               ELSE cur[2] + PostFrameSkip
           X == BufsIn(SubSeq(ns, from, f - 1))
<1>1. /\ f # 0 /\ ns[f].slot[cur[1]] = NoBuf /\ Completes /\ Part(X)
      /\ sq' = [sq EXCEPT !.nodes = l \o <<x>> \o r, !.match_cnt = @ + 1, !.expected_frame_id = e]
  BY DEF FillMatched
<1>2. /\ f \in (m + 1) .. Len(ns) /\ f \in DOMAIN ns /\ ns[f].frame_idx = cur[2] /\ ScanEnd = f - 1
      /\ \A i \in DOMAIN ns : m < i /\ i < f => ns[i].frame_idx < cur[2]
      /\ ns \in Seq(Superbufs) /\ Len(ns) \in Nat /\ DOMAIN ns = 1 .. Len(ns) /\ m \in Nat /\ m <= Len(ns)
  BY <1>1, FoundIs, QueueTypes
<1>3. from = m + 1
  <2>1. \A i \in 1 .. (f - 1) : i \in DOMAIN ns
    BY <1>2
  <2>2. CASE LastBuf = 0
    <3>1. \A i \in 1 .. (f - 1) : m < i => ~(ns[i].frame_idx < cur[2])
      BY <1>2, <2>2, LastBufIs
    <3>2. \A i \in 1 .. (f - 1) : ~(m < i)
      BY <1>2, <2>1, <3>1
    <3>3. f = m + 1
      <4>1. m + 1 \in 1 .. (f - 1) \/ f = m + 1
        BY <1>2
      <4> QED
        BY <1>2, <3>2, <4>1
    <3> QED
      BY <2>2, <3>3
  <2>3. CASE LastBuf # 0
    BY <2>3, LastBufIs
  <2> QED
    BY <2>2, <2>3
<1>4. /\ Filled \in Superbufs /\ Filled.frame_idx = ns[f].frame_idx
      /\ BufsOf(Filled) = BufsOf(ns[f]) \cup {cur}
      /\ \A s \in Streams : Filled.slot[s] # NoBuf =>
             Filled.slot[s][1] = s /\ Filled.slot[s][2] = Filled.frame_idx
      /\ Filled.slot[cur[1]] # NoBuf
  BY <1>1, FilledIs
<1>5. x \in Superbufs /\ x.frame_idx = Filled.frame_idx /\ x.slot = Filled.slot /\ x.matched
  BY <1>4 DEF Superbufs
<1> HIDE DEF x, from, f
<1>6. NodeInv(x) /\ BufsOf(x) = BufsOf(ns[f]) \cup {cur}
  <2>1. cur[1] \in Streams /\ (x.matched <=> Completes)
    BY <1>1, <1>5, BufShape
  <2>2. BufsOf(x) = BufsOf(Filled)
    BY <1>5 DEF BufsOf
  <2>3. NodeInv(x)
    BY <1>4, <1>5, <2>1 DEF NodeInv, Completes
  <2> QED
    BY <1>4, <2>2, <2>3
<1>7. PICK d \in Nat : f = m + 1 + d /\ m + 1 + d <= Len(ns)
  <2>1. f - (m + 1) \in Nat /\ f = m + 1 + (f - (m + 1)) /\ f <= Len(ns)
    <3>1. f \in (m + 1) .. Len(ns) /\ m \in Nat /\ Len(ns) \in Nat
      BY <1>2
    <3> QED
      BY <3>1
  <2> QED
    BY <2>1
<1>8. ns \in Seq(Superbufs) /\ m \in Nat /\ Len(ns) \in Nat /\ DOMAIN ns = 1 .. Len(ns)
  BY <1>2
<1> DEFINE v == LeftBy(ns, m, d)
           w == Spliced(ns, m, d, x)
           D == (m + 1) .. (m + d)
<1>9. l \o <<x>> \o r = w
  <2>1. from - 1 = m /\ f + 1 = m + 1 + d + 1
    BY <1>3, <1>7, <1>8
  <2> QED
    BY <2>1 DEF Spliced
<1>10. X = BufsAt(ns, D)
  <2>1. f - 1 = m + d
    BY <1>7, <1>8
  <2> QED
    BY <1>3, <1>7, <1>8, <2>1, RunBufs
<1>11. /\ RunLeavesAt(m, d, v, ns) /\ Len(v) = Len(ns) - d /\ DOMAIN v = 1 .. (Len(ns) - d)
       /\ \A i \in 1 .. (Len(ns) - d) : v[i] = ns[IF i <= m THEN i ELSE i + d]
  <2>1. RunLeavesAt(m, d, v, ns)
    BY <1>7, <1>8, RunLeft
  <2> HIDE DEF v
  <2>2. v \in Seq(Superbufs) /\ Len(v) = Len(ns) - d
    BY <2>1 DEF RunLeavesAt
  <2>3. DOMAIN v = 1 .. (Len(ns) - d)
    BY <2>2
  <2> QED
    BY <2>1, <2>2, <2>3 DEF RunLeavesAt
<1>12. /\ w \in Seq(Superbufs) /\ Len(w) = Len(ns) - d
       /\ \A i \in 1 .. (Len(ns) - d) : w[i] = IF i = m + 1 THEN x ELSE v[i]
       /\ v[m + 1] = ns[m + 1 + d]
  <2>1. SplicedAt(m, d, x, w, v, ns)
    BY <1>5, <1>7, <1>8, RunSpliced
  <2> HIDE DEF v, w
  <2> QED
    BY <2>1 DEF SplicedAt
<1> HIDE DEF v, w, D
<1>13. Shape(v, m) /\ BufsIn(v) = InQueue \ BufsAt(ns, D) /\ BufsAt(ns, D) \subseteq InQueue
  <2>1. d \in 0 .. (Len(ns) - m)
    BY <1>7, <1>8
  <2> QED
    BY <1>11, <2>1, RunLeaves DEF QueueInv, InQueue, D
<1>14. m + 1 \in (m + 1) .. Len(v) /\ m + 1 \in 1 .. (Len(ns) - d)
  BY <1>7, <1>8, <1>11
<1>15. cur \notin BufsIn(v) /\ cur \notin InQueue
  BY <1>13, MatchedOlder
<1>16. FilledAt(m + 1, x, cur, w, v) /\ Grows(x, m + 1, m + 1, m)
  <2>1. Len(w) = Len(v) /\ w \in Seq(Superbufs)
    BY <1>11, <1>12
  <2>2. v[m + 1] = ns[f]
    BY <1>7, <1>12
  <2>3. x.frame_idx = v[m + 1].frame_idx /\ BufsOf(x) = BufsOf(v[m + 1]) \cup {cur}
    BY <1>4, <1>5, <1>6, <2>2
  <2>4. \A i \in DOMAIN v : w[i] = IF i = m + 1 THEN x ELSE v[i]
    BY <1>11, <1>12
  <2> QED
    BY <1>5, <1>6, <1>15, <2>1, <2>3, <2>4 DEF FilledAt, Grows
<1>17. Shape(w, m + 1) /\ BufsIn(w) = BufsIn(v) \cup {cur}
  BY <1>13, <1>14, <1>16, OneFilled
<1>18. sq' \in Queue /\ sq'.nodes = w /\ sq'.match_cnt = m + 1
  <2>1. e \in Nat
    <3>1. sq.expected_frame_id_without_led \in Nat
      BY DEF QueueInv, Queue
    <3>2. PostFrameSkip \in Nat /\ cur[2] \in Nat
      BY ConstAssumption, BufShape
    <3> QED
      BY <3>1, <3>2
  <2> HIDE DEF e
  <2>2. sq' = [sq EXCEPT !.nodes = w, !.match_cnt = @ + 1, !.expected_frame_id = e]
    BY <1>1, <1>9
  <2>3. sq \in Queue /\ m + 1 \in Nat
    BY <1>8 DEF QueueInv
  <2> QED
    BY <1>12, <2>1, <2>2, <2>3 DEF Queue
<1>19. ASSUME NEW i \in 1 .. (m + 1)
       PROVE  w[i].frame_idx = cur[2] \/ (i <= m /\ w[i].frame_idx = ns[i].frame_idx)
  <2>1. i \in 1 .. (Len(ns) - d) /\ (i = m + 1 \/ (i <= m /\ i # m + 1))
    BY <1>7, <1>8
  <2>2. CASE i = m + 1
    <3>1. w[i] = x
      BY <1>12, <2>1, <2>2
    <3>2. x.frame_idx = cur[2]
      BY <1>2, <1>4, <1>5, Zenon
    <3> QED
      BY <3>1, <3>2
  <2>3. CASE i <= m /\ i # m + 1
    <3>1. w[i] = v[i]
      BY <1>12, <2>1, <2>3
    <3>2. v[i] = ns[i]
      BY <1>11, <2>1, <2>3
    <3> QED
      BY <2>3, <3>1, <3>2
  <2> QED
    BY <2>1, <2>2, <2>3
<1>20. BufsIn(w) = (InQueue \cup {cur}) \ X
  BY <1>10, <1>13, <1>15, <1>17
<1>21. Len(w) <= m + 1 + MaxUnmatchedFrames + 1
  <2>1. Len(ns) <= m + MaxUnmatchedFrames + 1 /\ MaxUnmatchedFrames \in Nat
    BY QueueTypes DEF QueueInv
  <2>2. Len(w) <= Len(ns)
    BY <1>8, <1>12
  <2>3. Len(w) \in Nat
    BY <1>12
  <2> QED
    BY <1>8, <2>1, <2>2, <2>3
<1>22. X \subseteq InQueue
  BY <1>10, <1>13
<1> HIDE DEF X
<1>23. CompResult(X)
  BY <1>1, <1>17, <1>18, <1>19, <1>20, <1>21, <1>22 DEF CompResult
<1> QED
  BY <1>23

(* The sequence w is v with x put in at q.                                  *)
PutIn(q, x, w, v) ==
    /\ w \in Seq(Superbufs) /\ Len(w) = Len(v) + 1
    /\ \A i \in DOMAIN w : w[i] = IF i < q THEN v[i] ELSE IF i = q THEN x ELSE v[i - 1]
(* The pieces of v before and from q on.                                    *)
Cut(q, a, b, v) ==
    /\ a \in Seq(Superbufs) /\ Len(a) = q - 1 /\ \A i \in 1 .. (q - 1) : a[i] = v[i]
    /\ b \in Seq(Superbufs) /\ Len(b) = Len(v) - (q - 1) /\ \A i \in DOMAIN b : b[i] = v[(q - 1) + i]

LEMMA CutJoined ==
  ASSUME NEW v \in Seq(Superbufs), NEW q \in 1 .. (Len(v) + 1), NEW x \in Superbufs,
         NEW a, NEW b, Cut(q, a, b, v)
  PROVE  PutIn(q, x, a \o <<x>> \o b, v)
<1> DEFINE w == a \o <<x>> \o b
<1>1. Joined(Superbufs, w, a, x, b)
  BY ConcatAt DEF Cut
<1> HIDE DEF w
<1>2. Len(v) \in Nat /\ q \in Nat /\ 1 <= q /\ q <= Len(v) + 1
  OBVIOUS
<1>3. w \in Seq(Superbufs) /\ Len(w) = Len(v) + 1 /\ DOMAIN w = 1 .. (Len(v) + 1)
  <2>1. w \in Seq(Superbufs) /\ Len(w) = q - 1 + 1 + (Len(v) - (q - 1))
    BY <1>1 DEF Joined, Cut
  <2>2. q - 1 + 1 + (Len(v) - (q - 1)) = Len(v) + 1
    BY <1>2
  <2> QED
    BY <2>1, <2>2
<1>4. ASSUME NEW i \in 1 .. (Len(v) + 1)
      PROVE  w[i] = IF i < q THEN v[i] ELSE IF i = q THEN x ELSE v[i - 1]
  <2>1. w[i] = IF i <= q - 1 THEN a[i] ELSE IF i = q - 1 + 1 THEN x ELSE b[i - (q - 1 + 1)]
    <3>1. q - 1 + 1 + (Len(v) - (q - 1)) = Len(v) + 1
      BY <1>2
    <3>2. \A j \in 1 .. (q - 1 + 1 + (Len(v) - (q - 1))) :
             w[j] = IF j <= q - 1 THEN a[j] ELSE IF j = q - 1 + 1 THEN x ELSE b[j - (q - 1 + 1)]
      BY <1>1 DEF Joined, Cut
    <3> QED
      BY <3>1, <3>2
  <2>2. CASE i < q
    <3>1. i \in 1 .. (q - 1) /\ i <= q - 1
      BY <1>2, <2>2
    <3>2. a[i] = v[i]
      BY <3>1 DEF Cut
    <3> QED
      BY <2>1, <2>2, <3>1, <3>2
  <2>3. CASE i = q
    BY <1>2, <2>1, <2>3
  <2>4. CASE q < i
    <3>1. ~(i <= q - 1) /\ i # q - 1 + 1 /\ i - (q - 1 + 1) \in 1 .. (Len(v) - (q - 1))
          /\ (q - 1) + (i - (q - 1 + 1)) = i - 1 /\ ~(i < q) /\ i # q
      BY <1>2, <2>4
    <3>2. w[i] = b[i - (q - 1 + 1)]
      BY <2>1, <3>1
    <3>3. b[i - (q - 1 + 1)] = v[(q - 1) + (i - (q - 1 + 1))]
      <4>1. DOMAIN b = 1 .. (Len(v) - (q - 1))
        BY DEF Cut
      <4> QED
        BY <3>1, <4>1 DEF Cut
    <3> QED
      BY <3>1, <3>2, <3>3
  <2> QED
    BY <1>2, <2>2, <2>3, <2>4
<1> QED
  BY <1>3, <1>4 DEF PutIn, w

LEMMA SubSeqCut ==
  ASSUME NEW ns \in Seq(Superbufs), NEW p \in 1 .. (Len(ns) + 1)
  PROVE  Cut(p, SubSeq(ns, 1, p - 1), SubSeq(ns, p, Len(ns)), ns)
<1> DEFINE k == p - 1
<1>1. k \in 0 .. Len(ns) /\ k + 1 = p
  OBVIOUS
<1> HIDE DEF k
<1>2. SplitAt(k, SubSeq(ns, 1, k), SubSeq(ns, k + 1, Len(ns)), ns)
  BY <1>1, SubSeqSplits
<1>3. SplitAt(k, SubSeq(ns, 1, k), SubSeq(ns, p, Len(ns)), ns)
  BY <1>1, <1>2
<1> QED
  BY <1>3 DEF SplitAt, Cut, k

(* The cut when the superbuf at g leaves from the piece it is in.           *)
LEMMA CutLeft ==
  ASSUME NEW ns \in Seq(Superbufs), NEW p \in 1 .. (Len(ns) + 1), NEW g \in 1 .. (p - 1),
         NEW a, NEW b, Cut(p, a, b, ns), NEW c, LeavesAt(g, c, a), NEW v, LeavesAt(g, v, ns)
  PROVE  Cut(p - 1, c, b, v)
<1>1. /\ Len(ns) \in Nat /\ p \in Nat /\ g \in Nat /\ 1 <= g /\ g <= p - 1 /\ p <= Len(ns) + 1
  OBVIOUS
<1>2. /\ a \in Seq(Superbufs) /\ Len(a) = p - 1 /\ \A i \in 1 .. (p - 1) : a[i] = ns[i]
      /\ b \in Seq(Superbufs) /\ Len(b) = Len(ns) - (p - 1) /\ DOMAIN b = 1 .. (Len(ns) - (p - 1))
      /\ \A i \in DOMAIN b : b[i] = ns[(p - 1) + i]
  BY DEF Cut
<1>3. /\ c \in Seq(Superbufs) /\ Len(c) = p - 1 - 1 /\ DOMAIN c = 1 .. (p - 1 - 1)
      /\ \A i \in DOMAIN c : c[i] = a[IF i < g THEN i ELSE i + 1]
  BY <1>2 DEF LeavesAt
<1>4. /\ v \in Seq(Superbufs) /\ Len(v) = Len(ns) - 1 /\ DOMAIN v = 1 .. (Len(ns) - 1)
      /\ \A i \in DOMAIN v : v[i] = ns[IF i < g THEN i ELSE i + 1]
  BY DEF LeavesAt
<1>5. ASSUME NEW i \in 1 .. (p - 1 - 1)
      PROVE  c[i] = v[i]
  <2>1. (IF i < g THEN i ELSE i + 1) \in 1 .. (p - 1) /\ i \in 1 .. (Len(ns) - 1)
    BY <1>1
  <2>2. c[i] = a[IF i < g THEN i ELSE i + 1] /\ v[i] = ns[IF i < g THEN i ELSE i + 1]
    BY <1>3, <1>4, <2>1
  <2> QED
    BY <1>2, <2>1, <2>2
<1>6. ASSUME NEW i \in 1 .. (Len(ns) - (p - 1))
      PROVE  b[i] = v[(p - 1 - 1) + i]
  <2>1. /\ (p - 1 - 1) + i \in 1 .. (Len(ns) - 1) /\ ~((p - 1 - 1) + i < g)
        /\ (p - 1 - 1) + i + 1 = (p - 1) + i
    BY <1>1
  <2>2. v[(p - 1 - 1) + i] = ns[(p - 1 - 1) + i + 1]
    BY <1>4, <2>1
  <2> QED
    BY <1>2, <2>1, <2>2
<1>7. Len(b) = Len(v) - (p - 1 - 1)
  BY <1>1, <1>2, <1>4
<1> QED
  BY <1>2, <1>3, <1>5, <1>6, <1>7 DEF Cut

LEMMA CutRight ==
  ASSUME NEW ns \in Seq(Superbufs), NEW p \in 1 .. (Len(ns) + 1), NEW g \in p .. Len(ns),
         NEW a, NEW b, Cut(p, a, b, ns), NEW c, LeavesAt(g - p + 1, c, b), NEW v, LeavesAt(g, v, ns)
  PROVE  Cut(p, a, c, v)
<1>1. /\ Len(ns) \in Nat /\ p \in Nat /\ g \in Nat /\ 1 <= p /\ p <= g /\ g <= Len(ns)
  OBVIOUS
<1>2. /\ a \in Seq(Superbufs) /\ Len(a) = p - 1 /\ \A i \in 1 .. (p - 1) : a[i] = ns[i]
      /\ b \in Seq(Superbufs) /\ Len(b) = Len(ns) - (p - 1) /\ DOMAIN b = 1 .. (Len(ns) - (p - 1))
      /\ \A i \in DOMAIN b : b[i] = ns[(p - 1) + i]
  BY DEF Cut
<1>3. /\ c \in Seq(Superbufs) /\ Len(c) = Len(b) - 1
      /\ \A i \in DOMAIN c : c[i] = b[IF i < g - p + 1 THEN i ELSE i + 1]
  BY DEF LeavesAt
<1>4. /\ v \in Seq(Superbufs) /\ Len(v) = Len(ns) - 1 /\ DOMAIN v = 1 .. (Len(ns) - 1)
      /\ \A i \in DOMAIN v : v[i] = ns[IF i < g THEN i ELSE i + 1]
  BY DEF LeavesAt
<1>5. Len(c) = Len(v) - (p - 1) /\ DOMAIN c = 1 .. (Len(ns) - 1 - (p - 1))
  <2>1. Len(c) = Len(ns) - 1 - (p - 1)
    BY <1>1, <1>2, <1>3
  <2>2. DOMAIN c = 1 .. Len(c)
    BY <1>3
  <2> QED
    BY <1>4, <2>1, <2>2
<1>6. ASSUME NEW i \in 1 .. (p - 1)
      PROVE  a[i] = v[i]
  <2>1. i < g /\ i \in 1 .. (Len(ns) - 1)
    BY <1>1
  <2> QED
    BY <1>2, <1>4, <2>1
<1>7. ASSUME NEW i \in 1 .. (Len(ns) - 1 - (p - 1))
      PROVE  c[i] = v[(p - 1) + i]
  <2> DEFINE j == IF i < g - p + 1 THEN i ELSE i + 1
             k == (p - 1) + i
  <2>1. /\ j \in 1 .. (Len(ns) - (p - 1)) /\ k \in 1 .. (Len(ns) - 1)
        /\ (IF k < g THEN k ELSE k + 1) = (p - 1) + j
    BY <1>1
  <2>2. c[i] = b[j]
    BY <1>3, <1>5
  <2> HIDE DEF j, k
  <2>3. b[j] = ns[(p - 1) + j]
    BY <1>2, <2>1
  <2>4. v[k] = ns[IF k < g THEN k ELSE k + 1]
    BY <1>4, <2>1
  <2>5. c[i] = v[k]
    BY <2>1, <2>2, <2>3, <2>4
  <2> QED
    BY <2>5 DEF k
<1> QED
  BY <1>2, <1>3, <1>5, <1>6, <1>7 DEF Cut

(* The sequence ns without the positions in G and with x before position p. *)
InsertedWith(ns, p, G, x) ==
    Without(SubSeq(ns, 1, p - 1), G) \o <<x>>
    \o Without(SubSeq(ns, p, Len(ns)), {j - p + 1 : j \in {i \in G : i >= p}})

LEMMA InsertNone ==
  ASSUME NEW ns \in Seq(Superbufs), NEW p \in 1 .. (Len(ns) + 1), NEW x \in Superbufs
  PROVE  PutIn(p, x, InsertedWith(ns, p, {}, x), ns)
<1> DEFINE a == SubSeq(ns, 1, p - 1)
           b == SubSeq(ns, p, Len(ns))
<1>1. Cut(p, a, b, ns)
  BY SubSeqCut
<1> HIDE DEF a, b
<1>2. a \in Seq(Superbufs) /\ b \in Seq(Superbufs)
  BY <1>1 DEF Cut
<1>3. Without(a, {}) = a /\ Without(b, {}) = b
  BY <1>2, WithoutNone
<1>4. {j - p + 1 : j \in {i \in {} : i >= p}} = {}
  OBVIOUS
<1>5. InsertedWith(ns, p, {}, x) = a \o <<x>> \o b
  BY <1>3, <1>4 DEF InsertedWith, a, b
<1> QED
  BY <1>1, <1>5, CutJoined

LEMMA InsertOne ==
  ASSUME NEW ns \in Seq(Superbufs), NEW p \in 1 .. (Len(ns) + 1), NEW x \in Superbufs,
         NEW g \in 1 .. Len(ns), g # p
  PROVE  PutIn(IF g < p THEN p - 1 ELSE p, x, InsertedWith(ns, p, {g}, x), Without(ns, {g}))
<1> DEFINE a == SubSeq(ns, 1, p - 1)
           b == SubSeq(ns, p, Len(ns))
           v == Without(ns, {g})
           R == {j - p + 1 : j \in {i \in {g} : i >= p}}
<1>0. Len(ns) \in Nat /\ DOMAIN ns = 1 .. Len(ns) /\ p \in Nat /\ g \in Nat
  OBVIOUS
<1>1. Cut(p, a, b, ns)
  BY SubSeqCut
<1>2. LeavesAt(g, v, ns)
  <2>1. {g} \cap DOMAIN ns = {g} /\ g \in DOMAIN ns
    BY <1>0
  <2> QED
    BY <2>1, WithoutOne
<1>3. InsertedWith(ns, p, {g}, x) = Without(a, {g}) \o <<x>> \o Without(b, R)
  BY DEF InsertedWith
<1> HIDE DEF a, b, v
<1>4. /\ a \in Seq(Superbufs) /\ b \in Seq(Superbufs) /\ DOMAIN a = 1 .. (p - 1)
      /\ DOMAIN b = 1 .. (Len(ns) - (p - 1))
  BY <1>0, <1>1 DEF Cut
<1>5. v \in Seq(Superbufs) /\ Len(v) = Len(ns) - 1
  BY <1>2 DEF LeavesAt
<1>6. CASE g < p
  <2>1. R = {}
    BY <1>0, <1>6
  <2>2. Without(b, R) = b
    BY <1>4, <2>1, WithoutNone
  <2>3. LeavesAt(g, Without(a, {g}), a)
    <3>1. {g} \cap DOMAIN a = {g} /\ g \in DOMAIN a
      BY <1>0, <1>4, <1>6
    <3> QED
      BY <1>4, <3>1, WithoutOne
  <2> DEFINE c == Without(a, {g})
             q == p - 1
  <2>4. g \in 1 .. (p - 1) /\ q \in 1 .. (Len(v) + 1)
    BY <1>0, <1>5, <1>6
  <2> HIDE DEF c, R
  <2>5. Cut(q, c, b, v)
    BY <1>1, <1>2, <2>3, <2>4, CutLeft DEF c
  <2> HIDE DEF q
  <2>6. PutIn(q, x, c \o <<x>> \o b, v)
    BY <1>5, <2>4, <2>5, CutJoined
  <2>7. PutIn(q, x, InsertedWith(ns, p, {g}, x), v)
    BY <1>3, <2>2, <2>6 DEF c
  <2> QED
    BY <1>6, <2>7 DEF q, v
<1>7. CASE ~(g < p)
  <2>1. R = {g - p + 1}
    BY <1>0, <1>7
  <2>2. Without(a, {g}) = a
    <3>1. {g} \cap DOMAIN a = {}
      BY <1>0, <1>4, <1>7
    <3> QED
      BY <1>4, <3>1, WithoutNone
  <2> DEFINE e == g - p + 1
             c == Without(b, R)
  <2>3. e \in DOMAIN b /\ R \cap DOMAIN b = {e}
    BY <1>0, <1>4, <1>7, <2>1
  <2> HIDE DEF c, e, R
  <2>4. LeavesAt(e, c, b)
    BY <1>4, <2>3, WithoutOne DEF c
  <2>5. g \in p .. Len(ns) /\ p \in 1 .. (Len(v) + 1)
    BY <1>0, <1>5, <1>7
  <2>6. Cut(p, a, c, v)
    BY <1>1, <1>2, <2>4, <2>5, CutRight DEF e
  <2>7. PutIn(p, x, a \o <<x>> \o c, v)
    BY <1>5, <2>5, <2>6, CutJoined
  <2>8. PutIn(p, x, InsertedWith(ns, p, {g}, x), v)
    BY <1>3, <2>2, <2>7 DEF c
  <2> QED
    BY <1>7, <2>8 DEF v
<1> QED
  BY <1>6, <1>7

LEMMA FitsLater ==
  ASSUME NEW ns, NEW m, Shape(ns, m), NEW p \in Nat, NEW x, FitsAt(p, x, ns, m),
         NEW g \in (m + 1) .. Len(ns), g # p, NEW v, LeavesAt(g, v, ns)
  PROVE  FitsAt(IF g < p THEN p - 1 ELSE p, x, v, m)
<1>1. /\ Len(ns) \in Nat /\ DOMAIN ns = 1 .. Len(ns) /\ m \in Nat /\ g \in Nat /\ m < g
  BY ShapeTypes
<1>2. DOMAIN v = 1 .. (Len(ns) - 1) /\ \A i \in DOMAIN v : v[i] = ns[IF i < g THEN i ELSE i + 1]
  BY DEF LeavesAt
<1>3. ASSUME NEW i \in DOMAIN v, NEW q, q = (IF g < p THEN p - 1 ELSE p)
      PROVE  /\ i < q => /\ v[i].frame_idx <= x.frame_idx
                         /\ Repeats = {} \/ m < i => v[i].frame_idx < x.frame_idx
             /\ q <= i => x.frame_idx < v[i].frame_idx
  <2> DEFINE j == IF i < g THEN i ELSE i + 1
  <2>1. /\ j \in DOMAIN ns /\ (i < q => j < p) /\ (q <= i => p <= j) /\ (m < i => m < j)
    BY <1>1, <1>2, <1>3
  <2>2. v[i] = ns[j]
    BY <1>2
  <2> HIDE DEF j
  <2> QED
    BY <2>1, <2>2 DEF FitsAt
<1> QED
  BY <1>3 DEF FitsAt

(* The superbuf of the frame in hand alone.                                 *)
Only == Cardinality(Streams) = 1
NewSuperbuf ==
    LET good == ch.diverted_frame_id = cur[2] \/ cur[2] = sq.good_frame_id
    IN  [Node(cur[2]) EXCEPT !.slot[cur[1]] = cur, !.matched = Only, !.expected = good /\ ~Only,
                             !.unmatched_meta_idx = IF LowPriority /\ cur[1] = Meta THEN cur[2] ELSE 0]

LEMMA NewIs ==
  ASSUME Normal, cur \in Bufs
  PROVE  /\ NewSuperbuf \in Superbufs /\ NewSuperbuf.frame_idx = cur[2] /\ (NewSuperbuf.matched <=> Only)
         /\ NodeInv(NewSuperbuf) /\ BufsOf(NewSuperbuf) = {cur}
<1> DEFINE s0 == [[s \in Streams |-> NoBuf] EXCEPT ![cur[1]] = cur]
           e == (ch.diverted_frame_id = cur[2] \/ cur[2] = sq.good_frame_id) /\ ~Only
           x == NewSuperbuf
<1>1. cur[1] \in Streams /\ cur[2] \in Frames /\ cur # NoBuf
  BY BufShape
<1>2. s0 \in [Streams -> Bufs \cup {NoBuf}] /\ \A s \in Streams : s0[s] = IF s = cur[1] THEN cur ELSE NoBuf
  BY <1>1
<1>3. x = [Node(cur[2]) EXCEPT !.slot = s0, !.matched = Only, !.expected = e, !.unmatched_meta_idx = 0]
  BY DEF NewSuperbuf, Node, Normal
<1>4. Only \in BOOLEAN /\ e \in BOOLEAN
  BY Zenon DEF Only
<1> HIDE DEF s0, e, x
<1>5. x \in Superbufs /\ x.frame_idx = cur[2] /\ x.slot = s0 /\ x.matched = Only
  BY <1>1, <1>2, <1>3, <1>4 DEF Node, Superbufs
<1>6. BufsOf(x) = {cur}
  BY <1>1, <1>2, <1>5 DEF BufsOf
<1>7. Only <=> Streams = {cur[1]}
  <2>1. IsFiniteSet(Streams)
    BY ConstAssumption
  <2>2. CASE Only
    <3>1. PICK s : Streams = {s}
      BY <2>1, <2>2, FS_Singleton DEF Only
    <3> QED
      BY <1>1, <2>2, <3>1
  <2>3. CASE Streams = {cur[1]}
    BY <2>3, FS_Singleton DEF Only
  <2> QED
    BY <2>2, <2>3
<1>8. NodeInv(x)
  <2>1. \A s \in Streams : x.slot[s] # NoBuf => x.slot[s][1] = s /\ x.slot[s][2] = x.frame_idx
    BY <1>2, <1>5
  <2>2. (\A s \in Streams : x.slot[s] # NoBuf) <=> Streams = {cur[1]}
    BY <1>1, <1>2, <1>5
  <2>3. \E s \in Streams : x.slot[s] # NoBuf
    BY <1>1, <1>2, <1>5
  <2> QED
    BY <1>5, <1>7, <2>1, <2>2, <2>3 DEF NodeInv
<1> QED
  BY <1>5, <1>6, <1>8 DEF x

LEMMA OnlyMatched ==
  ASSUME QueueInv, Only
  PROVE  Len(sq.nodes) = sq.match_cnt
<1>1. /\ Len(sq.nodes) \in Nat /\ DOMAIN sq.nodes = 1 .. Len(sq.nodes) /\ sq.match_cnt \in Nat
      /\ sq.match_cnt <= Len(sq.nodes)
      /\ \A i \in DOMAIN sq.nodes : NodeInv(sq.nodes[i]) /\ (sq.nodes[i].matched <=> i <= sq.match_cnt)
  BY QueueTypes
<1>2. PICK s : Streams = {s}
  BY ConstAssumption, FS_Singleton DEF Only
<1>3. \A i \in DOMAIN sq.nodes : sq.nodes[i].matched
  BY <1>1, <1>2 DEF NodeInv
<1>4. \A i \in 1 .. Len(sq.nodes) : i <= sq.match_cnt
  BY <1>1, <1>3
<1>5. CASE Len(sq.nodes) = 0
  BY <1>1, <1>5
<1>6. CASE Len(sq.nodes) # 0
  <2>1. Len(sq.nodes) \in 1 .. Len(sq.nodes)
    BY <1>1, <1>6
  <2> QED
    BY <1>1, <1>4, <2>1
<1> QED
  BY <1>5, <1>6

(* What is left when room is made, and where the new superbuf fits in it.   *)
Room(v, q) ==
    /\ Shape(v, sq.match_cnt) /\ q \in (sq.match_cnt + 1) .. (Len(v) + 1)
    /\ FitsAt(q, NewSuperbuf, v, sq.match_cnt)
    /\ \A i \in 1 .. sq.match_cnt : v[i] = sq.nodes[i]
    /\ Len(v) <= Len(sq.nodes) /\ Len(v) + 1 <= sq.match_cnt + MaxUnmatchedFrames + 1
    /\ v = Without(sq.nodes, Evicted \cup Forced)
    /\ EvictedBufs(Evicted \cup Forced) \subseteq InQueue
    /\ BufsIn(v) = InQueue \ EvictedBufs(Evicted \cup Forced)
    /\ PutIn(q, NewSuperbuf, InsertedWith(sq.nodes, InsertPos, Evicted \cup Forced, NewSuperbuf), v)
    /\ Evicted = {} \/ Forced = {}

LEMMA FitsNow ==
  ASSUME QueueInv, Normal, cur \in Bufs, Order(InQueue, {cur}), Found = 0
  PROVE  FitsAt(InsertPos, NewSuperbuf, sq.nodes, sq.match_cnt)
<1>1. NewSuperbuf.frame_idx = cur[2] /\ cur[2] \in Nat
  BY NewIs, BufShape
<1>2. /\ \A i \in DOMAIN sq.nodes : sq.match_cnt < i /\ i < InsertPos => sq.nodes[i].frame_idx < cur[2]
      /\ \A i \in DOMAIN sq.nodes : InsertPos <= i => cur[2] < sq.nodes[i].frame_idx
  BY InsertPosIs
<1>3. \A i \in DOMAIN sq.nodes : i <= sq.match_cnt =>
         /\ sq.nodes[i].frame_idx <= cur[2]
         /\ Repeats = {} => sq.nodes[i].frame_idx < cur[2]
  BY MatchedOlder
<1>4. \A i \in DOMAIN sq.nodes : i \in Nat /\ sq.nodes[i].frame_idx \in Nat /\ sq.match_cnt \in Nat
  BY QueueTypes
<1>5. ASSUME NEW i \in DOMAIN sq.nodes, i < InsertPos
      PROVE  /\ sq.nodes[i].frame_idx <= cur[2]
             /\ Repeats = {} \/ sq.match_cnt < i => sq.nodes[i].frame_idx < cur[2]
  <2>1. CASE i <= sq.match_cnt
    BY <1>3, <1>4, <2>1
  <2>2. CASE sq.match_cnt < i
    BY <1>1, <1>2, <1>4, <1>5, <2>2
  <2> QED
    BY <1>4, <2>1, <2>2
<1> QED
  BY <1>1, <1>2, <1>5 DEF FitsAt

LEMMA RoomIs ==
  ASSUME QueueInv, Normal, cur \in Bufs, Order(InQueue, {cur}), Found = 0,
         ~(MaxUnmatchedFrames < UnmatchedBundles /\ LastBuf = 0)
  PROVE  \E v, q : Room(v, q)
<1> DEFINE ns == sq.nodes
           m == sq.match_cnt
           p == InsertPos
           x == NewSuperbuf
<1>1. /\ ns \in Seq(Superbufs) /\ Len(ns) \in Nat /\ DOMAIN ns = 1 .. Len(ns) /\ m \in Nat /\ m <= Len(ns)
      /\ MaxUnmatchedFrames \in Nat
  BY QueueTypes
<1>2. p \in (m + 1) .. (Len(ns) + 1) /\ p \in 1 .. (Len(ns) + 1) /\ p \in Nat /\ x \in Superbufs
  BY <1>1, InsertPosIs, NewIs
<1>3. FitsAt(p, x, ns, m) /\ Shape(ns, m) /\ Len(ns) <= m + MaxUnmatchedFrames + 1
  BY FitsNow DEF QueueInv
<1>4. CASE Evicted = {} /\ Forced = {} /\ Len(ns) < m + MaxUnmatchedFrames + 1
  <2>1. Evicted \cup Forced = {} /\ EvictedBufs({}) = {}
    BY <1>4 DEF EvictedBufs
  <2>2. Without(ns, {}) = ns
    BY <1>1, WithoutNone
  <2>3. PutIn(p, x, InsertedWith(ns, p, {}, x), ns)
    BY <1>1, <1>2, InsertNone
  <2>4. Len(ns) + 1 <= m + MaxUnmatchedFrames + 1
    BY <1>1, <1>4
  <2>5. Room(ns, p)
    BY <1>1, <1>2, <1>3, <1>4, <2>1, <2>2, <2>3, <2>4 DEF Room, InQueue
  <2> QED
    BY <2>5
<1>5. ASSUME NEW g \in (m + 1) .. Len(ns), g # p, Evicted \cup Forced = {g}, Evicted = {} \/ Forced = {}
      PROVE  \E v, q : Room(v, q)
  <2> DEFINE v == Without(ns, {g})
             q == IF g < p THEN p - 1 ELSE p
  <2>1. g \in 1 .. Len(ns) /\ {g} \cap DOMAIN ns = {g}
    BY <1>1
  <2>2. LeavesAt(g, v, ns)
    BY <1>1, <2>1, WithoutOne
  <2>3. EvictedBufs({g}) = BufsOf(ns[g])
    BY DEF EvictedBufs
  <2> HIDE DEF v
  <2>4. Shape(v, m) /\ BufsIn(v) = BufsIn(ns) \ BufsOf(ns[g]) /\ BufsOf(ns[g]) \subseteq BufsIn(ns)
    BY <1>3, <2>2, OneLeaves
  <2>5. FitsAt(q, x, v, m)
    BY <1>2, <1>3, <1>5, <2>2, FitsLater
  <2>6. PutIn(q, x, InsertedWith(ns, p, {g}, x), v)
    BY <1>1, <1>2, <1>5, <2>1, InsertOne DEF v
  <2>7. Len(v) = Len(ns) - 1
    BY <2>2 DEF LeavesAt
  <2>8. q \in (m + 1) .. (Len(v) + 1) /\ Len(v) + 1 <= m + MaxUnmatchedFrames + 1
        /\ Len(v) <= Len(ns)
    BY <1>1, <1>2, <1>3, <1>5, <2>7, SMTT(60)
  <2>9. \A i \in 1 .. m : v[i] = ns[i]
    <3> TAKE i \in 1 .. m
    <3>1. i \in DOMAIN v /\ i < g
      <4>1. DOMAIN v = 1 .. (Len(ns) - 1)
        BY <2>2 DEF LeavesAt
      <4> QED
        BY <1>1, <4>1
    <3> QED
      BY <2>2, <3>1 DEF LeavesAt
  <2> HIDE DEF q
  <2>10. Room(v, q)
    BY <1>5, <2>3, <2>4, <2>5, <2>6, <2>8, <2>9 DEF Room, InQueue, v
  <2> QED
    BY <2>10
<1>6. \/ Evicted = {} /\ Forced = {} /\ Len(ns) < m + MaxUnmatchedFrames + 1
      \/ \E g \in (m + 1) .. Len(ns) :
             g # p /\ Evicted \cup Forced = {g} /\ (Evicted = {} \/ Forced = {})
  <2>1. \/ Evicted = {} /\ Forced = {} /\ Len(ns) < m + MaxUnmatchedFrames + 1
        \/ \E g \in (m + 1) .. Len(ns) :
               g # p /\ ((Evicted = {g} /\ Forced = {}) \/ (Evicted = {} /\ Forced = {g}))
    BY EvictionIs
  <2> QED
    BY <2>1
<1> QED
  BY <1>4, <1>5, <1>6

LEMMA PartedOnce ==
  ASSUME parted \in [Bufs -> {0, 1}], NEW B, NEW C, B \cap C = {}, PartTwice(B, C)
  PROVE  Part(B \cup C)
<1>1. \A b \in Bufs : parted[b] + (IF b \in B THEN 1 ELSE 0) + (IF b \in C THEN 1 ELSE 0)
                      = parted[b] + IF b \in B \cup C THEN 1 ELSE 0
  OBVIOUS
<1> QED
  BY <1>1 DEF Part, PartTwice

LEMMA RoomHead ==
  ASSUME QueueInv, NEW v, NEW q, Room(v, q), NEW i \in 1 .. sq.match_cnt
  PROVE  v[i] = sq.nodes[i]
BY DEF Room
LEMMA InsertNewIs ==
  ASSUME QueueInv, Normal, cur \in Bufs, Order(InQueue, {cur}), parted \in [Bufs -> {0, 1}], InsertNew
  PROVE  \E X : CompResult(X)
<1> DEFINE ns == sq.nodes
           m == sq.match_cnt
           x == NewSuperbuf
           G == Evicted \cup Forced
           X == EvictedBufs(G)
           w == InsertedWith(ns, InsertPos, G, x)
           k == IF Only THEN m + 1 ELSE m
<1>1. Found = 0 /\ ~(MaxUnmatchedFrames < UnmatchedBundles /\ LastBuf = 0)
      /\ PartTwice(EvictedBufs(Evicted), EvictedBufs(Forced)) /\ sq' = Inserted
  BY DEF InsertNew
<1>2. PICK v, q : Room(v, q)
  BY <1>1, RoomIs
<1>3. m \in Nat /\ MaxUnmatchedFrames \in Nat
  BY QueueTypes
<1>4. /\ x \in Superbufs /\ x.frame_idx = cur[2] /\ (x.matched <=> Only)
      /\ NodeInv(x) /\ BufsOf(x) = {cur} /\ cur[2] \in Nat
  BY NewIs, BufShape
<1>5. sq' = [sq EXCEPT !.nodes = w, !.match_cnt = k,
                       !.expected_frame_id = IF Only THEN cur[2] + PostFrameSkip ELSE @]
  BY <1>1 DEF Inserted, InsertedWith, NewSuperbuf, Only, InsertPos
<1> HIDE DEF w, x, G
<1>6. cur \notin InQueue
  BY MatchedOlder
<1>7. /\ Shape(v, m) /\ q \in (m + 1) .. (Len(v) + 1) /\ FitsAt(q, x, v, m)
      /\ Len(v) + 1 <= m + MaxUnmatchedFrames + 1 /\ X \subseteq InQueue
      /\ BufsIn(v) = InQueue \ X /\ PutIn(q, x, w, v)
  BY <1>2 DEF Room, x, w, G
<1> HIDE DEF X
<1>8. InsertedAt(q, x, cur, w, v)
  BY <1>4, <1>6, <1>7 DEF PutIn, InsertedAt
<1>9. Grows(x, q, k, m) /\ k \in Nat
  <2>1. CASE Only
    <3>1. Len(ns) = m
      BY <2>1, OnlyMatched
    <3>2. Len(v) <= Len(ns)
      BY <1>2 DEF Room
    <3>3. Len(v) \in Nat /\ m <= Len(v)
      BY <1>7, ShapeTypes
    <3>4. q = m + 1
      BY <1>3, <1>7, <3>1, <3>2, <3>3
    <3> QED
      BY <1>3, <1>4, <2>1, <3>4 DEF Grows
  <2>2. CASE ~Only
    BY <1>3, <1>4, <2>2 DEF Grows
  <2> QED
    BY <2>1, <2>2
<1>10. Shape(w, k) /\ BufsIn(w) = BufsIn(v) \cup {cur}
  <2> HIDE DEF k
  <2> QED
    BY <1>7, <1>8, <1>9, OneInserted
<1>11. w \in Seq(Superbufs) /\ Len(w) = Len(v) + 1 /\ DOMAIN w = 1 .. (Len(v) + 1)
       /\ \A i \in DOMAIN w : w[i] = IF i < q THEN v[i] ELSE IF i = q THEN x ELSE v[i - 1]
  BY <1>7 DEF PutIn
<1>12. sq' \in Queue /\ sq'.nodes = w /\ sq'.match_cnt = k
  <2> DEFINE e == IF Only THEN cur[2] + PostFrameSkip ELSE sq.expected_frame_id
  <2>1. sq \in Queue /\ PostFrameSkip \in Nat
    BY ConstAssumption DEF QueueInv
  <2>2. e \in Nat
    BY <1>4, <2>1 DEF Queue
  <2>3. sq' = [sq EXCEPT !.nodes = w, !.match_cnt = k, !.expected_frame_id = e]
    BY <1>5
  <2> HIDE DEF e, k
  <2> QED
    BY <1>9, <1>11, <2>1, <2>2, <2>3 DEF Queue
<1>13. ASSUME NEW i \in 1 .. k
       PROVE  w[i].frame_idx = cur[2] \/ (i <= m /\ w[i].frame_idx = ns[i].frame_idx)
  <2>0. k <= Len(v) + 1 /\ Len(v) \in Nat /\ m <= Len(v)
    BY <1>3, <1>7, ShapeTypes
  <2>1. i \in DOMAIN w /\ i \in Nat
    BY <1>3, <1>11, <2>0
  <2>2. CASE i = q
    BY <1>4, <1>7, <1>11, <2>1, <2>2
  <2>3. CASE i # q
    <3>1. i <= m /\ i < q
      BY <1>3, <1>7, <1>9, <2>1, <2>3 DEF Grows
    <3>2. w[i] = v[i]
      BY <1>11, <2>1, <3>1
    <3>3. v[i] = ns[i]
      BY <1>2, <1>3, <2>0, <2>1, <3>1, RoomHead
    <3> QED
      BY <3>1, <3>2, <3>3
  <2> QED
    BY <2>2, <2>3
<1>14. Part(X)
  <2>1. EvictedBufs(Evicted) \cap EvictedBufs(Forced) = {}
    BY <1>2 DEF Room, EvictedBufs
  <2>2. EvictedBufs(Evicted) \cup EvictedBufs(Forced) = X
    BY DEF EvictedBufs, X, G
  <2> QED
    BY <1>1, <2>1, <2>2, PartedOnce
<1>15. Len(w) <= k + MaxUnmatchedFrames + 1
  <2>1. Len(v) \in Nat
    BY <1>7, ShapeTypes
  <2> QED
    BY <1>3, <1>7, <1>11, <2>1
<1>16. BufsIn(w) = (InQueue \cup {cur}) \ X
  BY <1>6, <1>7, <1>10
<1> HIDE DEF k
<1>17. CompResult(X)
  BY <1>7, <1>10, <1>12, <1>13, <1>14, <1>15, <1>16 DEF CompResult
<1> QED
  BY <1>17

LEMMA InsertFailsIs ==
  ASSUME QueueInv, Normal, cur \in Bufs, Order(InQueue, {cur}), parted \in [Bufs -> {0, 1}], InsertFails
  PROVE  \E X : CompResult(X)
<1> DEFINE m == sq.match_cnt
           G == Evicted \cup Forced
           X == EvictedBufs(G) \cup {cur}
<1>1. Found = 0 /\ ~(MaxUnmatchedFrames < UnmatchedBundles /\ LastBuf = 0)
      /\ PartTwice(EvictedBufs(Evicted) \cup {cur}, EvictedBufs(Forced))
      /\ sq' = [sq EXCEPT !.nodes = Without(sq.nodes, G)]
  BY DEF InsertFails
<1>2. PICK v, q : Room(v, q)
  BY <1>1, RoomIs
<1>3. m \in Nat /\ MaxUnmatchedFrames \in Nat /\ sq \in Queue
  BY QueueTypes DEF QueueInv
<1>4. cur \notin InQueue
  BY MatchedOlder
<1>5. /\ Shape(v, m) /\ Len(v) + 1 <= m + MaxUnmatchedFrames + 1 /\ EvictedBufs(G) \subseteq InQueue
      /\ BufsIn(v) = InQueue \ EvictedBufs(G) /\ v = Without(sq.nodes, G)
  BY <1>2 DEF Room
<1>6. v \in Seq(Superbufs) /\ Len(v) \in Nat /\ m <= Len(v)
  BY <1>5, ShapeTypes
<1> HIDE DEF G
<1>7. sq' \in Queue /\ sq'.nodes = v /\ sq'.match_cnt = m
  BY <1>1, <1>3, <1>5, <1>6 DEF Queue
<1>8. \A i \in 1 .. m : v[i] = sq.nodes[i]
  BY <1>2, <1>3, RoomHead
<1>9. Part(X)
  <2>1. (EvictedBufs(Evicted) \cup {cur}) \cap EvictedBufs(Forced) = {}
    <3>1. EvictedBufs(Forced) \subseteq EvictedBufs(G)
      BY DEF EvictedBufs, G
    <3>2. EvictedBufs(Evicted) \cap EvictedBufs(Forced) = {}
      BY <1>2 DEF Room, EvictedBufs
    <3> QED
      BY <1>4, <1>5, <3>1, <3>2
  <2>2. EvictedBufs(Evicted) \cup {cur} \cup EvictedBufs(Forced) = X
    BY DEF EvictedBufs, G
  <2> HIDE DEF X
  <2> QED
    BY <1>1, <2>1, <2>2, PartedOnce
<1>10. Len(v) <= m + MaxUnmatchedFrames + 1
  BY <1>3, <1>5, <1>6
<1>11. BufsIn(v) = (InQueue \cup {cur}) \ X /\ X \subseteq InQueue \cup {cur}
  BY <1>4, <1>5
<1> HIDE DEF X
<1>12. CompResult(X)
  BY <1>5, <1>7, <1>8, <1>9, <1>10, <1>11 DEF CompResult
<1> QED
  BY <1>12

(* What a dequeue or a flush leaves, when the superbufs of the buffers X go. *)
QueueResult(X) ==
    /\ X \subseteq InQueue /\ sq' \in Queue /\ Shape(sq'.nodes, sq'.match_cnt)
    /\ Len(sq'.nodes) <= sq'.match_cnt + MaxUnmatchedFrames + 1
    /\ BufsIn(sq'.nodes) = InQueue \ X
    /\ \A i \in 1 .. sq'.match_cnt : \E j \in 1 .. sq.match_cnt : sq'.nodes[i] = sq.nodes[j]

LEMMA FirstLeave ==
  ASSUME QueueInv, NEW k, MayLeave(k, sq.nodes, sq.match_cnt), NEW g, NEW w, SplitAt(k, g, w, sq.nodes),
         sq' \in Queue, sq'.nodes = w, sq'.match_cnt = sq.match_cnt - NumMatched(g)
  PROVE  QueueResult(BufsIn(g))
<1> DEFINE ns == sq.nodes
           m == sq.match_cnt
<1>1. /\ Len(ns) \in Nat /\ m \in Nat /\ m <= Len(ns) /\ MaxUnmatchedFrames \in Nat
      /\ Len(ns) <= m + MaxUnmatchedFrames + 1 /\ Shape(ns, m)
  BY QueueTypes DEF QueueInv
<1>2. k \in Nat /\ k <= Len(ns) /\ (k <= m \/ k = Len(ns))
  BY DEF MayLeave
<1>3. /\ Shape(w, m - NumMatched(g)) /\ Len(w) = Len(ns) - k
      /\ NumMatched(g) = IF k <= m THEN k ELSE m
      /\ BufsIn(w) = InQueue \ BufsIn(g) /\ BufsIn(g) \subseteq InQueue
  BY <1>1, Leave DEF InQueue
<1>4. Len(w) <= m - NumMatched(g) + MaxUnmatchedFrames + 1
  BY <1>1, <1>2, <1>3
<1>5. ASSUME NEW i \in 1 .. (m - NumMatched(g))
      PROVE  \E j \in 1 .. m : w[i] = ns[j]
  <2>1. k + i \in 1 .. m /\ i \in 1 .. (Len(ns) - k)
    BY <1>1, <1>2, <1>3, SMTT(60)
  <2>2. DOMAIN w = 1 .. (Len(ns) - k)
    BY <1>3 DEF SplitAt
  <2>3. w[i] = ns[k + i]
    BY <2>1, <2>2 DEF SplitAt
  <2> QED
    BY <2>1, <2>3
<1> QED
  BY <1>3, <1>4, <1>5 DEF QueueResult

(* The head is the first matched superbuf: none is dropped before it.       *)
LEMMA NormalHead ==
  ASSUME QueueInv
  PROVE  /\ Dropped = <<>> /\ Rest = sq.nodes /\ (HeadMatched <=> sq.match_cnt > 0) /\ Blocked = sq
         /\ sq.match_cnt > 0 => Head(sq.nodes) = sq.nodes[1] /\ 1 \in DOMAIN sq.nodes
<1> DEFINE ns == sq.nodes
           m == sq.match_cnt
<1>1. /\ ns \in Seq(Superbufs) /\ Len(ns) \in Nat /\ DOMAIN ns = 1 .. Len(ns) /\ m \in Nat /\ m <= Len(ns)
      /\ \A i \in DOMAIN ns : ns[i].matched <=> i <= m
  BY QueueTypes
<1>2. m > 0 => FirstMatched = 1
  <2> SUFFICES ASSUME m > 0
               PROVE  FirstMatched = 1
    OBVIOUS
  <2> DEFINE I == {i \in 1 .. Len(ns) : IsMatched(ns[i])}
  <2>1. FirstMatched = IF I # {} THEN Min(I) ELSE 0
    BY DEF FirstMatched, SelectInSeq
  <2>2. 1 \in I /\ I \subseteq Nat /\ \A i \in I : 1 <= i
    BY <1>1 DEF IsMatched
  <2> HIDE DEF I
  <2>3. First(FirstMatched, I)
    BY <2>1, <2>2, FirstOf
  <2>4. FirstMatched \in I /\ FirstMatched <= 1
    BY <2>2, <2>3 DEF First
  <2> QED
    BY <2>2, <2>4
<1>3. SubSeq(ns, 1, 0) = <<>>
  BY <1>1, SubSeqProperties
<1>4. Dropped = <<>>
  BY <1>1, <1>2, <1>3 DEF Dropped
<1>5. Rest = ns
  <2>1. SubSeq(ns, 1, Len(ns)) = ns
    BY <1>1
  <2>2. Len(<<>>) + 1 = 1
    OBVIOUS
  <2> QED
    BY <1>4, <2>1, <2>2 DEF Rest
<1>6. m > 0 => Head(ns) = ns[1] /\ 1 \in DOMAIN ns /\ ns # <<>>
  BY <1>1
<1>7. ns # <<>> => Head(ns) = ns[1] /\ 1 \in DOMAIN ns
  BY <1>1
<1>8. HeadMatched <=> m > 0
  BY <1>1, <1>5, <1>6, <1>7 DEF HeadMatched
<1>9. Blocked = sq
  <2>1. sq \in Queue
    BY DEF QueueInv
  <2> QED
    BY <1>5, <2>1 DEF Blocked, Queue
<1> QED
  BY <1>4, <1>5, <1>6, <1>8, <1>9

LEMMA HeadLeaves ==
  ASSUME QueueInv, sq.match_cnt > 0, sq' = Popped
  PROVE  QueueResult(BufsOf(sq.nodes[1]))
<1> DEFINE ns == sq.nodes
           m == sq.match_cnt
           g == <<ns[1]>>
           w == Tail(ns)
<1>1. /\ ns \in Seq(Superbufs) /\ Len(ns) \in Nat /\ DOMAIN ns = 1 .. Len(ns) /\ m \in Nat /\ m <= Len(ns)
      /\ \A i \in DOMAIN ns : ns[i].matched <=> i <= m
  BY QueueTypes
<1>2. 1 \in DOMAIN ns /\ ns[1].matched /\ ns[1] \in Superbufs /\ ns # <<>>
  BY <1>1
<1>3. w \in Seq(Superbufs) /\ Len(w) = Len(ns) - 1 /\ \A i \in DOMAIN w : w[i] = ns[1 + i]
  BY <1>1, <1>2
<1>4. SplitAt(1, g, w, ns)
  BY <1>2, <1>3 DEF SplitAt
<1>5. MayLeave(1, ns, m)
  BY <1>1 DEF MayLeave
<1>6. NumMatched(g) = 1
  <2>1. {i \in DOMAIN g : g[i].matched} = {1}
    BY <1>2
  <2> QED
    BY <2>1, FS_Singleton DEF NumMatched
<1>7. sq' \in Queue /\ sq'.nodes = w /\ sq'.match_cnt = m - 1
  <2>1. sq' = [sq EXCEPT !.nodes = w, !.match_cnt = m - 1]
    BY NormalHead DEF Popped
  <2>2. sq \in Queue /\ m - 1 \in Nat
    BY <1>1 DEF QueueInv
  <2> HIDE DEF w
  <2> QED
    BY <1>3, <2>1, <2>2 DEF Queue
<1>8. BufsIn(g) = BufsOf(ns[1])
  BY DEF BufsIn
<1> HIDE DEF g, w
<1>9. QueueResult(BufsIn(g))
  BY <1>4, <1>5, <1>6, <1>7, FirstLeave
<1> QED
  BY <1>8, <1>9

LEMMA Dropping ==
  ASSUME QueueInv, NEW limit \in Nat, DropMatched(limit)
  PROVE  \E X : QueueResult(X) /\ Part(X)
<1>1. sq.match_cnt > 0
  BY QueueTypes DEF DropMatched, OverLimit
<1>2. HeadMatched /\ BufsIn(Dropped) = {} /\ Head(Rest) = sq.nodes[1]
  BY <1>1, NormalHead DEF BufsIn
<1>3. sq' = Popped /\ Part(BufsOf(sq.nodes[1]))
  <2>1. sq' = Popped /\ Part(BufsIn(Dropped) \cup BufsOf(Head(Rest)))
    BY <1>2 DEF DropMatched
  <2>2. BufsIn(Dropped) \cup BufsOf(Head(Rest)) = BufsOf(sq.nodes[1])
    BY <1>2
  <2> QED
    BY <2>1, <2>2
<1> QED
  BY <1>1, <1>3, HeadLeaves

LEMMA AllLeave ==
  ASSUME QueueInv, sq' \in Queue, sq'.nodes = <<>>, sq'.match_cnt = sq.match_cnt - NumMatched(sq.nodes)
  PROVE  QueueResult(InQueue) /\ sq'.match_cnt = 0
<1> DEFINE ns == sq.nodes
<1>1. ns \in Seq(Superbufs) /\ Len(ns) \in Nat /\ sq.match_cnt \in Nat
  BY QueueTypes
<1>2. SplitAt(Len(ns), ns, <<>>, ns) /\ MayLeave(Len(ns), ns, sq.match_cnt)
  <2>1. <<>> \in Seq(Superbufs) /\ Len(<<>>) = Len(ns) - Len(ns)
    BY <1>1
  <2>2. DOMAIN <<>> = {}
    OBVIOUS
  <2> QED
    BY <1>1, <2>1, <2>2 DEF SplitAt, MayLeave
<1>3. NumMatched(ns) = sq.match_cnt
  BY MatchedFirst DEF QueueInv
<1> QED
  BY <1>1, <1>2, <1>3, FirstLeave DEF InQueue

(* The matched superbufs are the ones before the first unmatched one.       *)
LEMMA MatchedLen ==
  ASSUME QueueInv
  PROVE  FlushMatchedLen = sq.match_cnt
<1> DEFINE ns == sq.nodes
           m == sq.match_cnt
           Enough(k) == NumMatched(SubSeq(ns, 1, k)) >= m
           IsUnmatched(n) == ~n.matched
           I == {i \in 1 .. Len(ns) : IsUnmatched(ns[i])}
<1>1. /\ ns \in Seq(Superbufs) /\ Len(ns) \in Nat /\ DOMAIN ns = 1 .. Len(ns) /\ m \in Nat /\ m <= Len(ns)
      /\ \A i \in DOMAIN ns : ns[i].matched <=> i <= m
  BY QueueTypes
<1>0. \A n \in Nat : Cardinality(1 .. n) = n
  BY FS_Interval
<1>2. CASE SkipUnmatchedHead
  <2>1. ASSUME NEW k \in 0 .. Len(ns)
        PROVE  Enough(k) <=> k >= m
    <3> DEFINE g == SubSeq(ns, 1, k)
    <3>1. SplitAt(k, g, SubSeq(ns, k + 1, Len(ns)), ns)
      BY <1>1, SubSeqSplits
    <3>2. DOMAIN g = 1 .. k /\ \A i \in 1 .. k : g[i] = ns[i]
      BY <3>1 DEF SplitAt
    <3> HIDE DEF g
    <3>3. \A i \in 1 .. k : g[i].matched <=> i <= m
      BY <1>1, <3>2
    <3>4. CASE k >= m
      <4>1. {i \in DOMAIN g : g[i].matched} = 1 .. m
        BY <1>1, <3>2, <3>3, <3>4
      <4>2. Cardinality(1 .. m) = m
        BY <1>0, <1>1
      <4> QED
        <5>1. NumMatched(g) = m
          BY <4>1, <4>2 DEF NumMatched
        <5> QED
          BY <1>1, <3>4, <5>1 DEF g
    <3>5. CASE ~(k >= m)
      <4>1. {i \in DOMAIN g : g[i].matched} = 1 .. k
        BY <1>1, <3>2, <3>3, <3>5
      <4>2. Cardinality(1 .. k) = k
        BY <1>0, <1>1
      <4> QED
        <5>1. NumMatched(g) = k
          BY <4>1, <4>2 DEF NumMatched
        <5> QED
          BY <1>1, <3>5, <5>1 DEF g
    <3> QED
      BY <3>4, <3>5
  <2>2. FlushMatchedLen = IF \E k \in 0 .. Len(ns) : Enough(k)
                          THEN CHOOSE k \in 0 .. Len(ns) : Enough(k) /\ \A j \in 0 .. k - 1 : ~Enough(j)
                          ELSE Len(ns)
    BY <1>2 DEF FlushMatchedLen
  <2> HIDE DEF Enough
  <2>3. m \in 0 .. Len(ns) /\ Enough(m) /\ \A j \in 0 .. m - 1 : ~Enough(j)
    BY <1>1, <2>1
  <2>4. \A k \in 0 .. Len(ns) : Enough(k) /\ (\A j \in 0 .. k - 1 : ~Enough(j)) => k = m
    BY <1>1, <2>1, <2>3
  <2> QED
    BY <2>2, <2>3, <2>4
<1>3. CASE ~SkipUnmatchedHead
  <2>1. FlushMatchedLen = IF SelectInSeq(ns, IsUnmatched) = 0 THEN Len(ns)
                          ELSE SelectInSeq(ns, IsUnmatched) - 1
    BY <1>3 DEF FlushMatchedLen
  <2>2. SelectInSeq(ns, IsUnmatched) = IF I # {} THEN Min(I) ELSE 0
    BY DEF SelectInSeq
  <2>3. I \subseteq Nat /\ I = (m + 1) .. Len(ns)
    BY <1>1
  <2> HIDE DEF I
  <2> DEFINE a == SelectInSeq(ns, IsUnmatched)
  <2>4. First(a, I)
    BY <2>2, <2>3, FirstOf
  <2> HIDE DEF a
  <2>5. CASE a = 0
    BY <1>1, <2>1, <2>3, <2>4, <2>5 DEF First, a
  <2>6. CASE a # 0
    <3>1. a \in (m + 1) .. Len(ns) /\ \A j \in (m + 1) .. Len(ns) : a <= j
      BY <2>3, <2>4, <2>6 DEF First
    <3>2. m + 1 \in (m + 1) .. Len(ns)
      BY <1>1, <3>1
    <3>3. a = m + 1
      BY <1>1, <3>1, <3>2
    <3>4. FlushMatchedLen = a - 1
      BY <2>1, <2>6 DEF a
    <3> QED
      BY <1>1, <3>3, <3>4
  <2> QED
    BY <2>5, <2>6
<1> QED
  BY <1>2, <1>3

LEMMA SameQueue ==
  ASSUME QueueInv, sq' \in Queue, sq'.nodes = sq.nodes, sq'.match_cnt = sq.match_cnt
  PROVE  QueueResult({})
BY DEF QueueInv, QueueResult, InQueue

(* The first k superbufs leave, and fields of the queue other than the      *)
(* superbufs and their count change.                                        *)
SplitQueue(k) ==
    [sq EXCEPT !.nodes = SubSeq(@, k + 1, Len(@)), !.match_cnt = @ - NumMatched(SubSeq(sq.nodes, 1, k))]
SameNodes(p, q) == p \in Queue /\ p.nodes = q.nodes /\ p.match_cnt = q.match_cnt

LEMMA SplitQueueIs ==
  ASSUME QueueInv, NEW k, MayLeave(k, sq.nodes, sq.match_cnt)
  PROVE  /\ SplitQueue(k) \in Queue
         /\ SameNodes(sq', SplitQueue(k)) => QueueResult(BufsIn(SubSeq(sq.nodes, 1, k)))
<1> DEFINE ns == sq.nodes
           m == sq.match_cnt
           g == SubSeq(ns, 1, k)
           w == SubSeq(ns, k + 1, Len(ns))
<1>1. ns \in Seq(Superbufs) /\ Len(ns) \in Nat /\ k \in 0 .. Len(ns) /\ Shape(ns, m) /\ sq \in Queue
  BY QueueTypes DEF MayLeave, QueueInv
<1>2. SplitAt(k, g, w, ns)
  BY <1>1, SubSeqSplits
<1> HIDE DEF g, w
<1>3. m - NumMatched(g) \in Nat /\ w \in Seq(Superbufs)
  <2>1. Shape(w, m - NumMatched(g))
    BY <1>1, <1>2, Leave
  <2> QED
    BY <2>1 DEF Shape
<1>4. SplitQueue(k) = [sq EXCEPT !.nodes = w, !.match_cnt = m - NumMatched(g)]
  BY DEF SplitQueue, g, w
<1>5. SplitQueue(k) \in Queue /\ SplitQueue(k).nodes = w /\ SplitQueue(k).match_cnt = m - NumMatched(g)
  BY <1>1, <1>3, <1>4 DEF Queue
<1>6. SameNodes(sq', SplitQueue(k)) => QueueResult(BufsIn(g))
  <2> SUFFICES ASSUME SameNodes(sq', SplitQueue(k))
               PROVE  QueueResult(BufsIn(g))
    OBVIOUS
  <2>1. sq' \in Queue /\ sq'.nodes = w /\ sq'.match_cnt = m - NumMatched(g)
    BY <1>5 DEF SameNodes
  <2> QED
    BY <1>2, <2>1, FirstLeave
<1> QED
  BY <1>5, <1>6 DEF g

LEMMA MetaSame ==
  ASSUME NEW q \in Queue, NEW m \in MetaInfos, cur \in Bufs
  PROVE  /\ SameNodes(WithRange(q, m), q) /\ SameNodes(WithBurstEnd(q, m), q)
         /\ SameNodes(WithUserExpected(q, m), q)
<1>1. m.range \in [min : Nat, max : Nat, skip : Nat] /\ cur[2] \in Nat
  BY ConstAssumption, BufShape
<1>2. SameNodes(WithRange(q, m), q)
  <2>1. CASE ~HasRange(m)
    BY <2>1 DEF WithRange, SameNodes
  <2>2. CASE HasRange(m)
    <3> DEFINE led == LedAfterPrep(m) /\ ch.burstSnapNum > 1
               a == IF led THEN m.range.max ELSE q.led_off_start_frame_id
               b == IF led THEN m.range.skip ELSE q.frame_skip_count
               c == q.once /\ ~led
               d == IF ch.isFlashBracketingEnabled THEN m.range.max ELSE q.expected_frame_id_without_led
    <3>1. a \in Nat /\ b \in Nat /\ d \in Nat /\ m.range.min \in Nat
      BY <1>1 DEF Queue
    <3>2. c \in BOOLEAN
      BY Zenon
    <3>3. WithRange(q, m) = [q EXCEPT !.expected_frame_id = m.range.min, !.good_frame_id = m.range.min,
                       !.led_off_start_frame_id = a, !.frame_skip_count = b, !.once = c,
                       !.expected_frame_id_without_led = d]
      BY <2>2 DEF WithRange
    <3> HIDE DEF a, b, c, d
    <3> QED
      BY <3>1, <3>2, <3>3, ZenonT(60) DEF Queue, SameNodes
  <2> QED
    BY <2>1, <2>2
<1>3. SameNodes(WithBurstEnd(q, m), q)
  <2>1. q.led_off_start_frame_id + q.frame_skip_count \in Nat
    BY DEF Queue
  <2> QED
    BY <2>1 DEF WithBurstEnd, Queue, SameNodes
<1>4. SameNodes(WithUserExpected(q, m), q)
  BY <1>1 DEF WithUserExpected, Queue, SameNodes
<1> QED
  BY <1>2, <1>3, <1>4

LEMMA MetaLeaves ==
  ASSUME QueueInv, cur \in Bufs, parted \in [Bufs -> {0, 1}], NEW m \in MetaInfos, HandleMetadata(m)
  PROVE  \E X : QueueResult(X) /\ Part(X)
<1>1. sq \in Queue /\ sq.nodes \in Seq(Superbufs) /\ Len(sq.nodes) \in Nat /\ sq.match_cnt \in Nat
      /\ sq.match_cnt <= Len(sq.nodes)
  BY QueueTypes DEF QueueInv
<1>2. FutureWait \in Nat /\ cur[2] \in Nat
  BY ConstAssumption, BufShape
<1>3. MayLeave(FlushMatchedLen, sq.nodes, sq.match_cnt) /\ MayLeave(0, sq.nodes, sq.match_cnt)
      /\ MayLeave(Len(sq.nodes), sq.nodes, sq.match_cnt)
  BY <1>1, MatchedLen DEF MayLeave
<1>4. CASE MetaZoom(m) /\ m.crop1x
  <2>1. sq' = [sq EXCEPT !.expected_frame_id = cur[2] + 1] /\ UNCHANGED parted
    BY <1>4 DEF MetaZoom
  <2>2. sq' \in Queue /\ sq'.nodes = sq.nodes /\ sq'.match_cnt = sq.match_cnt
    <3>1. cur[2] + 1 \in Nat /\ sq \in Queue
      BY <1>1, <1>2
    <3> QED
      BY <2>1, <3>1 DEF Queue
  <2> QED
    BY <2>1, <2>2, SameQueue, PartNone
<1>5. CASE MetaZoom(m) /\ ~m.crop1x
  <2> DEFINE k == FlushMatchedLen
  <2>1. SplitQueue(k) \in Queue
    BY <1>3, SplitQueueIs
  <2>2. sq' = [SplitQueue(k) EXCEPT !.expected_frame_id = sq.expected_frame_id + FutureWait]
        /\ Part(BufsIn(SubSeq(sq.nodes, 1, k)))
    <3>1. sq' = [sq EXCEPT !.expected_frame_id = @ + FutureWait,
                                    !.nodes = SubSeq(@, k + 1, Len(@)),
                                    !.match_cnt = @ - NumMatched(SubSeq(sq.nodes, 1, k))]
      BY <1>5 DEF MetaZoom
    <3>2. Part(BufsIn(SubSeq(sq.nodes, 1, k)))
      BY <1>5 DEF MetaZoom
    <3> HIDE DEF k
    <3> QED
      BY <1>1, <3>1, <3>2 DEF SplitQueue, Queue
  <2> HIDE DEF k
  <2>3. sq.expected_frame_id + FutureWait \in Nat
    BY <1>1, <1>2 DEF Queue
  <2>4. SameNodes(sq', SplitQueue(k))
    BY <2>1, <2>2, <2>3 DEF Queue, SameNodes
  <2> QED
    BY <1>3, <2>2, <2>4, SplitQueueIs DEF k
<1>6. CASE MetaCapture(m)
  <2> DEFINE k == MetaFlushLen(m)
             wait == m.prep = "future"
                     \/ (ch.bracketingState = "wait" /\ m.prep = "none" /\ ~HasRange(m))
             e == IF wait THEN sq.expected_frame_id + FutureWait ELSE sq.expected_frame_id
             q0 == [SplitQueue(k) EXCEPT !.expected_frame_id = e]
             q1 == WithRange(q0, m)
  <2>0. MayLeave(k, sq.nodes, sq.match_cnt)
    BY <1>3 DEF MetaFlushLen
  <2>1. SplitQueue(k) \in Queue
    BY <2>0, SplitQueueIs
  <2>2. e \in Nat
    BY <1>1, <1>2 DEF Queue
  <2>3. sq' = WithUserExpected(WithBurstEnd(q1, m), m) /\ Part(BufsIn(SubSeq(sq.nodes, 1, k)))
    <3> DEFINE q2 == [sq EXCEPT !.nodes = SubSeq(@, k + 1, Len(@)),
                              !.match_cnt = @ - NumMatched(SubSeq(sq.nodes, 1, k)),
                              !.expected_frame_id = IF wait THEN @ + FutureWait ELSE @]
    <3>1. sq' = WithUserExpected(WithBurstEnd(WithRange(q2, m), m), m)
          /\ Part(BufsIn(SubSeq(sq.nodes, 1, k)))
      BY <1>6 DEF MetaCapture
    <3> HIDE DEF k, wait
    <3>2. q2 = q0
      BY <1>1 DEF SplitQueue, Queue
    <3> QED
      BY <3>1, <3>2
  <2> HIDE DEF k, e
  <2>4. SameNodes(q0, SplitQueue(k))
    BY <2>1, <2>2 DEF Queue, SameNodes
  <2>5. SameNodes(sq', q0)
    <3> HIDE DEF q0
    <3>1. q0 \in Queue
      BY <2>4 DEF SameNodes
    <3>2. SameNodes(q1, q0)
      BY <3>1, MetaSame
    <3> HIDE DEF q1
    <3>3. SameNodes(WithBurstEnd(q1, m), q1)
      BY <3>2, MetaSame DEF SameNodes
    <3> DEFINE q3 == WithBurstEnd(q1, m)
    <3> HIDE DEF q3
    <3>4. SameNodes(WithUserExpected(q3, m), q3)
      BY <3>3, MetaSame DEF SameNodes, q3
    <3> QED
      BY <2>3, <3>2, <3>3, <3>4 DEF SameNodes, q3
  <2>6. SameNodes(sq', SplitQueue(k))
    BY <2>4, <2>5 DEF SameNodes
  <2> QED
    BY <2>0, <2>3, <2>6, SplitQueueIs
<1> QED
  BY <1>4, <1>5, <1>6 DEF HandleMetadata

-----------------------------------------------------------------------------
(* A flush that is waited for is in the queue once; a stop's is the last,   *)
(* and nothing is left when it has been done.                               *)
IsFlush(c) == c.type = "FLUSH_QUEUE"
NoFlush(q) == \A i \in DOMAIN q : ~IsFlush(q[i])
OneFlush(q) == \E k \in DOMAIN q : \A i \in DOMAIN q : IsFlush(q[i]) <=> i = k
NoExit(q) == \A i \in DOMAIN q : q[i].type # "EXIT"

PhaseInv ==
    /\ caller \in {"idle", "flush", "stop flush", "stop exit", "stop join"}
    /\ session \in 0 .. MaxSessions
    /\ ~active => caller = "idle" /\ sq.nodes = <<>> /\ sq.match_cnt = 0
    /\ active /\ pc = "off" => caller = "stop join"
    /\ caller = "idle" => NoFlush(cmdQ)
    /\ caller \in {"flush", "stop flush"} => OneFlush(cmdQ)
    /\ caller = "stop flush" => IsFlush(cmdQ[Len(cmdQ)])
    /\ caller \in {"stop exit", "stop join"} => sq.nodes = <<>>
    /\ caller = "stop exit" => pc = "wait" /\ cmdQ = <<>>
    /\ caller = "stop join" => \/ pc = "wait" /\ cmdQ = <<[type |-> "EXIT"]>>
                               \/ pc = "off" /\ cmdQ = <<>>
    /\ caller # "stop join" => NoExit(cmdQ)

LEMMA UpTo ==
  ASSUME NEW n \in Nat
  PROVE  /\ n + 1 \in 1 .. (n + 1) /\ \A i \in 1 .. (n + 1) : i \in 1 .. n \/ i = n + 1
         /\ n > 0 /\ n # 1 => n - 1 \in 1 .. (n - 1) /\ n - 1 + 1 = n
         /\ n > 0 => n \in 1 .. n /\ 1 \in 1 .. n
         /\ \A i \in 1 .. (n - 1) : i + 1 # 1
OBVIOUS

LEMMA CmdShift ==
  ASSUME NEW q \in Seq(Cmds), q # <<>>
  PROVE  /\ Tail(q) \in Seq(Cmds) /\ Len(q) \in Nat /\ Len(q) > 0 /\ DOMAIN q = 1 .. Len(q)
         /\ Head(q) = q[1] /\ Len(Tail(q)) = Len(q) - 1 /\ DOMAIN Tail(q) = 1 .. (Len(q) - 1)
         /\ 1 \in DOMAIN q
         /\ \A i \in DOMAIN Tail(q) : Tail(q)[i] = q[i + 1] /\ i + 1 \in DOMAIN q /\ i + 1 # 1
<1>1. Tail(q) \in Seq(Cmds) /\ Len(q) \in Nat /\ Len(q) > 0 /\ DOMAIN q = 1 .. Len(q) /\ Head(q) = q[1]
  OBVIOUS
<1>2. Len(Tail(q)) = Len(q) - 1 /\ \A i \in 1 .. Len(q) - 1 : Tail(q)[i] = q[i + 1]
  OBVIOUS
<1>3. DOMAIN Tail(q) = 1 .. Len(Tail(q))
  BY <1>1
<1>4. 1 \in DOMAIN q /\ \A i \in DOMAIN Tail(q) : i + 1 # 1
  BY <1>1, <1>2, <1>3, UpTo
<1> QED
  BY <1>1, <1>2, <1>3, <1>4

LEMMA CmdGrows ==
  ASSUME NEW q \in Seq(Cmds), NEW c \in Cmds
  PROVE  /\ Append(q, c) \in Seq(Cmds) /\ Len(q) \in Nat /\ DOMAIN q = 1 .. Len(q)
         /\ Len(Append(q, c)) = Len(q) + 1 /\ DOMAIN Append(q, c) = 1 .. (Len(q) + 1)
         /\ Append(q, c)[Len(q) + 1] = c
         /\ \A i \in DOMAIN q : Append(q, c)[i] = q[i] /\ i \in DOMAIN Append(q, c) /\ i # Len(q) + 1
<1>1. Append(q, c) \in Seq(Cmds) /\ Len(q) \in Nat /\ DOMAIN q = 1 .. Len(q) /\ Len(Append(q, c)) = Len(q) + 1
  OBVIOUS
<1>2. Append(q, c)[Len(q) + 1] = c /\ \A i \in 1 .. Len(q) : Append(q, c)[i] = q[i]
  OBVIOUS
<1>3. DOMAIN Append(q, c) = 1 .. (Len(q) + 1)
  BY <1>1
<1> QED
  BY <1>1, <1>2, <1>3

(* No command is taken or added, and the thread does not wait.              *)
LEMMA PhaseSame ==
  ASSUME RequestInv, PhaseInv, UNCHANGED <<threads, cmdQ>>, pc \notin {"off", "wait"}, pc' # "off"
  PROVE  PhaseInv'
<1>1. active /\ caller \in {"idle", "flush", "stop flush"}
  BY DEF PhaseInv, RequestInv, ChTypes
<1> QED
  BY <1>1 DEF PhaseInv, threads

(* A command that is neither a flush nor the end is taken.                  *)
LEMMA PhaseTake ==
  ASSUME RequestInv, PhaseInv, UNCHANGED threads, NEW t, Take(t), t # "FLUSH_QUEUE", t # "EXIT", pc' # "off"
  PROVE  PhaseInv'
<1>1. cmdQ \in Seq(Cmds) /\ cmdQ # <<>> /\ active /\ pc = "wait" /\ cmdQ' = Tail(cmdQ) /\ Head(cmdQ).type = t
  BY DEF RequestInv, ChTypes, Take, PhaseInv
<1>2. ~IsFlush(cmdQ[1]) /\ cmdQ[1].type # "EXIT"
  BY <1>1, CmdShift DEF IsFlush
<1>3. caller \in {"idle", "flush", "stop flush"} /\ caller' = caller /\ active' /\ session' = session
  <2>1. cmdQ # <<[type |-> "EXIT"]>>
    BY <1>2
  <2> QED
    BY <1>1, <2>1 DEF PhaseInv, threads
<1>4. NoExit(Tail(cmdQ))
  <2>1. NoExit(cmdQ)
    BY <1>3 DEF PhaseInv
  <2> QED
    BY <1>1, <2>1, CmdShift DEF NoExit
<1>5. caller = "idle" => NoFlush(Tail(cmdQ))
  BY <1>1, CmdShift DEF NoFlush, PhaseInv
<1>6. ASSUME caller \in {"flush", "stop flush"}
      PROVE  OneFlush(Tail(cmdQ))
  <2>1. PICK k \in DOMAIN cmdQ : \A i \in DOMAIN cmdQ : IsFlush(cmdQ[i]) <=> i = k
    BY <1>6 DEF PhaseInv, OneFlush
  <2>2. k \in Nat /\ k - 1 \in DOMAIN Tail(cmdQ)
    BY <1>1, <1>2, <2>1, CmdShift
  <2>3. \A i \in DOMAIN Tail(cmdQ) : i \in Nat
    BY <1>1, CmdShift
  <2>4. ASSUME NEW i \in DOMAIN Tail(cmdQ)
        PROVE  IsFlush(Tail(cmdQ)[i]) <=> i = k - 1
    <3>1. Tail(cmdQ)[i] = cmdQ[i + 1] /\ i + 1 \in DOMAIN cmdQ
      BY <1>1, CmdShift
    <3>2. IsFlush(cmdQ[i + 1]) <=> i + 1 = k
      BY <2>1, <3>1
    <3>3. i + 1 = k <=> i = k - 1
      BY <2>2, <2>3
    <3> QED
      BY <3>1, <3>2, <3>3
  <2> QED
    BY <2>2, <2>4 DEF OneFlush
<1>7. ASSUME caller = "stop flush"
      PROVE  IsFlush(Tail(cmdQ)[Len(Tail(cmdQ))])
  <2>1. IsFlush(cmdQ[Len(cmdQ)])
    BY <1>7 DEF PhaseInv
  <2>2. Len(cmdQ) # 1
    BY <1>2, <2>1
  <2>3. Len(Tail(cmdQ)) \in DOMAIN Tail(cmdQ) /\ Len(Tail(cmdQ)) + 1 = Len(cmdQ)
    <3>1. Len(cmdQ) \in Nat /\ Len(cmdQ) > 0 /\ Len(Tail(cmdQ)) = Len(cmdQ) - 1
          /\ DOMAIN Tail(cmdQ) = 1 .. (Len(cmdQ) - 1)
      BY <1>1, CmdShift
    <3> QED
      BY <2>2, <3>1, UpTo
  <2> QED
    BY <1>1, <2>1, <2>3, CmdShift
<1>8. session \in 0 .. MaxSessions
  BY DEF PhaseInv
<1> QED
  BY <1>1, <1>3, <1>4, <1>5, <1>6, <1>7, <1>8 DEF PhaseInv

LEMMA PhaseAdd ==
  ASSUME RequestInv, PhaseInv, active, UNCHANGED <<active, session, pc>>, NEW c \in Cmds, cmdQ' = Append(cmdQ, c),
         c.type # "EXIT", caller \in {"idle", "flush"},
         \/ ~IsFlush(c) /\ caller' = caller
         \/ IsFlush(c) /\ caller = "idle" /\ caller' \in {"flush", "stop flush"}
  PROVE  PhaseInv'
<1> DEFINE w == Append(cmdQ, c)
<1>1. /\ cmdQ \in Seq(Cmds) /\ Len(cmdQ) \in Nat /\ DOMAIN cmdQ = 1 .. Len(cmdQ) /\ Len(w) = Len(cmdQ) + 1
      /\ DOMAIN w = 1 .. (Len(cmdQ) + 1) /\ w[Len(cmdQ) + 1] = c
      /\ \A i \in DOMAIN cmdQ : w[i] = cmdQ[i] /\ i \in DOMAIN w /\ i # Len(cmdQ) + 1
  <2>1. cmdQ \in Seq(Cmds)
    BY DEF RequestInv, ChTypes
  <2> QED
    BY <2>1, CmdGrows
<1> HIDE DEF w
<1>2. \A i \in DOMAIN w : i \in DOMAIN cmdQ \/ i = Len(cmdQ) + 1
  <2>1. Len(cmdQ) \in Nat /\ DOMAIN cmdQ = 1 .. Len(cmdQ) /\ DOMAIN w = 1 .. (Len(cmdQ) + 1)
    BY <1>1
  <2> QED
    BY <2>1, UpTo
<1>3. NoExit(w)
  <2>1. NoExit(cmdQ)
    BY DEF PhaseInv
  <2> QED
    BY <1>1, <1>2, <2>1 DEF NoExit
<1>4. pc # "off"
  BY DEF PhaseInv
<1>5. caller' = "idle" => NoFlush(w)
  <2> SUFFICES ASSUME caller' = "idle"
               PROVE  NoFlush(w)
    OBVIOUS
  <2>1. ~IsFlush(c) /\ NoFlush(cmdQ)
    BY DEF PhaseInv
  <2> QED
    BY <1>1, <1>2, <2>1 DEF NoFlush
<1>6. caller' \in {"flush", "stop flush"} => OneFlush(w)
  <2>1. CASE IsFlush(c)
    <3>1. NoFlush(cmdQ)
      BY <2>1 DEF PhaseInv
    <3>2. Len(cmdQ) + 1 \in DOMAIN w
      <4>1. Len(cmdQ) \in Nat /\ DOMAIN w = 1 .. (Len(cmdQ) + 1)
        BY <1>1
      <4> QED
        BY <4>1, UpTo
    <3>3. \A i \in DOMAIN w : IsFlush(w[i]) <=> i = Len(cmdQ) + 1
      BY <1>1, <1>2, <2>1, <3>1 DEF NoFlush
    <3> QED
      BY <3>2, <3>3 DEF OneFlush
  <2>2. CASE ~IsFlush(c) /\ caller = "flush"
    <3>1. PICK k \in DOMAIN cmdQ : \A i \in DOMAIN cmdQ : IsFlush(cmdQ[i]) <=> i = k
      BY <2>2 DEF PhaseInv, OneFlush
    <3>2. k \in DOMAIN w /\ \A i \in DOMAIN w : IsFlush(w[i]) <=> i = k
      BY <1>1, <1>2, <2>2, <3>1
    <3> QED
      BY <3>2 DEF OneFlush
  <2> QED
    BY <2>1, <2>2
<1>7. caller' = "stop flush" => IsFlush(w[Len(w)])
  BY <1>1
<1>8. caller' \in {"idle", "flush", "stop flush"} /\ session \in 0 .. MaxSessions
  BY DEF PhaseInv
<1> QED
  BY <1>3, <1>4, <1>5, <1>6, <1>7, <1>8 DEF PhaseInv, w

LEMMA PhaseKept == RequestInv /\ PhaseInv /\ [Next]_vars => PhaseInv'
<1> SUFFICES ASSUME RequestInv, PhaseInv, [Next]_vars
             PROVE  PhaseInv'
  OBVIOUS
<1>0. pc \in Places4 /\ active \in BOOLEAN /\ cmdQ \in Seq(Cmds) /\ (~active => pc = "off") /\ "nodes" \in DOMAIN sq /\ "match_cnt" \in DOMAIN sq
  BY DEF RequestInv, ChTypes, InitSq
<1>1. CASE ChannelStart
  <2>1. caller' = "idle" /\ active' /\ pc' = "wait" /\ cmdQ' = <<>> /\ session' = session + 1 /\ session < MaxSessions
    BY <1>1 DEF ChannelStart
  <2>2. session' \in 0 .. MaxSessions
    <3>1. MaxSessions \in Nat /\ session \in 0 .. MaxSessions
      BY ConstAssumption DEF PhaseInv
    <3> QED
      BY <2>1, <3>1
  <2>3. NoFlush(<<>>) /\ NoExit(<<>>)
    BY DEF NoFlush, NoExit
  <2> QED
    BY <2>1, <2>2, <2>3 DEF PhaseInv
<1>2. CASE StopDeinit
  <2>1. caller' = "idle" /\ ~active' /\ pc = "off" /\ pc' = pc /\ cmdQ' = cmdQ /\ caller = "stop join" /\ session' = session
    BY <1>2 DEF StopDeinit
  <2>2. sq'.nodes = <<>> /\ sq'.match_cnt = 0
    BY <1>0, <1>2 DEF StopDeinit
  <2>3. cmdQ = <<>>
    BY <2>1 DEF PhaseInv
  <2>4. NoFlush(cmdQ) /\ NoExit(cmdQ)
    BY <2>3 DEF NoFlush, NoExit
  <2>5. session \in 0 .. MaxSessions
    BY DEF PhaseInv
  <2> QED
    BY <2>1, <2>2, <2>4, <2>5 DEF PhaseInv
<1>3. ASSUME NEW b \in Bufs, Deliver(b)
      PROVE  PhaseInv'
  <2>1. Data(b) \in Cmds /\ Data(b).type = "DATA"
    BY DEF Data, Cmds
  <2>2. /\ active /\ cmdQ' = Append(cmdQ, Data(b)) /\ UNCHANGED <<active, session, pc>> /\ caller' = caller
        /\ caller \in {"idle", "flush"}
    BY <1>3 DEF Deliver, threads
  <2>3. ~IsFlush(Data(b)) /\ Data(b).type # "EXIT"
    BY <2>1 DEF IsFlush
  <2> QED
    BY <2>1, <2>2, <2>3, PhaseAdd
<1>4. ASSUME NEW c \in Controls, ControlCall(c)
      PROVE  PhaseInv'
  <2>1. c \in Calls
    BY ConstAssumption
  <2>2. c \in Cmds /\ c.type # "EXIT"
    BY <2>1 DEF Cmds, Calls
  <2>3. /\ active /\ cmdQ' = Append(cmdQ, c) /\ UNCHANGED <<active, session, pc>>
        /\ caller = "idle" /\ caller' = IF IsFlush(c) THEN "flush" ELSE "idle"
    BY <1>4 DEF ControlCall, IsFlush
  <2> QED
    BY <2>2, <2>3, PhaseAdd
<1>5. CASE StopFlush
  <2> DEFINE c == FlushCmd(0)
  <2>1. c \in Cmds /\ c.type = "FLUSH_QUEUE"
    BY DEF FlushCmd, Cmds, Calls
  <2>2. /\ active /\ cmdQ' = Append(cmdQ, c) /\ UNCHANGED <<active, session, pc>>
        /\ caller = "idle" /\ caller' = "stop flush"
    BY <1>5 DEF StopFlush
  <2>3. IsFlush(c) /\ c.type # "EXIT"
    BY <2>1 DEF IsFlush
  <2> HIDE DEF c
  <2> QED
    BY <2>1, <2>2, <2>3, PhaseAdd
<1>6. CASE StopExit
  <2>1. /\ caller = "stop exit" /\ caller' = "stop join" /\ cmdQ' = Append(cmdQ, Cmd("EXIT"))
        /\ UNCHANGED <<active, session, pc, sq>>
    BY <1>6 DEF StopExit
  <2>2. pc = "wait" /\ cmdQ = <<>> /\ sq.nodes = <<>> /\ active /\ session \in 0 .. MaxSessions
    BY <2>1 DEF PhaseInv
  <2>3. cmdQ' = <<[type |-> "EXIT"]>>
    <3>1. Append(<<>>, [type |-> "EXIT"]) = <<[type |-> "EXIT"]>>
      OBVIOUS
    <3> QED
      BY <2>1, <2>2, <3>1 DEF Cmd
  <2> QED
    BY <2>1, <2>2, <2>3 DEF PhaseInv
<1>7. ASSUME TakeData \/ TakeRequest \/ TakeStartZsl \/ TakeStopZsl \/ TakeNotify \/ TakeGeneral
      PROVE  PhaseInv'
  <2>1. UNCHANGED threads /\ pc' # "off"
    BY <1>7 DEF TakeData, TakeRequest, TakeStartZsl, TakeStopZsl, TakeNotify, TakeGeneral
  <2>2. \E t : Take(t) /\ t # "FLUSH_QUEUE" /\ t # "EXIT"
    BY <1>7 DEF TakeData, TakeRequest, TakeStartZsl, TakeStopZsl, TakeNotify, TakeGeneral
  <2> QED
    BY <2>1, <2>2, PhaseTake
<1>8. CASE TakeFlush
  <2>1. /\ pc = "wait" /\ pc' = pc /\ cmdQ # <<>> /\ Head(cmdQ).type = "FLUSH_QUEUE" /\ cmdQ' = Tail(cmdQ)
        /\ caller' = IF caller = "flush" THEN "idle" ELSE "stop exit"
        /\ UNCHANGED <<active, session>>
        /\ sq' = [FlushAll EXCEPT !.expected_frame_id = Head(cmdQ).frame]
    BY <1>8 DEF TakeFlush, Take
  <2>2. IsFlush(cmdQ[1]) /\ 1 \in DOMAIN cmdQ /\ active
    <3>1. Head(cmdQ) = cmdQ[1] /\ 1 \in DOMAIN cmdQ
      BY <1>0, <2>1, CmdShift
    <3> QED
      BY <1>0, <2>1, <3>1 DEF IsFlush
  <2>3. caller \in {"flush", "stop flush"}
    <3>1. caller # "idle"
      BY <2>2 DEF PhaseInv, NoFlush
    <3>2. caller # "stop exit"
      BY <2>1 DEF PhaseInv
    <3>3. cmdQ # <<[type |-> "EXIT"]>>
      BY <2>2 DEF IsFlush
    <3>4. caller # "stop join"
      BY <2>1, <3>3 DEF PhaseInv
    <3> QED
      BY <3>1, <3>2, <3>4 DEF PhaseInv
  <2>4. sq'.nodes = <<>>
    BY <1>0, <2>1 DEF FlushAll
  <2>5. \A i \in DOMAIN cmdQ : IsFlush(cmdQ[i]) <=> i = 1
    BY <2>2, <2>3 DEF PhaseInv, OneFlush
  <2>6. NoFlush(Tail(cmdQ)) /\ NoExit(Tail(cmdQ))
    <3>1. NoExit(cmdQ)
      BY <2>3 DEF PhaseInv
    <3>2. \A i \in DOMAIN Tail(cmdQ) : Tail(cmdQ)[i] = cmdQ[i + 1] /\ i + 1 \in DOMAIN cmdQ /\ i + 1 # 1
      BY <1>0, <2>1, CmdShift
    <3> QED
      BY <2>5, <3>1, <3>2 DEF NoExit, NoFlush
  <2>7. ASSUME caller = "stop flush"
        PROVE  Tail(cmdQ) = <<>>
    <3>1. Len(cmdQ) \in DOMAIN cmdQ
      BY <1>0, <2>1, CmdShift, UpTo
    <3>2. Len(cmdQ) = 1
      BY <2>5, <2>7, <3>1 DEF PhaseInv
    <3>3. Len(Tail(cmdQ)) = Len(cmdQ) - 1 /\ Tail(cmdQ) \in Seq(Cmds)
      BY <1>0, <2>1, CmdShift
    <3>4. Len(Tail(cmdQ)) = 0
      BY <3>2, <3>3
    <3> QED
      BY <3>3, <3>4, EmptySeq
  <2>8. session \in 0 .. MaxSessions
    BY DEF PhaseInv
  <2> QED
    BY <2>1, <2>2, <2>3, <2>4, <2>6, <2>7, <2>8 DEF PhaseInv
<1>9. CASE TakeExit
  <2>1. /\ pc = "wait" /\ pc' = "off" /\ cmdQ # <<>> /\ Head(cmdQ).type = "EXIT" /\ cmdQ' = Tail(cmdQ)
        /\ UNCHANGED threads /\ sq' = sq
    BY <1>9 DEF TakeExit, Take
  <2>2. cmdQ[1].type = "EXIT" /\ 1 \in DOMAIN cmdQ /\ active
    BY <1>0, <2>1, CmdShift
  <2>3. caller = "stop join"
    BY <2>2 DEF PhaseInv, NoExit
  <2>4. cmdQ = <<[type |-> "EXIT"]>> /\ sq.nodes = <<>> /\ session \in 0 .. MaxSessions
    BY <2>1, <2>3 DEF PhaseInv
  <2>5. cmdQ' = <<>>
    BY <2>1, <2>4
  <2> QED
    BY <2>1, <2>2, <2>3, <2>4, <2>5 DEF PhaseInv, threads
<1>10. ASSUME CompAndEnqueue \/ (\E m \in MetaInfos : HandleMetadata(m)) \/ SkipStep \/ SkipDone \/ ZslStart
              \/ ZslStop \/ ZslNone \/ DrainStep \/ DrainDone \/ Dispatch \/ DispatchFails \/ DispatchDone
       PROVE  PhaseInv'
  <2>1. CASE CompAndEnqueue
    <3>1. AtComp
      BY <2>1 DEF CompAndEnqueue, DiscardOlder, Isolate, DuplicateSlot, FillPartial, FillMatched, RejectExcess,
                  InsertNew, InsertFails, Searching
    <3> QED
      BY <3>1, PhaseSame DEF AtComp
  <2>2. CASE \E m \in MetaInfos : HandleMetadata(m)
    BY <2>2, PhaseSame DEF HandleMetadata
  <2>3. CASE SkipStep
    BY <2>3, PhaseSame DEF SkipStep
  <2>4. CASE SkipDone
    BY <2>4, PhaseSame DEF SkipDone
  <2>5. CASE ZslStart \/ ZslStop \/ ZslNone
    BY <2>5, PhaseSame DEF ZslStart, ZslStop, ZslNone, AtZsl
  <2>6. CASE DrainStep
    BY <2>6, PhaseSame DEF DrainStep
  <2>7. CASE DrainDone
    BY <2>7, PhaseSame DEF DrainDone
  <2>8. CASE Dispatch
    BY <2>8, PhaseSame DEF Dispatch
  <2>9. CASE DispatchFails
    BY <2>9, PhaseSame DEF DispatchFails
  <2>10. CASE DispatchDone
    BY <2>10, PhaseSame DEF DispatchDone
  <2> QED
    BY <1>10, <2>1, <2>2, <2>3, <2>4, <2>5, <2>6, <2>7, <2>8, <2>9, <2>10
<1>11. CASE Callback
  BY <1>11 DEF Callback, PhaseInv, threads
<1>12. CASE UNCHANGED vars
  BY <1>12 DEF vars, PhaseInv, threads
<1> QED
  BY <1>1, <1>2, <1>3, <1>4, <1>5, <1>6, <1>7, <1>8, <1>9, <1>10, <1>11, <1>12
     DEF Next, Stop, CmdThread, TakeCmd

LEMMA PhaseInit == Init => PhaseInv
<1>1. 0 \in 0 .. MaxSessions
  BY ConstAssumption
<1> QED
  BY <1>1 DEF Init, InitSq, PhaseInv, NoFlush, NoExit

-----------------------------------------------------------------------------
(* Where the buffers of the session are: every one has one place, and what  *)
(* is behind in the order of the places is behind in the order of frames.   *)
IsData(c) == c.type = "DATA"
InCmd == {cmdQ[i].buf : i \in {j \in DOMAIN cmdQ : IsData(cmdQ[j])}}
InHand == {cur} \ {NoBuf}
InCb == BufsIn(cbQ)
GoneBufs == {b \in Bufs : parted[b] = 1}
Kept == InQueue \cup InCb \cup GoneBufs

Placed(C, H, Q, B, G, A) ==
    /\ A \subseteq Bufs /\ A = C \cup H \cup Q \cup B \cup G
    /\ Q \cap B = {} /\ Q \cap G = {} /\ B \cap G = {}
    /\ Order(H, C) /\ Order(Q \cup B \cup G, C \cup H)
PlaceInv ==
    Placed(InCmd, InHand, InQueue, InCb, GoneBufs, arrived) /\ parted \in [Bufs -> {0, 1}]

CmdOrder ==
    \A i, j \in DOMAIN cmdQ :
        i < j /\ IsData(cmdQ[i]) /\ IsData(cmdQ[j]) /\ cmdQ[i].buf[1] = cmdQ[j].buf[1]
            => Before(cmdQ[i].buf, cmdQ[j].buf)

LEMMA Apart ==
  ASSUME NEW K, NEW P, P \subseteq Bufs, Order(K, P)
  PROVE  K \cap P = {}
<1> SUFFICES ASSUME NEW a \in P, a \in K
             PROVE  FALSE
  OBVIOUS
<1>1. a[2] \in Nat /\ a[3] \in {1, 2}
  BY BufShape
<1>2. Before(a, a)
  BY DEF Order
<1> QED
  BY <1>1, <1>2 DEF Before

(* What the thread has in hand stays there or goes on with the rest.        *)
LEMMA Moved ==
  ASSUME NEW C, NEW H, NEW Q, NEW B, NEW G, NEW A, Placed(C, H, Q, B, G, A),
         NEW J, NEW R, NEW D, NEW K,
         \/ J = H /\ R \cup D \cup K = Q \cup B \cup G
         \/ J = {} /\ R \cup D \cup K = H \cup Q \cup B \cup G,
         R \cap D = {}, R \cap K = {}, D \cap K = {}
  PROVE  Placed(C, J, R, D, K, A)
<1>1. A \subseteq Bufs /\ A = C \cup H \cup Q \cup B \cup G /\ Order(H, C) /\ Order(Q \cup B \cup G, C \cup H)
  BY DEF Placed
<1>2. A = C \cup J \cup R \cup D \cup K
  BY <1>1
<1>3. Order(J, C)
  BY <1>1 DEF Order
<1>4. Order(R \cup D \cup K, C \cup J)
  <2>1. CASE J = H /\ R \cup D \cup K = Q \cup B \cup G
    BY <1>1, <2>1
  <2>2. CASE J = {} /\ R \cup D \cup K = H \cup Q \cup B \cup G
    <3>1. C \cup J = C /\ R \cup D \cup K = H \cup (Q \cup B \cup G)
      BY <2>2
    <3>2. Order(H \cup (Q \cup B \cup G), C)
      BY <1>1 DEF Order
    <3> QED
      BY <3>1, <3>2
  <2> QED
    BY <2>1, <2>2
<1> QED
  BY <1>1, <1>2, <1>3, <1>4 DEF Placed

LEMMA Placing ==
  ASSUME NEW C, NEW H, NEW Q, NEW B, NEW G, NEW A, Placed(C, H, Q, B, G, A)
  PROVE  /\ (C \cup H \cup Q \cup B \cup G) \subseteq Bufs /\ C \cap H = {} /\ (C \cup H) \cap (Q \cup B \cup G) = {}
         /\ Q \cap B = {} /\ Q \cap G = {} /\ B \cap G = {}
<1>1. /\ A \subseteq Bufs /\ A = C \cup H \cup Q \cup B \cup G /\ Order(H, C) /\ Order(Q \cup B \cup G, C \cup H)
      /\ Q \cap B = {} /\ Q \cap G = {} /\ B \cap G = {}
  BY DEF Placed
<1>2. C \subseteq Bufs /\ (C \cup H) \subseteq Bufs
  BY <1>1
<1> QED
  BY <1>1, <1>2, Apart

LEMMA Parted ==
  ASSUME PlaceInv, NEW X, X \subseteq Bufs, X \cap GoneBufs = {}, Part(X)
  PROVE  GoneBufs' = GoneBufs \cup X /\ parted' \in [Bufs -> {0, 1}]
<1>1. parted \in [Bufs -> {0, 1}]
  BY DEF PlaceInv
<1>2. parted' = [b \in Bufs |-> parted[b] + IF b \in X THEN 1 ELSE 0]
  BY DEF Part
<1>3. ASSUME NEW b \in Bufs
      PROVE  parted'[b] \in {0, 1} /\ (parted'[b] = 1 <=> parted[b] = 1 \/ b \in X)
  <2>1. parted[b] \in {0, 1} /\ (b \in X => parted[b] # 1)
    BY <1>1 DEF GoneBufs
  <2>2. parted'[b] = parted[b] + IF b \in X THEN 1 ELSE 0
    BY <1>2
  <2> QED
    BY <2>1, <2>2
<1>4. parted' \in [Bufs -> {0, 1}]
  BY <1>2, <1>3
<1>5. GoneBufs' = GoneBufs \cup X
  BY <1>3 DEF GoneBufs
<1> QED
  BY <1>4, <1>5

(* The superbufs that wait for the callback thread: complete, of one frame. *)
Sent == [frame : Frames, slot : [Streams -> Bufs], ready : BOOLEAN, unlock : BOOLEAN]
Whole(e) == \A s \in Streams : e.slot[s][1] = s /\ e.slot[s][2] = e.frame
CbInv ==
    /\ cbQ \in Seq(Sent) /\ \A i \in DOMAIN cbQ : Whole(cbQ[i])
    /\ \A i, j \in DOMAIN cbQ : \A b \in BufsOf(cbQ[i]) : b \in BufsOf(cbQ[j]) => i = j

(* What is dispatched is never older than what was dispatched before.       *)
Reached(f, K) == f = 0 \/ \A s \in Streams : \E a \in K : a[1] = s /\ f <= a[2]
Ahead(f, q) == \A i \in 1 .. q.match_cnt : f <= q.nodes[i].frame_idx
SentInv == lastSent \in Nat /\ Reached(lastSent, Kept) /\ Ahead(lastSent, sq)

(* The metadata and the frame in hand go nowhere: the queue alone changes.  *)
LEMMA LeavePlaces ==
  ASSUME QueueInv, PlaceInv, SentInv, NEW X, QueueResult(X), Part(X), UNCHANGED <<arrived, cbQ, lastSent, cur>>,
         InCmd' = InCmd
  PROVE  PlaceInv' /\ SentInv'
<1>1. Placed(InCmd, InHand, InQueue, InCb, GoneBufs, arrived)
  BY DEF PlaceInv
<1>2. X \subseteq InQueue /\ InQueue' = InQueue \ X
  BY DEF QueueResult, InQueue
<1>3. X \subseteq Bufs /\ X \cap GoneBufs = {} /\ X \cap InCb = {} /\ InQueue \cap GoneBufs = {} /\ InQueue \cap InCb = {}
      /\ InCb \cap GoneBufs = {}
  BY <1>1, <1>2, Placing
<1>4. GoneBufs' = GoneBufs \cup X /\ parted' \in [Bufs -> {0, 1}]
  BY <1>3, Parted
<1>5. InHand' = InHand /\ InCb' = InCb /\ arrived' = arrived
  BY DEF InHand, InCb
<1> DEFINE Q == InQueue \ X
           G == GoneBufs \cup X
<1>6. Q \cup InCb \cup G = InQueue \cup InCb \cup GoneBufs /\ Q \cap InCb = {} /\ Q \cap G = {} /\ InCb \cap G = {}
  BY <1>2, <1>3
<1> HIDE DEF Q, G
<1>7. Placed(InCmd, InHand, Q, InCb, G, arrived)
  BY <1>1, <1>6, Moved
<1>8. PlaceInv'
  BY <1>2, <1>4, <1>5, <1>7 DEF PlaceInv, Q, G
<1>9. Kept' = Kept
  BY <1>2, <1>4, <1>5, <1>6 DEF Kept, Q, G
<1>10. Ahead(lastSent, sq')
  <2>1. Ahead(lastSent, sq)
    BY DEF SentInv
  <2> QED
    BY <2>1 DEF Ahead, QueueResult
<1> QED
  BY <1>8, <1>9, <1>10 DEF SentInv

(* comp_and_enqueue has dealt with the frame in hand.                       *)
LEMMA CompPlaces ==
  ASSUME QueueInv, PlaceInv, SentInv, cur \in Bufs, NEW X, CompResult(X), AtComp
  PROVE  QueueInv' /\ PlaceInv' /\ SentInv'
<1>1. Placed(InCmd, InHand, InQueue, InCb, GoneBufs, arrived)
  BY DEF PlaceInv
<1>2. InHand = {cur} /\ cur # NoBuf
  BY BufShape DEF InHand
<1>3. X \subseteq InQueue \cup {cur} /\ InQueue' = (InQueue \cup {cur}) \ X /\ Part(X)
  BY DEF CompResult, InQueue
<1>4. /\ (InQueue \cup {cur} \cup GoneBufs \cup InCb) \subseteq Bufs
      /\ {cur} \cap (InQueue \cup InCb \cup GoneBufs) = {}
      /\ InQueue \cap GoneBufs = {} /\ InQueue \cap InCb = {} /\ InCb \cap GoneBufs = {}
  BY <1>1, <1>2, Placing
<1>5. GoneBufs' = GoneBufs \cup X /\ parted' \in [Bufs -> {0, 1}]
  <2>1. X \subseteq Bufs /\ X \cap GoneBufs = {}
    BY <1>3, <1>4
  <2> QED
    BY <1>3, <2>1, Parted
<1>6. /\ InHand' = {} /\ InCb' = InCb /\ arrived' = arrived /\ InCmd' = InCmd /\ lastSent' = lastSent
      /\ cur' = NoBuf /\ pc' = "zsl"
  BY DEF InHand, InCb, InCmd, AtComp
<1> DEFINE Q == (InQueue \cup {cur}) \ X
           G == GoneBufs \cup X
<1>7. /\ Q \cup InCb \cup G = InHand \cup InQueue \cup InCb \cup GoneBufs
      /\ Q \cap InCb = {} /\ Q \cap G = {} /\ InCb \cap G = {}
  BY <1>2, <1>3, <1>4
<1> HIDE DEF Q, G
<1>8. Placed(InCmd, {}, Q, InCb, G, arrived)
  BY <1>1, <1>7, Moved
<1>9. PlaceInv'
  BY <1>3, <1>5, <1>6, <1>8 DEF PlaceInv, Q, G
<1>10. QueueInv'
  <2>1. sq' \in Queue /\ Shape(sq'.nodes, sq'.match_cnt) /\ Len(sq'.nodes) <= sq'.match_cnt + MaxUnmatchedFrames + 1
    BY DEF CompResult
  <2> QED
    BY <1>6, <2>1 DEF QueueInv
<1>11. Reached(lastSent, Kept')
  <2>1. Reached(lastSent, Kept)
    BY DEF SentInv
  <2>2. Kept \subseteq Kept'
    BY <1>3, <1>5, <1>6, <1>7 DEF Kept, Q, G
  <2> QED
    BY <2>1, <2>2 DEF Reached
<1>12. lastSent \in Nat /\ lastSent <= cur[2]
  <2>1. lastSent \in Nat /\ Reached(lastSent, Kept)
    BY DEF SentInv
  <2>2. cur[1] \in Streams /\ cur[2] \in Nat
    BY BufShape
  <2>3. CASE lastSent # 0
    <3>1. PICK a \in Kept : a[1] = cur[1] /\ lastSent <= a[2]
      BY <2>1, <2>2, <2>3 DEF Reached
    <3>2. Before(a, cur)
      BY <1>1, <1>2, <3>1 DEF Placed, Order, Kept
    <3>3. a \in Bufs
      BY <1>4, <3>1 DEF Kept
    <3>4. a[2] \in Nat
      BY <3>3, BufShape
    <3> QED
      BY <2>1, <2>2, <3>1, <3>2, <3>4 DEF Before
  <2> QED
    BY <2>1, <2>2, <2>3
<1>13. Ahead(lastSent, sq')
  <2>1. Ahead(lastSent, sq) /\ sq.match_cnt \in Nat
    BY QueueTypes DEF SentInv
  <2> SUFFICES ASSUME NEW i \in 1 .. sq'.match_cnt
               PROVE  lastSent <= sq'.nodes[i].frame_idx
    BY DEF Ahead
  <2>2. \/ sq'.nodes[i].frame_idx = cur[2]
        \/ i <= sq.match_cnt /\ sq'.nodes[i].frame_idx = sq.nodes[i].frame_idx
    BY DEF CompResult
  <2> QED
    BY <1>12, <2>1, <2>2 DEF Ahead
<1> QED
  BY <1>6, <1>9, <1>10, <1>11, <1>12, <1>13 DEF SentInv

(* Superbufs have left the queue.                                           *)
LEMMA LeaveKept ==
  ASSUME QueueInv, NEW X, QueueResult(X), cur' = cur, pc' \in {"meta", "comp"} <=> pc \in {"meta", "comp"}
  PROVE  QueueInv'
BY DEF QueueInv, QueueResult

(* The head of the queue goes to the callback thread.                       *)
LEMMA CbAdded ==
  ASSUME CbInv, NEW e \in Sent, Whole(e), BufsOf(e) \cap InCb = {}, cbQ' = Append(cbQ, e)
  PROVE  CbInv' /\ InCb' = InCb \cup BufsOf(e)
<1> DEFINE w == Append(cbQ, e)
<1>1. cbQ \in Seq(Sent) /\ \A i \in DOMAIN cbQ : Whole(cbQ[i])
  BY DEF CbInv
<1>2. w \in Seq(Sent) /\ Len(cbQ) \in Nat /\ DOMAIN cbQ = 1 .. Len(cbQ) /\ Len(w) = Len(cbQ) + 1
  BY <1>1
<1>3. DOMAIN w = 1 .. (Len(cbQ) + 1)
  BY <1>2
<1>4. w[Len(cbQ) + 1] = e /\ \A i \in 1 .. Len(cbQ) : w[i] = cbQ[i]
  BY <1>1
<1> HIDE DEF w
<1>5. Len(cbQ) + 1 \in DOMAIN w /\ \A i \in DOMAIN w : i \in DOMAIN cbQ \/ i = Len(cbQ) + 1
  BY <1>2, <1>3, UpTo
<1>6. \A i \in DOMAIN w : (i \in DOMAIN cbQ /\ w[i] = cbQ[i]) \/ (i = Len(cbQ) + 1 /\ w[i] = e)
  BY <1>2, <1>4, <1>5
<1>7. \A i \in DOMAIN cbQ : i \in DOMAIN w /\ w[i] = cbQ[i]
  <2>1. \A i \in 1 .. Len(cbQ) : i \in 1 .. (Len(cbQ) + 1)
    BY <1>2
  <2> QED
    BY <1>2, <1>3, <1>4, <2>1
<1>8. \A i \in DOMAIN cbQ : BufsOf(cbQ[i]) \subseteq InCb
  BY DEF InCb, BufsIn
<1>9. \A i \in DOMAIN w : Whole(w[i])
  BY <1>1, <1>6
<1>10. \A i, j \in DOMAIN w : \A b \in BufsOf(w[i]) : b \in BufsOf(w[j]) => i = j
  BY <1>6, <1>8 DEF CbInv
<1>11. BufsIn(w) = InCb \cup BufsOf(e)
  <2>1. BufsIn(w) \subseteq InCb \cup BufsOf(e)
    BY <1>6, <1>8 DEF BufsIn
  <2>2. BufsOf(e) \subseteq BufsIn(w)
    BY <1>4, <1>5 DEF BufsIn
  <2>3. InCb \subseteq BufsIn(w)
    BY <1>7 DEF BufsIn, InCb
  <2> QED
    BY <2>1, <2>2, <2>3
<1>12. cbQ' = w
  BY DEF w
<1> QED
  BY <1>2, <1>9, <1>10, <1>11, <1>12 DEF CbInv, InCb

LEMMA CbTaken ==
  ASSUME CbInv, cbQ # <<>>, cbQ' = Tail(cbQ)
  PROVE  CbInv' /\ InCb' = InCb \ BufsOf(Head(cbQ)) /\ BufsOf(Head(cbQ)) \subseteq InCb
<1> DEFINE w == Tail(cbQ)
<1>1. cbQ \in Seq(Sent) /\ (\A i \in DOMAIN cbQ : Whole(cbQ[i]))
      /\ \A i, j \in DOMAIN cbQ : \A b \in BufsOf(cbQ[i]) : b \in BufsOf(cbQ[j]) => i = j
  BY DEF CbInv
<1>2. w \in Seq(Sent) /\ Len(cbQ) \in Nat /\ Len(cbQ) > 0 /\ DOMAIN cbQ = 1 .. Len(cbQ) /\ Len(w) = Len(cbQ) - 1 /\ Head(cbQ) = cbQ[1]
  BY <1>1
<1>3. DOMAIN w = 1 .. (Len(cbQ) - 1)
  BY <1>2
<1>4. \A i \in 1 .. (Len(cbQ) - 1) : w[i] = cbQ[i + 1]
  BY <1>1
<1> HIDE DEF w
<1>5. /\ 1 \in DOMAIN cbQ /\ \A i \in DOMAIN w : i \in Nat /\ i + 1 \in DOMAIN cbQ /\ i + 1 # 1
      /\ \A i \in DOMAIN cbQ : i # 1 => i - 1 \in DOMAIN w /\ (i - 1) + 1 = i
  BY <1>2, <1>3
<1>6. \A i \in DOMAIN w : w[i] = cbQ[i + 1] /\ i + 1 \in DOMAIN cbQ /\ i + 1 # 1
  BY <1>3, <1>4, <1>5
<1>7. \A i \in DOMAIN w : Whole(w[i])
  BY <1>1, <1>6
<1>8. \A i, j \in DOMAIN w : \A b \in BufsOf(w[i]) : b \in BufsOf(w[j]) => i = j
  <2> SUFFICES ASSUME NEW i \in DOMAIN w, NEW j \in DOMAIN w, NEW b \in BufsOf(w[i]), b \in BufsOf(w[j])
               PROVE  i = j
    OBVIOUS
  <2>1. i + 1 = j + 1
    BY <1>1, <1>6
  <2>2. i \in Nat /\ j \in Nat
    BY <1>5
  <2> QED
    BY <2>1, <2>2
<1>9. BufsOf(cbQ[1]) \subseteq InCb
  BY <1>5 DEF InCb, BufsIn
<1>10. BufsIn(w) = InCb \ BufsOf(cbQ[1])
  <2>1. ASSUME NEW b \in BufsIn(w)
        PROVE  b \in InCb \ BufsOf(cbQ[1])
    <3>1. PICK i \in DOMAIN w : b \in BufsOf(cbQ[i + 1]) /\ i + 1 \in DOMAIN cbQ /\ i + 1 # 1
      BY <1>6, <2>1 DEF BufsIn
    <3>2. b \notin BufsOf(cbQ[1])
      BY <1>1, <1>5, <3>1
    <3> QED
      BY <3>1, <3>2 DEF InCb, BufsIn
  <2>2. ASSUME NEW b \in InCb, b \notin BufsOf(cbQ[1])
        PROVE  b \in BufsIn(w)
    <3>1. PICK i \in DOMAIN cbQ : b \in BufsOf(cbQ[i])
      BY DEF InCb, BufsIn
    <3>2. i - 1 \in DOMAIN w /\ (i - 1) + 1 = i
      BY <1>5, <2>2, <3>1
    <3>3. w[i - 1] = cbQ[i]
      BY <1>6, <3>2
    <3> QED
      BY <3>1, <3>2, <3>3 DEF BufsIn
  <2> QED
    BY <2>1, <2>2
<1>11. cbQ' = w
  BY DEF w
<1> QED
  BY <1>2, <1>7, <1>8, <1>9, <1>10, <1>11 DEF CbInv, InCb

(* The command queue.                                                       *)
LEMMA CmdFacts ==
  ASSUME NEW c \in Cmds
  PROVE  (IsData(c) => c.buf \in Bufs) /\ (c \in Calls => ~IsData(c))
BY DEF Cmds, Calls, IsData

LEMMA TailOrder ==
  ASSUME RequestInv, CmdOrder, cmdQ # <<>>, cmdQ' = Tail(cmdQ)
  PROVE  CmdOrder' /\ InCmd' = {cmdQ[i].buf : i \in {j \in DOMAIN cmdQ : IsData(cmdQ[j]) /\ j # 1}}
<1> DEFINE w == Tail(cmdQ)
<1>1. cmdQ \in Seq(Cmds)
  BY DEF RequestInv, ChTypes
<1>2. /\ Len(cmdQ) \in Nat /\ DOMAIN cmdQ = 1 .. Len(cmdQ) /\ DOMAIN w = 1 .. (Len(cmdQ) - 1)
      /\ \A i \in DOMAIN w : w[i] = cmdQ[i + 1] /\ i + 1 \in DOMAIN cmdQ /\ i + 1 # 1
  BY <1>1, CmdShift
<1> HIDE DEF w
<1>3. /\ \A i, j \in DOMAIN w : i < j => i + 1 < j + 1
      /\ \A i \in DOMAIN cmdQ : i # 1 => i - 1 \in DOMAIN w /\ (i - 1) + 1 = i
  BY <1>2
<1>4. \A i, j \in DOMAIN w :
        i < j /\ IsData(w[i]) /\ IsData(w[j]) /\ w[i].buf[1] = w[j].buf[1] => Before(w[i].buf, w[j].buf)
  <2> SUFFICES ASSUME NEW i \in DOMAIN w, NEW j \in DOMAIN w, i < j, IsData(w[i]), IsData(w[j]),
                      w[i].buf[1] = w[j].buf[1]
               PROVE  Before(w[i].buf, w[j].buf)
    OBVIOUS
  <2>1. w[i] = cmdQ[i + 1] /\ w[j] = cmdQ[j + 1] /\ i + 1 \in DOMAIN cmdQ /\ j + 1 \in DOMAIN cmdQ
    BY <1>2
  <2>2. i + 1 < j + 1
    BY <1>3
  <2> QED
    BY <2>1, <2>2 DEF CmdOrder
<1>5. {w[i].buf : i \in {j \in DOMAIN w : IsData(w[j])}}
         = {cmdQ[i].buf : i \in {j \in DOMAIN cmdQ : IsData(cmdQ[j]) /\ j # 1}}
  <2>1. ASSUME NEW i \in DOMAIN w, IsData(w[i])
        PROVE  w[i].buf \in {cmdQ[k].buf : k \in {j \in DOMAIN cmdQ : IsData(cmdQ[j]) /\ j # 1}}
    BY <1>2, <2>1
  <2>2. ASSUME NEW i \in DOMAIN cmdQ, IsData(cmdQ[i]), i # 1
        PROVE  cmdQ[i].buf \in {w[k].buf : k \in {j \in DOMAIN w : IsData(w[j])}}
    <3>1. i - 1 \in DOMAIN w /\ (i - 1) + 1 = i
      BY <1>3, <2>2
    <3>2. w[i - 1] = cmdQ[i]
      BY <1>2, <3>1
    <3> QED
      BY <2>2, <3>1, <3>2
  <2> QED
    BY <2>1, <2>2
<1>6. cmdQ' = w
  BY DEF w
<1> QED
  BY <1>4, <1>5, <1>6 DEF CmdOrder, InCmd

LEMMA OtherTaken ==
  ASSUME RequestInv, CmdOrder, NEW t, Take(t), t # "DATA"
  PROVE  CmdOrder' /\ InCmd' = InCmd
<1>1. cmdQ \in Seq(Cmds) /\ cmdQ # <<>> /\ cmdQ' = Tail(cmdQ) /\ Head(cmdQ).type = t
  BY DEF RequestInv, ChTypes, Take
<1>2. ~IsData(cmdQ[1])
  BY <1>1, CmdShift DEF IsData
<1>3. {j \in DOMAIN cmdQ : IsData(cmdQ[j]) /\ j # 1} = {j \in DOMAIN cmdQ : IsData(cmdQ[j])}
  BY <1>2
<1> QED
  BY <1>1, <1>3, TailOrder DEF InCmd

LEMMA DataTaken ==
  ASSUME RequestInv, CmdOrder, Take("DATA")
  PROVE  LET b == Head(cmdQ).buf
         IN  /\ b \in Bufs /\ InCmd = InCmd' \cup {b} /\ Order({b}, InCmd') /\ CmdOrder'
<1> DEFINE b == Head(cmdQ).buf
<1>1. cmdQ \in Seq(Cmds) /\ cmdQ # <<>> /\ cmdQ' = Tail(cmdQ) /\ Head(cmdQ).type = "DATA"
  BY DEF RequestInv, ChTypes, Take
<1>2. Head(cmdQ) \in Cmds /\ Head(cmdQ) = cmdQ[1] /\ 1 \in DOMAIN cmdQ /\ DOMAIN cmdQ = 1 .. Len(cmdQ) /\ Len(cmdQ) \in Nat
  BY <1>1, CmdShift, CmdTaken
<1>3. IsData(cmdQ[1]) /\ b = cmdQ[1].buf /\ b \in Bufs
  BY <1>1, <1>2, CmdFacts DEF IsData
<1> HIDE DEF b
<1>4. CmdOrder' /\ InCmd' = {cmdQ[i].buf : i \in {j \in DOMAIN cmdQ : IsData(cmdQ[j]) /\ j # 1}}
  BY <1>1, TailOrder
<1>5. InCmd = InCmd' \cup {b}
  BY <1>2, <1>3, <1>4 DEF InCmd
<1>6. \A i \in DOMAIN cmdQ : i # 1 => 1 < i
  BY <1>2
<1>7. Order({b}, InCmd')
  BY <1>2, <1>3, <1>4, <1>6 DEF CmdOrder, Order
<1> QED
  BY <1>3, <1>4, <1>5, <1>7 DEF b

LEMMA CmdPut ==
  ASSUME RequestInv, CmdOrder, NEW c \in Cmds, cmdQ' = Append(cmdQ, c), IsData(c) => Order(InCmd, {c.buf})
  PROVE  CmdOrder' /\ InCmd' = IF IsData(c) THEN InCmd \cup {c.buf} ELSE InCmd
<1> DEFINE w == Append(cmdQ, c)
           L == Len(cmdQ) + 1
<1>1. cmdQ \in Seq(Cmds)
  BY DEF RequestInv, ChTypes
<1>2. /\ Len(cmdQ) \in Nat /\ DOMAIN cmdQ = 1 .. Len(cmdQ) /\ DOMAIN w = 1 .. L /\ w[L] = c
      /\ \A i \in DOMAIN cmdQ : w[i] = cmdQ[i] /\ i \in DOMAIN w
  BY <1>1, CmdGrows
<1>3. cmdQ' = w
  OBVIOUS
<1> HIDE DEF w
<1>4. L \in DOMAIN w /\ \A i \in DOMAIN w : i \in DOMAIN cmdQ \/ i = L
  BY <1>2, UpTo
<1>5. \A i, j \in DOMAIN w : i < j => i \in DOMAIN cmdQ
  BY <1>2
<1>6. \A i \in DOMAIN cmdQ : IsData(cmdQ[i]) => cmdQ[i].buf \in InCmd
  BY DEF InCmd
<1> HIDE DEF L
<1>7. ASSUME NEW i \in DOMAIN w, NEW j \in DOMAIN w, i < j, IsData(w[i]), IsData(w[j]), w[i].buf[1] = w[j].buf[1]
      PROVE  Before(w[i].buf, w[j].buf)
  <2>1. i \in DOMAIN cmdQ /\ w[i] = cmdQ[i]
    BY <1>2, <1>5, <1>7
  <2>2. CASE j \in DOMAIN cmdQ
    BY <1>2, <1>7, <2>1, <2>2 DEF CmdOrder
  <2>3. CASE j = L
    BY <1>2, <1>6, <1>7, <2>1, <2>3 DEF Order
  <2> QED
    BY <1>4, <2>2, <2>3
<1>8. {w[i].buf : i \in {j \in DOMAIN w : IsData(w[j])}} = IF IsData(c) THEN InCmd \cup {c.buf} ELSE InCmd
  BY <1>2, <1>4 DEF InCmd
<1> QED
  BY <1>3, <1>7, <1>8 DEF CmdOrder, InCmd

-----------------------------------------------------------------------------
(* Every step.                                                              *)
FlowInv == QueueInv /\ CmdOrder /\ PlaceInv /\ CbInv /\ SentInv

LEMMA FlowLeaves ==
  ASSUME FlowInv, NEW X, QueueResult(X), Part(X), UNCHANGED <<arrived, cbQ, lastSent, cur>>,
         InCmd' = InCmd, CmdOrder', pc' \in {"meta", "comp"} <=> pc \in {"meta", "comp"}
  PROVE  FlowInv'
<1>1. QueueInv' /\ PlaceInv' /\ SentInv'
  BY LeaveKept, LeavePlaces DEF FlowInv
<1>2. CbInv'
  BY DEF FlowInv, CbInv
<1> QED
  BY <1>1, <1>2 DEF FlowInv

LEMMA FlowSame ==
  ASSUME FlowInv, UNCHANGED <<sq, cur, cbQ, history>>, InCmd' = InCmd, CmdOrder',
         pc' \in {"meta", "comp"} <=> pc \in {"meta", "comp"}
  PROVE  FlowInv'
<1>1. QueueResult({}) /\ Part({})
  BY SameQueue, PartNone DEF FlowInv, QueueInv, PlaceInv, history
<1> QED
  BY <1>1, FlowLeaves DEF history

LEMMA SameCmds ==
  ASSUME CmdOrder, UNCHANGED cmdQ
  PROVE  InCmd' = InCmd /\ CmdOrder'
BY DEF InCmd, CmdOrder

(* The ways out of comp_and_enqueue.                                        *)
LEMMA CompFlows ==
  ASSUME FlowInv, Normal, CompAndEnqueue
  PROVE  FlowInv'
<1>1. AtComp /\ pc = "comp"
  BY DEF CompAndEnqueue, DiscardOlder, Isolate, DuplicateSlot, FillPartial, FillMatched, RejectExcess,
         InsertNew, InsertFails, Searching, AtComp
<1>2. QueueInv /\ PlaceInv /\ SentInv /\ CmdOrder /\ CbInv
  BY DEF FlowInv
<1>3. cur \in Bufs /\ cur # NoBuf
  BY <1>1, <1>2 DEF QueueInv
<1>4. Order(InQueue, {cur}) /\ parted \in [Bufs -> {0, 1}]
  BY <1>2, <1>3 DEF PlaceInv, Placed, Order, InHand
<1>5. \E X : CompResult(X)
  <2>1. CASE DiscardOlder \/ RejectExcess
    <3>1. sq' = sq /\ Part({cur})
      BY <2>1 DEF DiscardOlder, RejectExcess
    <3> QED
      BY <1>2, <1>3, <1>4, <3>1, GivenBack
  <2>2. CASE Isolate
    BY <1>3, <2>2, BufShape DEF Isolate, Isolated, Normal
  <2>3. CASE DuplicateSlot
    BY <1>2, <1>3, <1>4, <2>3, DuplicateGivenBack
  <2>4. CASE FillPartial
    BY <1>2, <1>3, <1>4, <2>4, FillPartialIs
  <2>5. CASE FillMatched
    BY <1>2, <1>3, <1>4, <2>5, FillMatchedIs
  <2>6. CASE InsertNew
    BY <1>2, <1>3, <1>4, <2>6, InsertNewIs
  <2>7. CASE InsertFails
    BY <1>2, <1>3, <1>4, <2>7, InsertFailsIs
  <2> QED
    BY <2>1, <2>2, <2>3, <2>4, <2>5, <2>6, <2>7 DEF CompAndEnqueue
<1>6. QueueInv' /\ PlaceInv' /\ SentInv'
  BY <1>1, <1>2, <1>3, <1>5, CompPlaces
<1>7. CmdOrder' /\ CbInv'
  BY <1>1, <1>2, SameCmds DEF AtComp, CbInv
<1> QED
  BY <1>6, <1>7 DEF FlowInv

LEMMA MetaFlows ==
  ASSUME FlowInv, NEW m \in MetaInfos, HandleMetadata(m)
  PROVE  FlowInv'
<1>1. /\ pc = "meta" /\ pc' = "comp" /\ UNCHANGED <<threads, cmdQ, cur, cbQ, zslOn, arrived, lastSent>>
      /\ QueueInv /\ CmdOrder /\ parted \in [Bufs -> {0, 1}]
  BY DEF HandleMetadata, FlowInv, PlaceInv
<1>2. cur \in Bufs
  BY <1>1 DEF QueueInv
<1>3. PICK X : QueueResult(X) /\ Part(X)
  BY <1>1, <1>2, MetaLeaves
<1> QED
  BY <1>1, <1>3, SameCmds, FlowLeaves

LEMMA DropFlows ==
  ASSUME FlowInv, SkipStep \/ DrainStep
  PROVE  FlowInv'
<1>1. /\ UNCHANGED <<cmdQ, pc, cur, cbQ, arrived, lastSent>> /\ (DropMatched(LookBack) \/ DropMatched(WaterMark))
      /\ QueueInv /\ CmdOrder
  BY DEF SkipStep, DrainStep, FlowInv
<1>2. LookBack \in Nat /\ WaterMark \in Nat
  BY ConstAssumption
<1>3. PICK X : QueueResult(X) /\ Part(X)
  BY <1>1, <1>2, Dropping
<1> QED
  BY <1>1, <1>3, SameCmds, FlowLeaves

(* The commands that empty the queue.                                       *)
LEMMA FlushFlows ==
  ASSUME RequestInv, FlowInv, TakeFlush \/ TakeGeneral
  PROVE  FlowInv'
<1>1. /\ UNCHANGED <<cur, cbQ, arrived, lastSent>> /\ Part(BufsIn(sq.nodes)) /\ pc = "wait" /\ pc' \in {"wait", "zsl"}
      /\ QueueInv /\ CmdOrder /\ \E t \in {"FLUSH_QUEUE", "GENERAL"} : Take(t)
  BY DEF TakeFlush, TakeGeneral, FlowInv, Take
<1>2. CmdOrder' /\ InCmd' = InCmd
  BY <1>1, OtherTaken
<1>3. sq \in Queue /\ sq.match_cnt - NumMatched(sq.nodes) = 0 /\ sq.match_cnt - NumMatched(sq.nodes) \in Nat
  <2>1. NumMatched(sq.nodes) = sq.match_cnt /\ sq.match_cnt \in Nat /\ sq \in Queue
    BY <1>1, MatchedFirst, QueueTypes DEF QueueInv
  <2> QED
    BY <2>1
<1>4. /\ FlushAll \in Queue /\ FlushAll.nodes = <<>>
      /\ FlushAll.match_cnt = sq.match_cnt - NumMatched(sq.nodes)
  <2> DEFINE n == sq.match_cnt - NumMatched(sq.nodes)
  <2>1. FlushAll = [sq EXCEPT !.nodes = <<>>, !.match_cnt = n]
    BY DEF FlushAll
  <2>2. n \in Nat /\ <<>> \in Seq(Superbufs)
    BY <1>3
  <2> HIDE DEF n
  <2>3. FlushAll \in Queue /\ FlushAll.nodes = <<>> /\ FlushAll.match_cnt = n
    BY <1>3, <2>1, <2>2 DEF Queue
  <2> QED
    BY <2>3 DEF n
<1>5. CASE TakeFlush
  <2> DEFINE f == Head(cmdQ).frame
  <2>1. Head(cmdQ) \in Cmds /\ Head(cmdQ).type = "FLUSH_QUEUE" /\ sq' = [FlushAll EXCEPT !.expected_frame_id = f]
    BY <1>5, CmdTaken DEF RequestInv, ChTypes, TakeFlush, Take
  <2>2. f \in Nat
    BY <2>1 DEF Cmds, Calls
  <2> HIDE DEF f
  <2>3. sq' \in Queue /\ sq'.nodes = <<>> /\ sq'.match_cnt = sq.match_cnt - NumMatched(sq.nodes)
    BY <1>4, <2>1, <2>2 DEF Queue
  <2>4. QueueResult(InQueue)
    BY <1>1, <2>3, AllLeave
  <2> QED
    BY <1>1, <1>2, <2>4, FlowLeaves DEF InQueue
<1>6. CASE TakeGeneral
  <2>1. sq' = FlushAll
    BY <1>6 DEF TakeGeneral
  <2>2. QueueResult(InQueue)
    BY <1>1, <1>4, <2>1, AllLeave
  <2> QED
    BY <1>1, <1>2, <2>2, FlowLeaves DEF InQueue
<1> QED
  BY <1>5, <1>6

(* A frame is taken in hand; frame 0 goes straight back.                    *)
LEMMA DataFlows ==
  ASSUME RequestInv, FlowInv, TakeData
  PROVE  FlowInv'
<1> DEFINE b == Head(cmdQ).buf
<1>1. /\ pc = "wait" /\ Take("DATA") /\ UNCHANGED <<sq, cbQ, arrived, lastSent>>
      /\ \/ b[2] = 0 /\ pc' = "zsl" /\ Part({b}) /\ cur' = cur
         \/ pc' \in {"meta", "comp"} /\ cur' = b /\ parted' = parted
  BY DEF TakeData, Take
<1>2. QueueInv /\ CmdOrder /\ PlaceInv /\ CbInv /\ SentInv
  BY DEF FlowInv
<1>3. b \in Bufs /\ InCmd = InCmd' \cup {b} /\ Order({b}, InCmd') /\ CmdOrder'
  BY <1>1, <1>2, DataTaken
<1> HIDE DEF b
<1>4. Placed(InCmd, InHand, InQueue, InCb, GoneBufs, arrived) /\ parted \in [Bufs -> {0, 1}]
  BY <1>2 DEF PlaceInv
<1>5. cur = NoBuf /\ InHand = {} /\ b # NoBuf
  BY <1>1, <1>2, <1>3, BufShape DEF QueueInv, InHand
<1>6. /\ arrived \subseteq Bufs /\ arrived = InCmd \cup InHand \cup InQueue \cup InCb \cup GoneBufs
      /\ InQueue \cap InCb = {} /\ InQueue \cap GoneBufs = {} /\ InCb \cap GoneBufs = {}
      /\ Order(InQueue \cup InCb \cup GoneBufs, InCmd \cup InHand)
  BY <1>4 DEF Placed
<1>7. InQueue' = InQueue /\ InCb' = InCb /\ arrived' = arrived
  BY <1>1 DEF InQueue, InCb
<1>8. CbInv'
  BY <1>1, <1>2 DEF CbInv
<1>9. CASE Part({b}) /\ pc' = "zsl" /\ cur' = cur
  <2>1. b \notin InQueue \cup InCb \cup GoneBufs
    BY <1>3, <1>4, Placing
  <2>2. GoneBufs' = GoneBufs \cup {b} /\ parted' \in [Bufs -> {0, 1}]
    BY <1>2, <1>3, <1>9, <2>1, Parted
  <2> DEFINE C == InCmd'
             G == GoneBufs \cup {b}
  <2>3. Order(InQueue \cup InCb \cup G, C)
    BY <1>3, <1>6 DEF Order
  <2>4. arrived = C \cup InQueue \cup InCb \cup G
    BY <1>3, <1>5, <1>6
  <2>5. InQueue \cap G = {} /\ InCb \cap G = {}
    BY <1>6, <2>1
  <2>6. Order({}, C)
    BY DEF Order
  <2> HIDE DEF C, G
  <2>7. Placed(C, {}, InQueue, InCb, G, arrived)
    BY <1>6, <2>3, <2>4, <2>5, <2>6 DEF Placed
  <2>8. PlaceInv'
    BY <1>5, <1>7, <1>9, <2>2, <2>7 DEF PlaceInv, C, G, InHand
  <2>9. QueueInv'
    BY <1>1, <1>2, <1>5, <1>9 DEF QueueInv
  <2>10. Kept \subseteq Kept' /\ UNCHANGED <<lastSent, sq>>
    BY <1>1, <1>7, <2>2 DEF Kept
  <2>11. SentInv'
    BY <1>2, <2>10 DEF SentInv, Reached, Ahead
  <2> QED
    BY <1>3, <1>8, <2>8, <2>9, <2>11 DEF FlowInv
<1>10. CASE pc' \in {"meta", "comp"} /\ cur' = b /\ parted' = parted
  <2> DEFINE C == InCmd'
  <2>1. GoneBufs' = GoneBufs /\ InHand' = {b}
    BY <1>5, <1>10 DEF GoneBufs, InHand
  <2>2. arrived = C \cup {b} \cup InQueue \cup InCb \cup GoneBufs /\ C \cup {b} = InCmd \cup InHand
    BY <1>3, <1>5, <1>6
  <2>3. Order({b}, C)
    BY <1>3
  <2> HIDE DEF C
  <2>4. Placed(C, {b}, InQueue, InCb, GoneBufs, arrived)
    BY <1>6, <2>2, <2>3 DEF Placed
  <2>5. PlaceInv'
    BY <1>4, <1>7, <1>10, <2>1, <2>4 DEF PlaceInv, C
  <2>6. QueueInv'
    BY <1>1, <1>2, <1>3, <1>5, <1>10 DEF QueueInv
  <2>7. Kept' = Kept /\ UNCHANGED <<lastSent, sq>>
    BY <1>1, <1>7, <2>1 DEF Kept
  <2>8. SentInv'
    BY <1>2, <2>7 DEF SentInv
  <2> QED
    BY <1>3, <1>8, <2>5, <2>6, <2>8 DEF FlowInv
<1> QED
  BY <1>1, <1>9, <1>10

(* A poll thread hands over a frame.                                        *)
LEMMA DeliverFlows ==
  ASSUME RequestInv, FlowInv, NEW b \in Bufs, Deliver(b)
  PROVE  FlowInv'
<1>1. /\ UNCHANGED <<pc, cur, sq, cbQ, parted, lastSent>> /\ cmdQ' = Append(cmdQ, Data(b))
      /\ arrived' = arrived \cup {b} /\ Order(arrived, {b})
  BY DEF Deliver, Order, Before
<1>2. QueueInv /\ CmdOrder /\ PlaceInv /\ CbInv /\ SentInv
  BY DEF FlowInv
<1>3. /\ arrived \subseteq Bufs /\ arrived = InCmd \cup InHand \cup InQueue \cup InCb \cup GoneBufs
      /\ InQueue \cap InCb = {} /\ InQueue \cap GoneBufs = {} /\ InCb \cap GoneBufs = {}
      /\ Order(InHand, InCmd) /\ Order(InQueue \cup InCb \cup GoneBufs, InCmd \cup InHand)
  BY <1>2 DEF PlaceInv, Placed
<1>4. Data(b) \in Cmds /\ IsData(Data(b)) /\ Data(b).buf = b
  BY DEF Data, Cmds, IsData
<1>5. Order(InCmd, {b})
  BY <1>1, <1>3 DEF Order
<1>6. CmdOrder' /\ InCmd' = InCmd \cup {b}
  BY <1>1, <1>2, <1>4, <1>5, CmdPut
<1>7. InHand' = InHand /\ InQueue' = InQueue /\ InCb' = InCb /\ GoneBufs' = GoneBufs
  BY <1>1 DEF InHand, InQueue, InCb, GoneBufs
<1> DEFINE C == InCmd \cup {b}
           A == arrived \cup {b}
<1>8. Order(InHand, C) /\ Order(InQueue \cup InCb \cup GoneBufs, C \cup InHand)
  BY <1>1, <1>3 DEF Order
<1>9. A \subseteq Bufs /\ A = C \cup InHand \cup InQueue \cup InCb \cup GoneBufs
  BY <1>3
<1> HIDE DEF C, A
<1>10. Placed(C, InHand, InQueue, InCb, GoneBufs, A)
  BY <1>3, <1>8, <1>9 DEF Placed
<1>11. PlaceInv'
  BY <1>1, <1>2, <1>6, <1>7, <1>10 DEF PlaceInv, C, A
<1>12. QueueInv' /\ CbInv' /\ SentInv'
  BY <1>1, <1>2, <1>7 DEF QueueInv, CbInv, SentInv, Kept
<1> QED
  BY <1>6, <1>11, <1>12 DEF FlowInv

(* A superbuf goes to the callback thread, or back when there is no memory. *)
LEMMA DispatchFlows ==
  ASSUME RequestInv, FlowInv, Dispatch
  PROVE  FlowInv' /\ lastSent' >= lastSent
<1> DEFINE n == sq.nodes[1]
           e == [frame |-> n.frame_idx, slot |-> n.slot, ready |-> Counted.bWaitForPrepSnapshotDone,
                 unlock |-> Counted.unLockAEC]
           X == BufsOf(n)
<1>1. QueueInv /\ CmdOrder /\ PlaceInv /\ CbInv /\ SentInv
  BY DEF FlowInv
<1>2. pc = "loop" /\ Wanted /\ HeadMatched /\ sq' = Popped /\ UNCHANGED <<cmdQ, pc, cur, arrived>>
  BY DEF Dispatch
<1>3. sq.match_cnt > 0 /\ Rest = sq.nodes /\ Head(Rest) = n /\ Dropped = <<>> /\ 1 \in DOMAIN sq.nodes
  BY <1>1, <1>2, NormalHead
<1>4. cbQ' = Append(cbQ, e) /\ Part({}) /\ lastSent' = n.frame_idx
  <2>1. BufsIn(<<>>) = {}
    BY DEF BufsIn
  <2> QED
    BY <1>3, <2>1 DEF Dispatch
<1>5. /\ n \in Superbufs /\ n.frame_idx \in Nat /\ NodeInv(n) /\ n.matched
      /\ sq.match_cnt \in Nat /\ sq.match_cnt <= Len(sq.nodes) /\ Len(sq.nodes) \in Nat
      /\ DOMAIN sq.nodes = 1 .. Len(sq.nodes)
  BY <1>1, <1>3, QueueTypes
<1>6. \A s \in Streams : n.slot[s] # NoBuf /\ n.slot[s][1] = s /\ n.slot[s][2] = n.frame_idx
  BY <1>5 DEF NodeInv
<1>7. e \in Sent
  <2>1. n.slot \in [Streams -> Bufs] /\ n.frame_idx \in Frames
    BY <1>5, <1>6 DEF Superbufs
  <2>2. Counted.bWaitForPrepSnapshotDone \in BOOLEAN /\ Counted.unLockAEC \in BOOLEAN
    <3>1. Counted \in Channel
      BY <1>2, CountedTyped DEF RequestInv
    <3> QED
      BY <3>1 DEF Channel
  <2> DEFINE r == Counted.bWaitForPrepSnapshotDone
             u == Counted.unLockAEC
  <2> HIDE DEF r, u, n
  <2> QED
    BY <2>1, <2>2 DEF Sent, r, u
<1>8. Whole(e) /\ BufsOf(e) = X
  BY <1>6 DEF Whole, BufsOf
<1>9. QueueResult(X)
  BY <1>1, <1>2, <1>3, HeadLeaves
<1>10. Placed(InCmd, InHand, InQueue, InCb, GoneBufs, arrived)
  BY <1>1 DEF PlaceInv
<1>11. X \subseteq InQueue /\ InQueue' = InQueue \ X
  BY <1>9 DEF QueueResult, InQueue
<1>12. InQueue \cap InCb = {} /\ InQueue \cap GoneBufs = {} /\ InCb \cap GoneBufs = {}
  BY <1>10, Placing
<1>13. CbInv' /\ InCb' = InCb \cup X
  <2>1. BufsOf(e) \cap InCb = {}
    BY <1>8, <1>11, <1>12
  <2> HIDE DEF e
  <2> QED
    BY <1>1, <1>4, <1>7, <1>8, <2>1, CbAdded
<1>14. \A s \in Streams : n.slot[s] \in X
  BY <1>6 DEF BufsOf
<1>15. \A i \in 1 .. sq.match_cnt : n.frame_idx <= sq.nodes[i].frame_idx
  <2>1. \A i, j \in DOMAIN sq.nodes : i < j => sq.nodes[i].frame_idx <= sq.nodes[j].frame_idx
    BY <1>1 DEF QueueInv, Shape
  <2>2. \A i \in 1 .. sq.match_cnt : i \in DOMAIN sq.nodes /\ (i = 1 \/ 1 < i)
    BY <1>5
  <2>3. n.frame_idx <= n.frame_idx
    BY <1>5
  <2> QED
    BY <1>3, <2>1, <2>2, <2>3
<1>16. lastSent <= n.frame_idx
  <2>1. 1 \in 1 .. sq.match_cnt
    BY <1>3, <1>5
  <2> QED
    BY <1>1, <2>1 DEF SentInv, Ahead
<1> HIDE DEF X, n
<1>17. GoneBufs' = GoneBufs /\ parted' \in [Bufs -> {0, 1}]
  <2>1. {} \subseteq Bufs /\ {} \cap GoneBufs = {} /\ GoneBufs \cup {} = GoneBufs
    OBVIOUS
  <2>2. GoneBufs' = GoneBufs \cup {} /\ parted' \in [Bufs -> {0, 1}]
    BY <1>1, <1>4, <2>1, Parted
  <2> QED
    BY <2>1, <2>2
<1>18. InHand' = InHand /\ InCmd' = InCmd /\ arrived' = arrived /\ CmdOrder'
  BY <1>1, <1>2, SameCmds DEF InHand
<1> DEFINE Q == InQueue \ X
           B == InCb \cup X
<1>19. /\ Q \cup B \cup GoneBufs = InQueue \cup InCb \cup GoneBufs
       /\ Q \cap B = {} /\ Q \cap GoneBufs = {} /\ B \cap GoneBufs = {}
  BY <1>11, <1>12
<1> HIDE DEF Q, B
<1>20. Placed(InCmd, InHand, Q, B, GoneBufs, arrived)
  BY <1>10, <1>19, Moved
<1>21. PlaceInv'
  BY <1>11, <1>13, <1>17, <1>18, <1>20 DEF PlaceInv, Q, B
<1>22. QueueInv'
  BY <1>1, <1>2, <1>9, LeaveKept
<1>23. SentInv'
  <2>1. Reached(n.frame_idx, Kept')
    <3>1. \A s \in Streams : n.slot[s] \in Kept' /\ n.slot[s][1] = s /\ n.frame_idx <= n.slot[s][2]
      BY <1>5, <1>6, <1>13, <1>14 DEF Kept
    <3> QED
      BY <3>1 DEF Reached
  <2>2. Ahead(n.frame_idx, sq')
    BY <1>9, <1>15 DEF Ahead, QueueResult
  <2> QED
    BY <1>4, <1>5, <2>1, <2>2 DEF SentInv
<1>24. lastSent' >= lastSent
  BY <1>1, <1>4, <1>5, <1>16 DEF SentInv
<1> QED
  BY <1>13, <1>18, <1>21, <1>22, <1>23, <1>24 DEF FlowInv

LEMMA DispatchFailsFlows ==
  ASSUME FlowInv, DispatchFails
  PROVE  FlowInv'
<1>1. /\ UNCHANGED <<cmdQ, pc, cur, cbQ, arrived, lastSent>> /\ sq' = Popped /\ HeadMatched
      /\ Part(BufsIn(Dropped) \cup BufsOf(Head(Rest))) /\ QueueInv /\ CmdOrder
  BY DEF DispatchFails, FlowInv
<1>2. sq.match_cnt > 0 /\ BufsIn(Dropped) = {} /\ Head(Rest) = sq.nodes[1]
  BY <1>1, NormalHead DEF BufsIn
<1>3. QueueResult(BufsOf(sq.nodes[1])) /\ Part(BufsOf(sq.nodes[1]))
  <2>1. BufsIn(Dropped) \cup BufsOf(Head(Rest)) = BufsOf(sq.nodes[1])
    BY <1>2
  <2> QED
    BY <1>1, <1>2, <2>1, HeadLeaves
<1> QED
  BY <1>1, <1>3, SameCmds, FlowLeaves

LEMMA DispatchDoneFlows ==
  ASSUME FlowInv, DispatchDone
  PROVE  FlowInv'
<1>1. /\ UNCHANGED <<cmdQ, cur, cbQ, arrived, lastSent>> /\ pc = "loop" /\ pc' = "wait"
      /\ ((sq' = Blocked /\ Part(BufsIn(Dropped))) \/ UNCHANGED <<sq, parted>>)
      /\ QueueInv /\ CmdOrder /\ parted \in [Bufs -> {0, 1}]
  BY DEF DispatchDone, FlowInv, PlaceInv
<1>2. Blocked = sq /\ BufsIn(Dropped) = {}
  BY <1>1, NormalHead DEF BufsIn
<1>3. sq' = sq /\ Part({})
  BY <1>1, <1>2, PartNone
<1>4. QueueResult({})
  BY <1>1, <1>3, SameQueue DEF QueueInv
<1> QED
  BY <1>1, <1>3, <1>4, SameCmds, FlowLeaves

LEMMA CallbackFlows ==
  ASSUME FlowInv, Callback
  PROVE  FlowInv'
<1> DEFINE X == BufsOf(Head(cbQ))
<1>1. QueueInv /\ CmdOrder /\ PlaceInv /\ CbInv /\ SentInv
  BY DEF FlowInv
<1>2. cbQ # <<>> /\ cbQ' = Tail(cbQ) /\ Part(X) /\ UNCHANGED <<cmdQ, pc, cur, sq, arrived, lastSent>>
  BY DEF Callback
<1>3. CbInv' /\ InCb' = InCb \ X /\ X \subseteq InCb
  BY <1>1, <1>2, CbTaken
<1> HIDE DEF X
<1>4. Placed(InCmd, InHand, InQueue, InCb, GoneBufs, arrived)
  BY <1>1 DEF PlaceInv
<1>5. InCb \subseteq Bufs /\ InQueue \cap InCb = {} /\ InQueue \cap GoneBufs = {} /\ InCb \cap GoneBufs = {}
  BY <1>4, Placing
<1>6. GoneBufs' = GoneBufs \cup X /\ parted' \in [Bufs -> {0, 1}]
  <2>1. X \subseteq Bufs /\ X \cap GoneBufs = {}
    BY <1>3, <1>5
  <2> QED
    BY <1>1, <1>2, <2>1, Parted
<1>7. InHand' = InHand /\ InQueue' = InQueue /\ InCmd' = InCmd /\ arrived' = arrived /\ CmdOrder'
  BY <1>1, <1>2, SameCmds DEF InHand, InQueue
<1> DEFINE B == InCb \ X
           G == GoneBufs \cup X
<1>8. /\ InQueue \cup B \cup G = InQueue \cup InCb \cup GoneBufs
      /\ InQueue \cap B = {} /\ InQueue \cap G = {} /\ B \cap G = {}
  BY <1>3, <1>5
<1> HIDE DEF B, G
<1>9. Placed(InCmd, InHand, InQueue, B, G, arrived)
  BY <1>4, <1>8, Moved
<1>10. PlaceInv'
  BY <1>3, <1>6, <1>7, <1>9 DEF PlaceInv, B, G
<1>11. Kept' = Kept
  BY <1>3, <1>6, <1>7, <1>8 DEF Kept, B, G
<1>12. QueueInv' /\ SentInv'
  BY <1>1, <1>2, <1>11 DEF QueueInv, SentInv
<1> QED
  BY <1>3, <1>7, <1>10, <1>12 DEF FlowInv

(* A session begins with nothing in any place; it ends with the queue empty. *)
LEMMA StartFlows ==
  ASSUME RequestInv, PhaseInv, FlowInv, ChannelStart
  PROVE  FlowInv'
<1>1. /\ pc' = "wait" /\ cmdQ' = <<>> /\ cbQ' = <<>> /\ arrived' = {} /\ parted' = [b \in Bufs |-> 0]
      /\ lastSent' = 0 /\ cur' = cur /\ ~active
      /\ sq' = [sq EXCEPT !.nodes = <<>>, !.good_frame_id = 0,
                          !.expected_frame_id = sq.user_expected_frame_id,
                          !.expected_frame_id_without_led = 0, !.led_off_start_frame_id = 0]
  BY DEF ChannelStart
<1>2. pc = "off" /\ sq.nodes = <<>> /\ sq.match_cnt = 0 /\ QueueInv
  BY <1>1 DEF PhaseInv, RequestInv, ChTypes, FlowInv
<1>3. cur = NoBuf
  BY <1>2 DEF QueueInv
<1>4. sq' \in Queue /\ sq'.nodes = <<>> /\ sq'.match_cnt = 0
  <2>1. sq \in Queue
    BY <1>2 DEF QueueInv
  <2> DEFINE u == sq.user_expected_frame_id
  <2>2. u \in Nat /\ 0 \in Nat /\ <<>> \in Seq(Superbufs)
    BY <2>1 DEF Queue
  <2> HIDE DEF u
  <2>3. sq' = [sq EXCEPT !.nodes = <<>>, !.good_frame_id = 0, !.expected_frame_id = u,
                         !.expected_frame_id_without_led = 0, !.led_off_start_frame_id = 0]
    BY <1>1 DEF u
  <2> QED
    BY <1>2, <2>1, <2>2, <2>3 DEF Queue
<1>5. QueueInv'
  <2>1. QueueResult({})
    BY <1>2, <1>4, SameQueue
  <2> QED
    BY <1>1, <1>2, <2>1, LeaveKept
<1>6. InCmd' = {} /\ InHand' = {} /\ InQueue' = {} /\ InCb' = {} /\ GoneBufs' = {} /\ CmdOrder' /\ CbInv'
  <2>1. DOMAIN cmdQ' = {} /\ DOMAIN cbQ' = {} /\ DOMAIN sq'.nodes = {} /\ cbQ' \in Seq(Sent)
    BY <1>1, <1>4
  <2>2. InCmd' = {} /\ InHand' = {} /\ InQueue' = {} /\ InCb' = {}
    BY <1>1, <1>3, <2>1 DEF InCmd, InHand, InQueue, InCb, BufsIn
  <2>3. GoneBufs' = {}
    BY <1>1 DEF GoneBufs
  <2>4. CmdOrder' /\ CbInv'
    BY <2>1 DEF CmdOrder, CbInv
  <2> QED
    BY <2>2, <2>3, <2>4
<1>7. PlaceInv'
  <2>1. Placed({}, {}, {}, {}, {}, {})
    BY DEF Placed, Order
  <2>2. parted' \in [Bufs -> {0, 1}]
    BY <1>1
  <2> QED
    BY <1>1, <1>6, <2>1, <2>2 DEF PlaceInv
<1>8. SentInv'
  <2>1. \A i \in 1 .. 0 : FALSE
    OBVIOUS
  <2> QED
    BY <1>1, <1>4, <2>1 DEF SentInv, Reached, Ahead
<1> QED
  BY <1>5, <1>6, <1>7, <1>8 DEF FlowInv

LEMMA StopFlows ==
  ASSUME RequestInv, PhaseInv, FlowInv, StopDeinit
  PROVE  FlowInv'
<1>1. /\ UNCHANGED <<cmdQ, pc, cur, cbQ, arrived, parted, lastSent>> /\ caller = "stop join"
      /\ sq' = [sq EXCEPT !.nodes = <<>>, !.expected_frame_id = 0, !.good_frame_id = 0, !.match_cnt = 0]
  BY DEF StopDeinit, history
<1>2. sq.nodes = <<>> /\ QueueInv /\ CmdOrder /\ parted \in [Bufs -> {0, 1}]
  BY <1>1 DEF PhaseInv, FlowInv, PlaceInv
<1>3. sq.match_cnt = 0
  <2>1. sq.match_cnt \in Nat /\ sq.match_cnt <= Len(sq.nodes) /\ Len(sq.nodes) = 0
    BY <1>2, QueueTypes
  <2> QED
    BY <2>1
<1>4. sq' \in Queue /\ sq'.nodes = sq.nodes /\ sq'.match_cnt = sq.match_cnt
  <2>1. sq \in Queue /\ 0 \in Nat /\ <<>> \in Seq(Superbufs)
    BY <1>2 DEF QueueInv
  <2> QED
    BY <1>1, <1>2, <1>3, <2>1 DEF Queue
<1>5. QueueResult({}) /\ Part({})
  BY <1>1, <1>2, <1>4, SameQueue, PartNone
<1> QED
  BY <1>1, <1>2, <1>5, SameCmds, FlowLeaves

(* The other steps leave the buffers where they are.                        *)
LEMMA OtherFlows ==
  ASSUME RequestInv, PhaseInv, FlowInv,
         \/ TakeRequest \/ TakeStartZsl \/ TakeStopZsl \/ TakeNotify \/ TakeExit
         \/ SkipDone \/ ZslStart \/ ZslStop \/ ZslNone \/ DrainDone
         \/ StopFlush \/ StopExit \/ \E c \in Controls : ControlCall(c)
  PROVE  FlowInv'
<1>1. QueueInv /\ CmdOrder /\ parted \in [Bufs -> {0, 1}]
  BY DEF FlowInv, PlaceInv
<1>2. CASE TakeRequest \/ TakeStartZsl \/ TakeStopZsl \/ TakeExit
  <2>1. /\ UNCHANGED <<sq, cur, cbQ, history>> /\ pc = "wait" /\ pc' \in {"skip", "zsl", "off"}
        /\ \E t \in {"REQ_DATA", "START_ZSL", "STOP_ZSL", "EXIT"} : Take(t)
    BY <1>2 DEF TakeRequest, TakeStartZsl, TakeStopZsl, TakeExit, Take
  <2>2. CmdOrder' /\ InCmd' = InCmd
    BY <1>1, <2>1, OtherTaken
  <2> QED
    BY <2>1, <2>2, FlowSame
<1>3. CASE TakeNotify
  <2> DEFINE m == Head(cmdQ).mode
  <2>1. /\ UNCHANGED <<cur, cbQ, history>> /\ pc = "wait" /\ pc' = "zsl" /\ Take("CONFIG_NOTIFY")
        /\ sq' = [sq EXCEPT !.notify_mode = m] /\ Head(cmdQ) \in Cmds /\ Head(cmdQ).type = "CONFIG_NOTIFY"
    BY <1>3, CmdTaken DEF TakeNotify, Take, RequestInv, ChTypes
  <2>2. CmdOrder' /\ InCmd' = InCmd
    BY <1>1, <2>1, OtherTaken
  <2>3. sq \in Queue /\ m \in NotifyModes
    BY <1>1, <2>1 DEF Cmds, Calls, QueueInv
  <2> HIDE DEF m
  <2>4. sq' \in Queue /\ sq'.nodes = sq.nodes /\ sq'.match_cnt = sq.match_cnt
    BY <2>1, <2>3 DEF Queue
  <2>5. QueueResult({}) /\ Part({})
    BY <1>1, <2>1, <2>4, SameQueue, PartNone DEF history
  <2> QED
    BY <2>1, <2>2, <2>5, FlowLeaves DEF history
<1>4. CASE SkipDone \/ ZslStart \/ ZslStop \/ ZslNone \/ DrainDone
  <2>1. /\ UNCHANGED <<sq, cur, cbQ, history, cmdQ>> /\ pc \in {"skip", "zsl", "drain"}
        /\ pc' \in {"zsl", "drain", "loop"}
    BY <1>4 DEF SkipDone, ZslStart, ZslStop, ZslNone, DrainDone, AtZsl
  <2> QED
    BY <1>1, <2>1, SameCmds, FlowSame
<1>5. CASE StopFlush \/ StopExit \/ \E c \in Controls : ControlCall(c)
  <2>1. UNCHANGED <<pc, sq, cur, cbQ, history>> /\ \E c \in Cmds : cmdQ' = Append(cmdQ, c) /\ ~IsData(c)
    <3>1. FlushCmd(0) \in Cmds /\ ~IsData(FlushCmd(0)) /\ Cmd("EXIT") \in Cmds /\ ~IsData(Cmd("EXIT"))
      BY DEF FlushCmd, Cmd, Cmds, Calls, IsData
    <3>2. \A c \in Controls : c \in Cmds /\ ~IsData(c)
      BY ConstAssumption DEF Cmds, Calls, IsData
    <3> QED
      BY <1>5, <3>1, <3>2 DEF StopFlush, StopExit, ControlCall
  <2>2. CmdOrder' /\ InCmd' = InCmd
    BY <1>1, <2>1, CmdPut
  <2> QED
    BY <2>1, <2>2, FlowSame
<1> QED
  BY <1>2, <1>3, <1>4, <1>5

LEMMA FlowKept == Normal /\ RequestInv /\ PhaseInv /\ FlowInv /\ [Next]_vars => FlowInv'
<1> SUFFICES ASSUME Normal, RequestInv, PhaseInv, FlowInv, [Next]_vars
             PROVE  FlowInv'
  OBVIOUS
<1>1. CASE ChannelStart
  BY <1>1, StartFlows
<1>2. CASE StopDeinit
  BY <1>2, StopFlows
<1>3. ASSUME NEW b \in Bufs, Deliver(b)
      PROVE  FlowInv'
  BY <1>3, DeliverFlows
<1>4. CASE TakeData
  BY <1>4, DataFlows
<1>5. CASE TakeFlush \/ TakeGeneral
  BY <1>5, FlushFlows
<1>6. CASE CompAndEnqueue
  BY <1>6, CompFlows
<1>7. ASSUME NEW m \in MetaInfos, HandleMetadata(m)
      PROVE  FlowInv'
  BY <1>7, MetaFlows
<1>8. CASE SkipStep \/ DrainStep
  BY <1>8, DropFlows
<1>9. CASE Dispatch
  BY <1>9, DispatchFlows
<1>10. CASE DispatchFails
  BY <1>10, DispatchFailsFlows
<1>11. CASE DispatchDone
  BY <1>11, DispatchDoneFlows
<1>12. CASE Callback
  BY <1>12, CallbackFlows
<1>13. CASE \/ TakeRequest \/ TakeStartZsl \/ TakeStopZsl \/ TakeNotify \/ TakeExit
            \/ SkipDone \/ ZslStart \/ ZslStop \/ ZslNone \/ DrainDone
            \/ StopFlush \/ StopExit \/ \E c \in Controls : ControlCall(c)
  BY <1>13, OtherFlows
<1>14. CASE UNCHANGED vars
  <2>1. UNCHANGED <<cmdQ, pc, sq, cur, cbQ, history>>
    BY <1>14 DEF vars
  <2> QED
    BY <2>1, SameCmds, FlowSame DEF FlowInv
<1> QED
  BY <1>1, <1>2, <1>3, <1>4, <1>5, <1>6, <1>7, <1>8, <1>9, <1>10, <1>11, <1>12, <1>13, <1>14
     DEF Next, Stop, CmdThread, TakeCmd

LEMMA FlowInit == Init => FlowInv
<1> SUFFICES ASSUME Init
             PROVE  FlowInv
  OBVIOUS
<1>1. /\ sq = InitSq /\ cmdQ = <<>> /\ cbQ = <<>> /\ pc = "off" /\ cur = NoBuf /\ arrived = {}
      /\ parted = [b \in Bufs |-> 0] /\ lastSent = 0
  BY DEF Init
<1>2. sq \in Queue /\ sq.nodes = <<>> /\ sq.match_cnt = 0
  <2>1. NotifyMode \in NotifyModes /\ UserExpected \in Nat /\ <<>> \in Seq(Superbufs)
    BY ConstAssumption
  <2> QED
    BY <1>1, <2>1 DEF InitSq, Queue
<1>3. DOMAIN sq.nodes = {} /\ DOMAIN cmdQ = {} /\ DOMAIN cbQ = {} /\ cbQ \in Seq(Sent)
  BY <1>1, <1>2
<1>4. QueueInv
  <2>1. Shape(sq.nodes, sq.match_cnt)
    BY <1>2, <1>3 DEF Shape
  <2>2. MaxUnmatchedFrames \in Nat
    BY ConstAssumption
  <2>3. Len(sq.nodes) <= sq.match_cnt + MaxUnmatchedFrames + 1
    BY <1>2, <2>2
  <2> QED
    BY <1>1, <1>2, <2>1, <2>3 DEF QueueInv
<1>5. InCmd = {} /\ InHand = {} /\ InQueue = {} /\ InCb = {} /\ GoneBufs = {}
  BY <1>1, <1>3 DEF InCmd, InHand, InQueue, InCb, GoneBufs, BufsIn
<1>6. PlaceInv
  <2>1. Placed({}, {}, {}, {}, {}, {})
    BY DEF Placed, Order
  <2> QED
    BY <1>1, <1>5, <2>1 DEF PlaceInv
<1>7. CmdOrder /\ CbInv
  BY <1>3 DEF CmdOrder, CbInv
<1>8. SentInv
  <2>1. \A i \in 1 .. 0 : FALSE
    OBVIOUS
  <2> QED
    BY <1>1, <1>2, <2>1 DEF SentInv, Reached, Ahead
<1> QED
  BY <1>4, <1>6, <1>7, <1>8 DEF FlowInv

-----------------------------------------------------------------------------
(* The theorems about the queue, in the mode Normal.                        *)
BufferInv == RequestInv /\ PhaseInv /\ FlowInv

(* Whatever the poll threads deliver, the HAL asks for, the metadata says   *)
(* and the memory allows, the queue is in shape, every buffer is in one     *)
(* place, and what is to be dispatched is not older than what was.          *)
THEOREM BufferInvariance ==
  ASSUME Normal
  PROVE  Spec => []BufferInv
<1>1. Init => BufferInv
  BY RequestInit, PhaseInit, FlowInit DEF BufferInv
<1>2. BufferInv /\ [Next]_vars => BufferInv'
  BY RequestKept, PhaseKept, FlowKept DEF BufferInv
<1> QED
  BY <1>1, <1>2, PTL DEF Spec

LEMMA TypesHold == BufferInv => TypeOK
<1> SUFFICES ASSUME BufferInv
             PROVE  TypeOK
  OBVIOUS
<1>1. RequestInv /\ PhaseInv /\ FlowInv /\ QueueInv /\ PlaceInv
  BY DEF BufferInv, FlowInv
<1>2. /\ active \in BOOLEAN /\ zslOn \in BOOLEAN /\ pc \in Places4 /\ ch \in Channel
  BY <1>1 DEF RequestInv, ChTypes
<1>3. caller \in {"idle", "flush", "stop flush", "stop exit", "stop join"} /\ session \in 0 .. MaxSessions
  BY <1>1 DEF PhaseInv
<1>4. sq \in Queue /\ cur \in Bufs \cup {NoBuf}
  BY <1>1 DEF QueueInv
<1>5. \A i \in DOMAIN sq.nodes : sq.nodes[i] \in NodeType
  <2>1. \A n \in Superbufs : n \in NodeType
    BY DEF Superbufs, NodeType
  <2> QED
    BY <1>1, <2>1, QueueTypes
<1>6. arrived \subseteq Bufs /\ parted \in [Bufs -> Nat]
  BY <1>1 DEF PlaceInv, Placed
<1>7. /\ {ch.pending_cnt, ch.pending_retro_cnt, ch.burstSnapNum, ch.diverted_frame_id} \subseteq Nat
      /\ {ch.bWaitForPrepSnapshotDone, ch.unLockAEC, ch.stopZslSnapshot,
          ch.manualZSLSnapshot, ch.startZSlSnapshotCalled, ch.needLEDFlash,
          ch.isFlashBracketingEnabled, ch.isZoom1xFrameRequested} \subseteq BOOLEAN
      /\ ch.bracketingState \in {"off", "wait", "active"}
  BY <1>2 DEF Channel
<1>8. /\ {sq.match_cnt, sq.expected_frame_id, sq.good_frame_id, sq.frame_skip_count,
          sq.expected_frame_id_without_led, sq.led_off_start_frame_id,
          sq.user_expected_frame_id} \subseteq Nat
      /\ sq.once \in BOOLEAN /\ sq.notify_mode \in NotifyModes
  BY <1>4 DEF Queue
<1> QED
  BY <1>2, <1>3, <1>4, <1>5, <1>6, <1>7, <1>8 DEF TypeOK, Places4

(* The variables of the channel and its threads have their types.           *)
THEOREM TypesHoldAlways ==
  ASSUME Normal
  PROVE  Spec => []TypeOK
BY BufferInvariance, TypesHold, PTL

(* How many elements of D are of the one kind P, when they are one at most. *)
LEMMA AtMostOne ==
  ASSUME NEW S, \A i, j \in S : i = j
  PROVE  Cardinality(S) = IF S = {} THEN 0 ELSE 1
<1>1. CASE S = {}
  BY <1>1, FS_EmptySet
<1>2. CASE S # {}
  <2>1. PICK x : x \in S
    BY <1>2
  <2>2. S = {x}
    BY <2>1
  <2>3. Cardinality({x}) = 1
    BY FS_Singleton
  <2> QED
    BY <1>2, <2>2, <2>3
<1> QED
  BY <1>1, <1>2

LEMMA ConservedHolds == BufferInv => BuffersConserved
<1> SUFFICES ASSUME BufferInv, NEW b \in Bufs
             PROVE  Places(b) + parted[b] = IF b \in arrived THEN 1 ELSE 0
  BY DEF BuffersConserved
<1>1. RequestInv /\ QueueInv /\ PlaceInv /\ CmdOrder /\ CbInv
  BY DEF BufferInv, FlowInv
<1>2. Placed(InCmd, InHand, InQueue, InCb, GoneBufs, arrived) /\ parted \in [Bufs -> {0, 1}]
  BY <1>1 DEF PlaceInv
<1>3. /\ InCmd \cap InHand = {} /\ (InCmd \cup InHand) \cap (InQueue \cup InCb \cup GoneBufs) = {}
      /\ InQueue \cap InCb = {} /\ InQueue \cap GoneBufs = {} /\ InCb \cap GoneBufs = {}
  BY <1>2, Placing
<1>4. arrived = InCmd \cup InHand \cup InQueue \cup InCb \cup GoneBufs
  BY <1>2 DEF Placed
<1> DEFINE S == {i \in DOMAIN cmdQ : cmdQ[i].type = "DATA" /\ cmdQ[i].buf = b}
           T == {i \in DOMAIN sq.nodes : b \in BufsOf(sq.nodes[i])}
           U == {i \in DOMAIN cbQ : b \in BufsOf(cbQ[i])}
<1>5. Cardinality(S) = IF b \in InCmd THEN 1 ELSE 0
  <2>1. DOMAIN cmdQ \subseteq Nat
    BY <1>1 DEF RequestInv, ChTypes
  <2>2. ~Before(b, b)
    BY BufShape DEF Before
  <2>3. ASSUME NEW i \in S, NEW j \in S, i < j
        PROVE  FALSE
    <3>1. i \in DOMAIN cmdQ /\ j \in DOMAIN cmdQ /\ IsData(cmdQ[i]) /\ IsData(cmdQ[j])
          /\ cmdQ[i].buf = b /\ cmdQ[j].buf = b
      BY DEF S, IsData
    <3>2. Before(b, b)
      BY <1>1, <2>3, <3>1 DEF CmdOrder
    <3> QED
      BY <2>2, <3>2
  <2>4. \A i, j \in S : i = j
    <3>1. \A i \in S : i \in Nat
      BY <2>1 DEF S
    <3> HIDE DEF S
    <3> QED
      BY <2>3, <3>1
  <2>5. S = {} <=> b \notin InCmd
    BY DEF InCmd, IsData
  <2> HIDE DEF S
  <2> QED
    BY <2>4, <2>5, AtMostOne
<1>6. Cardinality(T) = IF b \in InQueue THEN 1 ELSE 0
  <2>1. \A i, j \in T : i = j
    BY <1>1 DEF QueueInv, Shape
  <2>2. T = {} <=> b \notin InQueue
    BY DEF InQueue, BufsIn
  <2> HIDE DEF T
  <2> QED
    BY <2>1, <2>2, AtMostOne
<1>7. Cardinality(U) = IF b \in InCb THEN 1 ELSE 0
  <2>1. \A i, j \in U : i = j
    BY <1>1 DEF CbInv
  <2>2. U = {} <=> b \notin InCb
    BY DEF InCb, BufsIn
  <2> HIDE DEF U
  <2> QED
    BY <2>1, <2>2, AtMostOne
<1>8. cur = b <=> b \in InHand
  BY BufShape DEF InHand
<1>9. parted[b] = IF b \in GoneBufs THEN 1 ELSE 0
  BY <1>2 DEF GoneBufs
<1>10. Places(b) = Cardinality(S) + (IF cur = b THEN 1 ELSE 0) + Cardinality(T) + Cardinality(U)
  BY DEF Places
<1> HIDE DEF S, T, U
<1>11. Places(b) + parted[b]
        = (IF b \in InCmd THEN 1 ELSE 0) + (IF b \in InHand THEN 1 ELSE 0) + (IF b \in InQueue THEN 1 ELSE 0)
          + (IF b \in InCb THEN 1 ELSE 0) + (IF b \in GoneBufs THEN 1 ELSE 0)
  BY <1>5, <1>6, <1>7, <1>8, <1>9, <1>10
<1> QED
  BY <1>3, <1>4, <1>11

(* No way out of comp_and_enqueue, no eviction, overflow, flush, dispatch   *)
(* or stop loses a buffer or gives it back twice.                           *)
THEOREM BuffersConservedAlways ==
  ASSUME Normal
  PROVE  Spec => []BuffersConserved
BY BufferInvariance, ConservedHolds, PTL

(* The HAL is given superbufs with a buffer of every stream, all of the     *)
(* frame of the superbuf.                                                   *)
THEOREM SuperbufsAgreeAlways ==
  ASSUME Normal
  PROVE  Spec => []SuperbufsAgree
<1>1. BufferInv => SuperbufsAgree
  <2> SUFFICES ASSUME BufferInv, NEW i \in DOMAIN cbQ, NEW s \in Streams
               PROVE  cbQ[i].slot[s] # NoBuf /\ cbQ[i].slot[s][2] = cbQ[i].frame
    BY DEF SuperbufsAgree
  <2>1. cbQ \in Seq(Sent) /\ Whole(cbQ[i])
    BY DEF BufferInv, FlowInv, CbInv
  <2>2. cbQ[i] \in Sent
    BY <2>1
  <2>3. cbQ[i].slot[s] \in Bufs
    BY <2>2 DEF Sent
  <2> QED
    BY <2>1, <2>3, BufShape DEF Whole
<1> QED
  BY <1>1, BufferInvariance, PTL

(* match_cnt counts the matched superbufs, they come first and in the order *)
(* of their frames, and one more unmatched one stays than asked for at      *)
(* most, when no stream hands out a frame number twice.                     *)
THEOREM QueueShapeAlways ==
  ASSUME Normal, Repeats = {}
  PROVE  Spec => []QueueShape
<1>1. BufferInv => QueueShape
  <2> SUFFICES ASSUME BufferInv
               PROVE  QueueShape
    OBVIOUS
  <2>1. QueueInv
    BY DEF BufferInv, FlowInv
  <2>2. Shape(sq.nodes, sq.match_cnt)
    BY <2>1 DEF QueueInv
  <2>3. sq.match_cnt = NumMatched(sq.nodes) /\ DOMAIN sq.nodes \subseteq Nat /\ sq.match_cnt \in Nat
    BY <2>2, MatchedFirst, ShapeTypes
  <2>4. \A i, j \in DOMAIN sq.nodes : i < j =>
           /\ sq.nodes[j].matched => sq.nodes[i].matched
           /\ sq.nodes[i].frame_idx < sq.nodes[j].frame_idx
    BY <2>2, <2>3 DEF Shape
  <2>5. UnmatchedBundles <= MaxUnmatchedFrames + 1
    <3>1. /\ UnmatchedBundles = Len(sq.nodes) - sq.match_cnt /\ Len(sq.nodes) \in Nat /\ MaxUnmatchedFrames \in Nat
          /\ Len(sq.nodes) <= sq.match_cnt + MaxUnmatchedFrames + 1
      BY <2>1, QueueTypes DEF QueueInv
    <3> QED
      BY <2>3, <3>1
  <2> QED
    BY <2>3, <2>4, <2>5 DEF QueueShape
<1> QED
  BY <1>1, BufferInvariance, PTL

(* In one session superbufs are dispatched in the order of their frames.    *)
THEOREM DispatchInOrderAlways ==
  ASSUME Normal
  PROVE  Spec => DispatchInOrder
<1>1. BufferInv /\ [Next]_vars => [session' = session => lastSent' >= lastSent]_vars
  <2> SUFFICES ASSUME BufferInv, Next, session' = session
               PROVE  lastSent' >= lastSent
    OBVIOUS
  <2>1. RequestInv /\ PhaseInv /\ FlowInv /\ lastSent \in Nat /\ session \in Nat
    <3>1. RequestInv /\ PhaseInv /\ FlowInv /\ lastSent \in Nat /\ session \in 0 .. MaxSessions
      BY DEF BufferInv, FlowInv, SentInv, PhaseInv
    <3> QED
      BY <3>1
  <2>2. CASE Dispatch
    BY <2>1, <2>2, DispatchFlows
  <2>3. CASE ChannelStart
    BY <2>1, <2>3 DEF ChannelStart
  <2>4. CASE UNCHANGED lastSent
    BY <2>1, <2>4
  <2>5. CASE ~Dispatch /\ ~ChannelStart
    <3>1. CASE Stop \/ (\E c \in Controls : ControlCall(c)) \/ (\E b \in Bufs : Deliver(b)) \/ Callback
      BY <2>4, <3>1 DEF Stop, StopFlush, StopExit, StopDeinit, ControlCall, Deliver, Callback, history
    <3>2. CASE TakeCmd
      BY <2>4, <3>2 DEF TakeCmd, TakeData, TakeRequest, TakeStartZsl, TakeStopZsl, TakeNotify, TakeFlush,
                 TakeGeneral, TakeExit, history
    <3>3. CASE CompAndEnqueue
      BY <2>4, <3>3 DEF CompAndEnqueue, DiscardOlder, Isolate, DuplicateSlot, FillPartial, FillMatched,
                 RejectExcess, InsertNew, InsertFails, Searching, AtComp
    <3>4. CASE \E m \in MetaInfos : HandleMetadata(m)
      BY <2>4, <3>4 DEF HandleMetadata
    <3>5. CASE SkipStep \/ SkipDone \/ ZslStart \/ ZslStop \/ ZslNone \/ DrainStep \/ DrainDone
      BY <2>4, <3>5 DEF SkipStep, SkipDone, ZslStart, ZslStop, ZslNone, AtZsl, DrainStep, DrainDone, history
    <3>6. CASE DispatchFails \/ DispatchDone
      BY <2>4, <3>6 DEF DispatchFails, DispatchDone
    <3> QED
      BY <2>5, <3>1, <3>2, <3>3, <3>4, <3>5, <3>6 DEF Next, CmdThread
  <2> QED
    BY <2>2, <2>3, <2>5
<1> QED
  BY <1>1, BufferInvariance, PTL DEF Spec, DispatchInOrder
=============================================================================
