----------------------------- MODULE MmSuperbuf -----------------------------
(***************************************************************************)
(* The superbuf queue of one channel and the threads around it: the poll   *)
(* threads that hand frames over, the control calls of the HAL, the        *)
(* command thread (CAM_SuperBufCB) that matches frames of several streams  *)
(* into superbufs and dispatches them, and the callback thread             *)
(* (CAM_SuperBuf).  Code: mm_camera_channel.c.                             *)
(*                                                                         *)
(* A buffer is a triple <<stream, frame index, copy>>: the driver should   *)
(* not hand out a number twice, but the code is prepared for it.  The      *)
(* fields of the records ch (mm_channel_t) and sq (mm_channel_queue_t)     *)
(* keep their names.                                                       *)
(***************************************************************************)
EXTENDS Naturals, Sequences, FiniteSets, SequencesExt

CONSTANTS
    Streams,            \* bundled_streams
    Meta, Snapshot,     \* the metadata and the snapshot stream, if bundled
    FirstFrame,         \* the index the driver numbers frames from: 0 or 1
    MaxFrame,           \* bound: last frame index of a session
    Repeats,            \* the <<stream, frame index>> the driver may use twice
    MaxSessions,        \* bound: number of mm_channel_start
    MaxCmds,            \* bound: length of the command queue
    Controls,           \* the control calls the HAL may make
    NotifyMode,         \* attr.notify_mode that the HAL configures
    WaterMark, LookBack, PostFrameSkip, MaxUnmatchedFrames, UserExpected,
    LowPriority,        \* attr.priority = MM_CAMERA_SUPER_BUF_PRIORITY_LOW
    SnapshotOnly,       \* ...nx549j.capture_snapshot_only_superbuf
    SkipUnmatchedHead,  \* ...nx549j.skip_unmatched_head
    FutureWait,         \* MM_CAMERA_MAX_FUTURE_FRAME_WAIT
    DivertWidth,        \* diverted_frame_id is stored modulo this
    MetaInfos,          \* what a metadata frame may carry
    AllocFails          \* whether malloc may fail

Frames == FirstFrame .. MaxFrame
Bufs == Streams \X Frames \X {1} \cup {<<r[1], r[2], 2>> : r \in Repeats}
NoBuf == <<>>

Prep == {"none", "done", "future"}
NoRange == [min |-> 0, max |-> 0, skip |-> 0]

(* What the HAL may ask for (mm_camera_cmdcb_t).                            *)
NotifyModes == {"burst", "continuous"}
Calls ==
    [type : {"REQ_DATA"}, num : Nat, retro : Nat]
    \cup [type : {"FLUSH_QUEUE"}, frame : Nat]
    \cup [type : {"START_ZSL", "STOP_ZSL"}]
    \cup [type : {"CONFIG_NOTIFY"}, mode : NotifyModes]
    \cup [type : {"GENERAL"}, kind : {"bracketing", "flash", "zoom1x"}, start : BOOLEAN]

ASSUME ConstAssumption ==
    /\ Streams # {} /\ IsFiniteSet(Streams)
    /\ FirstFrame \in {0, 1} /\ {MaxFrame, MaxSessions} \subseteq Nat
    /\ Repeats \subseteq Streams \X Frames
    /\ MaxCmds \in Nat /\ WaterMark \in Nat /\ LookBack \in Nat
    /\ PostFrameSkip \in Nat /\ MaxUnmatchedFrames \in Nat
    /\ UserExpected \in Nat /\ FutureWait \in Nat /\ DivertWidth \in Nat \ {0}
    /\ NotifyMode \in NotifyModes /\ Controls \subseteq Calls
    /\ {LowPriority, SnapshotOnly, SkipUnmatchedHead, AllocFails} \subseteq BOOLEAN
    /\ \A m \in MetaInfos :
           /\ m.prep \in Prep /\ m.divert \in Nat
           /\ m.range \in [min : Nat, max : Nat, skip : Nat]
           /\ {m.crop1x, m.settled} \subseteq BOOLEAN

(* Commands of the command thread (mm_camera_cmdcb_t).                      *)
Data(b) == [type |-> "DATA", buf |-> b]
Req(n, r) == [type |-> "REQ_DATA", num |-> n, retro |-> r]
FlushCmd(f) == [type |-> "FLUSH_QUEUE", frame |-> f]
Cmd(t) == [type |-> t]
Notify(m) == [type |-> "CONFIG_NOTIFY", mode |-> m]
General(k, s) == [type |-> "GENERAL", kind |-> k, start |-> s]
Cancel == Req(0, 0)

VARIABLES
    active,     \* bundle.is_active: the two threads run
    session,    \* number of starts so far
    caller,     \* where the control thread is in a flush or a stop
    cmdQ,       \* cmd_thread.cmd_queue
    pc, cur,    \* the command thread: position, the frame in its hands
    sq, ch,     \* mm_channel_queue_t and mm_channel_t
    cbQ,        \* cb_thread.cmd_queue: superbufs on their way to the HAL
    zslOn,      \* the daemon takes ZSL snapshots
    arrived,    \* history: the buffers of this session handed to the channel
    parted,     \* history: how often each was given back or called back
    lastSent    \* history: frame of the last superbuf dispatched

threads == <<active, session, caller>>
history == <<arrived, parted, lastSent>>
vars == <<threads, cmdQ, pc, cur, sq, ch, cbQ, zslOn, history>>

Node(f) == [frame_idx |-> f, slot |-> [s \in Streams |-> NoBuf],
            matched |-> FALSE, expected |-> FALSE, unmatched_meta_idx |-> 0]

BufsOf(n) == {n.slot[s] : s \in {t \in Streams : n.slot[t] # NoBuf}}
(* Operators named *Slip are plausible mistakes in the definition they      *)
(* precede; the runs show that the properties tell them from the code.      *)
BufsIn(ns) == UNION {BufsOf(ns[i]) : i \in DOMAIN ns}

(* mm_channel_qbuf for every buffer of B, or their delivery to the HAL.     *)
Part(B) == parted' = [b \in Bufs |-> parted[b] + IF b \in B THEN 1 ELSE 0]
PartTwice(B, C) ==
    parted' = [b \in Bufs |-> parted[b] + (IF b \in B THEN 1 ELSE 0)
                                        + (IF b \in C THEN 1 ELSE 0)]

RankedIn(S, i) == CHOOSE k \in S : Cardinality({j \in S : j <= k}) = i
Without(ns, R) ==       \* the sequence ns without the positions in R
    LET keep == DOMAIN ns \ R
    IN  [i \in 1 .. Cardinality(keep) |-> ns[RankedIn(keep, i)]]

NumMatched(ns) == Cardinality({i \in DOMAIN ns : ns[i].matched})

-----------------------------------------------------------------------------
(* Dequeueing (mm_channel_superbuf_dequeue_internal).  With matched_only it *)
(* looks at the head alone, after dropping unmatched heads if that property *)
(* is set.                                                                  *)
IsMatched(n) == n.matched
FirstMatched == SelectInSeq(sq.nodes, IsMatched)

Dropped ==
    IF SkipUnmatchedHead /\ sq.match_cnt > 0
    THEN SubSeq(sq.nodes, 1, IF FirstMatched = 0 THEN Len(sq.nodes)
                                                 ELSE FirstMatched - 1)
    ELSE <<>>
Rest == SubSeq(sq.nodes, Len(Dropped) + 1, Len(sq.nodes))
HeadMatched == Rest # <<>> /\ Head(Rest).matched

PoppedSlip == [sq EXCEPT !.nodes = Tail(Rest)]  \* match_cnt stays

Popped == [sq EXCEPT !.nodes = Tail(Rest), !.match_cnt = @ - 1]
Blocked == [sq EXCEPT !.nodes = Rest]

(* Drop matched superbufs from the head down to a limit; the body of the    *)
(* loops of mm_channel_superbuf_skip and mm_channel_superbuf_bufdone_overflow. *)
(* When the head is unmatched the code tries again, forever: no step here.  *)
OverLimit(limit) == sq.notify_mode = "burst" /\ sq.match_cnt > limit

DropMatched(limit) ==
    /\ OverLimit(limit)
    /\ IF HeadMatched
       THEN sq' = Popped /\ Part(BufsIn(Dropped) \cup BufsOf(Head(Rest)))
       ELSE Dropped # <<>> /\ sq' = Blocked /\ Part(BufsIn(Dropped))

(* mm_channel_superbuf_flush_matched: how many nodes leave.                 *)
FlushMatchedLen ==
    LET ns == sq.nodes
    IN  IF SkipUnmatchedHead
        THEN LET Gone(k) == NumMatched(SubSeq(ns, 1, k)) >= sq.match_cnt
             IN  IF \E k \in 0 .. Len(ns) : Gone(k)
                 THEN CHOOSE k \in 0 .. Len(ns) : Gone(k) /\ \A j \in 0 .. k - 1 : ~Gone(j)
                 ELSE Len(ns)
        ELSE LET Unmatched(n) == ~n.matched
                 i == SelectInSeq(ns, Unmatched)
             IN  IF i = 0 THEN Len(ns) ELSE i - 1

-----------------------------------------------------------------------------
InitSq ==
    [nodes |-> <<>>, match_cnt |-> 0, expected_frame_id |-> 0,
     good_frame_id |-> 0, expected_frame_id_without_led |-> 0,
     led_off_start_frame_id |-> 0, frame_skip_count |-> 0, once |-> FALSE,
     notify_mode |-> NotifyMode, user_expected_frame_id |-> UserExpected]

InitCh ==
    [pending_cnt |-> 0, pending_retro_cnt |-> 0,
     bWaitForPrepSnapshotDone |-> FALSE, unLockAEC |-> FALSE,
     stopZslSnapshot |-> FALSE, manualZSLSnapshot |-> FALSE,
     startZSlSnapshotCalled |-> FALSE, needLEDFlash |-> FALSE,
     bracketingState |-> "off", isFlashBracketingEnabled |-> FALSE,
     isZoom1xFrameRequested |-> FALSE, burstSnapNum |-> 0,
     diverted_frame_id |-> 0]

Init ==
    /\ active = FALSE /\ session = 0 /\ caller = "idle"
    /\ cmdQ = <<>> /\ cbQ = <<>> /\ pc = "off" /\ cur = NoBuf
    /\ sq = InitSq /\ ch = InitCh /\ zslOn = FALSE
    /\ arrived = {} /\ parted = [b \in Bufs |-> 0] /\ lastSent = 0

(* mm_channel_start: arm the queue, launch both threads, start the streams. *)
ChannelStart ==
    /\ ~active /\ caller = "idle" /\ session < MaxSessions
    /\ active' = TRUE /\ session' = session + 1
    /\ pc' = "wait" /\ cmdQ' = <<>> /\ cbQ' = <<>>
    /\ sq' = [sq EXCEPT !.nodes = <<>>, !.good_frame_id = 0,
                        !.expected_frame_id = sq.user_expected_frame_id,
                        !.expected_frame_id_without_led = 0,
                        !.led_off_start_frame_id = 0]
    /\ ch' = [ch EXCEPT !.bWaitForPrepSnapshotDone = FALSE]
    /\ arrived' = {} /\ parted' = [b \in Bufs |-> 0] /\ lastSent' = 0
    /\ UNCHANGED <<caller, cur, zslOn>>

(* A poll thread hands a frame to the channel (mm_stream_notify_channel).   *)
(* The driver numbers the frames of a stream in increasing order and may    *)
(* drop some.                                                               *)
Deliver(b) ==
    /\ active /\ caller \in {"idle", "flush"} /\ Len(cmdQ) < MaxCmds
    /\ \A a \in arrived : a[1] = b[1] => a[2] < b[2] \/ (a[2] = b[2] /\ a[3] < b[3])
    /\ arrived' = arrived \cup {b}
    /\ cmdQ' = Append(cmdQ, Data(b))
    /\ UNCHANGED <<threads, pc, cur, sq, ch, cbQ, zslOn, parted, lastSent>>

(* Request, cancel, notify mode, ZSL and general commands are queued; a     *)
(* flush is queued and waited for.  The calls hold ch_lock.                 *)
ControlCall(c) ==
    /\ active /\ caller = "idle" /\ Len(cmdQ) < MaxCmds
    /\ cmdQ' = Append(cmdQ, c)
    /\ caller' = IF c.type = "FLUSH_QUEUE" THEN "flush" ELSE "idle"
    /\ UNCHANGED <<active, session, pc, cur, sq, ch, cbQ, zslOn, history>>

(* mm_channel_stop: the streams are stopped and unlinked, the queue is      *)
(* flushed, the command thread and then the callback thread are joined, and *)
(* the queue is emptied without giving anything back.                       *)
StopFlush ==
    /\ active /\ caller = "idle"
    /\ cmdQ' = Append(cmdQ, FlushCmd(0)) /\ caller' = "stop flush"
    /\ UNCHANGED <<active, session, pc, cur, sq, ch, cbQ, zslOn, history>>

StopExit ==
    /\ caller = "stop exit"
    /\ cmdQ' = Append(cmdQ, Cmd("EXIT")) /\ caller' = "stop join"
    /\ UNCHANGED <<active, session, pc, cur, sq, ch, cbQ, zslOn, history>>

StopDeinit ==
    /\ caller = "stop join" /\ pc = "off" /\ cbQ = <<>>
    /\ active' = FALSE /\ caller' = "idle"
    /\ sq' = [sq EXCEPT !.nodes = <<>>, !.expected_frame_id = 0,
                        !.good_frame_id = 0, !.match_cnt = 0]
    /\ UNCHANGED <<session, cmdQ, pc, cur, ch, cbQ, zslOn, history>>

-----------------------------------------------------------------------------
(* The command thread takes the next command.                               *)
Take(t) ==
    /\ pc = "wait" /\ cmdQ # <<>> /\ Head(cmdQ).type = t
    /\ cmdQ' = Tail(cmdQ)

(* comp_and_enqueue begins: frame 0 goes straight back.                     *)
TakeData ==
    /\ Take("DATA")
    /\ LET b == Head(cmdQ).buf
       IN  IF b[2] = 0
           THEN pc' = "zsl" /\ Part({b}) /\ UNCHANGED cur
           ELSE /\ pc' = IF b[1] = Meta THEN "meta" ELSE "comp"
                /\ cur' = b /\ UNCHANGED parted
    /\ UNCHANGED <<threads, sq, ch, cbQ, zslOn, arrived, lastSent>>

TakeRequestSlip ==      \* the retro count is not limited to the count
    /\ Take("REQ_DATA")
    /\ ch' = [ch EXCEPT !.pending_cnt = Head(cmdQ).num,
                        !.pending_retro_cnt = Head(cmdQ).retro,
                        !.bWaitForPrepSnapshotDone = FALSE,
                        !.needLEDFlash = @ /\ Head(cmdQ).retro = 0,
                        !.stopZslSnapshot = FALSE, !.unLockAEC = FALSE]
    /\ pc' = "skip"
    /\ UNCHANGED <<threads, cur, sq, cbQ, zslOn, history>>

TakeRequest ==
    /\ Take("REQ_DATA")
    /\ LET n == Head(cmdQ).num
           r == IF Head(cmdQ).retro > n \/ n = 0 THEN n ELSE Head(cmdQ).retro
       IN  ch' = [ch EXCEPT !.pending_cnt = n, !.pending_retro_cnt = r,
                            !.bWaitForPrepSnapshotDone = FALSE,
                            !.needLEDFlash = @ /\ r = 0,
                            !.stopZslSnapshot = FALSE, !.unLockAEC = FALSE]
    /\ pc' = "skip"
    /\ UNCHANGED <<threads, cur, sq, cbQ, zslOn, history>>

SkipStep ==
    /\ pc = "skip" /\ DropMatched(LookBack)
    /\ UNCHANGED <<threads, cmdQ, pc, cur, ch, cbQ, zslOn, arrived, lastSent>>

SkipDone ==
    /\ pc = "skip" /\ ~OverLimit(LookBack)
    /\ pc' = "zsl"
    /\ UNCHANGED <<threads, cmdQ, cur, sq, ch, cbQ, zslOn, history>>

TakeStartZsl ==
    /\ Take("START_ZSL") /\ pc' = "zsl"
    /\ ch' = [ch EXCEPT !.manualZSLSnapshot = TRUE] /\ zslOn' = TRUE
    /\ UNCHANGED <<threads, cur, sq, cbQ, history>>

TakeStopZsl ==
    /\ Take("STOP_ZSL") /\ pc' = "zsl"
    /\ ch' = [ch EXCEPT !.manualZSLSnapshot = FALSE] /\ zslOn' = FALSE
    /\ UNCHANGED <<threads, cur, sq, cbQ, history>>

TakeNotify ==
    /\ Take("CONFIG_NOTIFY") /\ pc' = "zsl"
    /\ sq' = [sq EXCEPT !.notify_mode = Head(cmdQ).mode]
    /\ UNCHANGED <<threads, cur, ch, cbQ, zslOn, history>>

(* mm_channel_superbuf_flush of everything: dequeues without matched_only.  *)
FlushAll == [sq EXCEPT !.nodes = <<>>,
                       !.match_cnt = @ - NumMatched(sq.nodes)]

(* The flush returns to its caller at once: no overflow, no dispatch.       *)
TakeFlushSlip ==        \* the waiting caller is not woken
    /\ Take("FLUSH_QUEUE") /\ pc' = "zsl"
    /\ sq' = [FlushAll EXCEPT !.expected_frame_id = Head(cmdQ).frame]
    /\ Part(BufsIn(sq.nodes))
    /\ UNCHANGED <<threads, cur, ch, cbQ, zslOn, arrived, lastSent>>

TakeFlush ==
    /\ Take("FLUSH_QUEUE") /\ UNCHANGED pc
    /\ sq' = [FlushAll EXCEPT !.expected_frame_id = Head(cmdQ).frame]
    /\ Part(BufsIn(sq.nodes))
    /\ caller' = IF caller = "flush" THEN "idle" ELSE "stop exit"
    /\ UNCHANGED <<active, session, cur, ch, cbQ, zslOn, arrived, lastSent>>

TakeGeneral ==
    /\ Take("GENERAL") /\ pc' = "zsl"
    /\ sq' = FlushAll /\ Part(BufsIn(sq.nodes))
    /\ LET start == Head(cmdQ).start
       IN  ch' = CASE Head(cmdQ).kind = "bracketing" ->
                        [ch EXCEPT !.bracketingState =
                                        IF start THEN "wait" ELSE "off"]
                   [] Head(cmdQ).kind = "flash" ->
                        [ch EXCEPT !.isFlashBracketingEnabled = start]
                   [] Head(cmdQ).kind = "zoom1x" ->
                        [ch EXCEPT !.isZoom1xFrameRequested = start]
    /\ UNCHANGED <<threads, cur, cbQ, zslOn, arrived, lastSent>>

TakeExit ==
    /\ Take("EXIT") /\ pc' = "off"
    /\ UNCHANGED <<threads, cur, sq, ch, cbQ, zslOn, history>>

-----------------------------------------------------------------------------
(* mm_channel_handle_metadata for the metadata frame in hand, whose content *)
(* m the daemon chose.                                                      *)
HasRange(m) == m.range # NoRange

Diverted(m) ==      \* an eight-bit field
    IF m.divert = 0 THEN ch.diverted_frame_id
    ELSE IF m.divert >= cur[2] THEN m.divert % DivertWidth ELSE 0

(* While a zoom-1x frame is wanted nothing else in the metadata counts.     *)
MetaZoom(m) ==
    /\ ch.isZoom1xFrameRequested
    /\ ch' = [ch EXCEPT !.isZoom1xFrameRequested = ~m.crop1x,
                        !.diverted_frame_id = Diverted(m)]
    /\ IF m.crop1x
       THEN /\ sq' = [sq EXCEPT !.expected_frame_id = cur[2] + 1]
            /\ UNCHANGED parted
       ELSE LET k == FlushMatchedLen
                gone == SubSeq(sq.nodes, 1, k)
            IN  /\ sq' = [sq EXCEPT !.expected_frame_id = @ + FutureWait,
                                    !.nodes = SubSeq(@, k + 1, Len(@)),
                                    !.match_cnt = @ - NumMatched(gone)]
                /\ Part(BufsIn(gone))

(* The state of the LED after this frame, before the burst rule.            *)
LedAfterPrep(m) == m.prep = "future" \/ (m.prep = "none" /\ ch.needLEDFlash)

BracketingAfter(m) ==
    IF HasRange(m) /\ ~ch.isFlashBracketingEnabled
    THEN "active" ELSE ch.bracketingState

(* Which nodes leave: all of them before a main flash, the matched ones     *)
(* while bracketing waits for its first good frame.                         *)
MetaFlushLen(m) ==
    IF m.prep = "future" THEN Len(sq.nodes)
    ELSE IF ch.bracketingState = "wait" /\ m.prep = "none" /\ ~HasRange(m)
         THEN FlushMatchedLen ELSE 0

WithRange(q, m) ==      \* the good_frame_idx_range of m put into the queue q
    IF ~HasRange(m) THEN q
    ELSE LET led == LedAfterPrep(m) /\ ch.burstSnapNum > 1
         IN  [q EXCEPT !.expected_frame_id = m.range.min,
                       !.good_frame_id = m.range.min,
                       !.led_off_start_frame_id = IF led THEN m.range.max ELSE @,
                       !.frame_skip_count = IF led THEN m.range.skip ELSE @,
                       !.once = @ /\ ~led,
                       !.expected_frame_id_without_led =
                            IF ch.isFlashBracketingEnabled THEN m.range.max ELSE @]

(* The flash burst is over at this frame.                                   *)
LedBurstEnds(q, m) ==
    /\ ch.burstSnapNum > 1 /\ LedAfterPrep(m)
    /\ ~ch.isFlashBracketingEnabled /\ BracketingAfter(m) = "off"
    /\ cur[2] >= q.led_off_start_frame_id /\ ~q.once

WithBurstEnd(q, m) ==
    IF LedBurstEnds(q, m)
    THEN [q EXCEPT !.expected_frame_id = q.led_off_start_frame_id + q.frame_skip_count,
                   !.once = TRUE]
    ELSE q

WithUserExpected(q, m) ==       \* instant capture
    IF q.user_expected_frame_id > cur[2]
    THEN IF m.settled THEN [q EXCEPT !.expected_frame_id = cur[2],
                                     !.user_expected_frame_id = 0] ELSE q
    ELSE [q EXCEPT !.user_expected_frame_id = 0]

MetaCapture(m) ==
    /\ ~ch.isZoom1xFrameRequested
    /\ LET k    == MetaFlushLen(m)
           gone == SubSeq(sq.nodes, 1, k)
           wait == m.prep = "future"
                   \/ (ch.bracketingState = "wait" /\ m.prep = "none" /\ ~HasRange(m))
           q0   == [sq EXCEPT !.nodes = SubSeq(@, k + 1, Len(@)),
                              !.match_cnt = @ - NumMatched(gone),
                              !.expected_frame_id = IF wait THEN @ + FutureWait ELSE @]
           q1   == WithRange(q0, m)
       IN  /\ sq' = WithUserExpected(WithBurstEnd(q1, m), m)
           /\ ch' = [ch EXCEPT
                  !.diverted_frame_id = Diverted(m),
                  !.bWaitForPrepSnapshotDone = @ /\ m.prep = "none",
                  !.needLEDFlash = LedAfterPrep(m) /\ ~LedBurstEnds(q1, m),
                  !.stopZslSnapshot = @ \/ LedBurstEnds(q1, m),
                  !.bracketingState = BracketingAfter(m)]
           /\ Part(BufsIn(gone))

HandleMetadata(m) ==
    /\ pc = "meta" /\ pc' = "comp"
    /\ MetaZoom(m) \/ MetaCapture(m)
    /\ UNCHANGED <<threads, cmdQ, cur, cbQ, zslOn, arrived, lastSent>>

-----------------------------------------------------------------------------
(* The rest of mm_channel_superbuf_comp_and_enqueue for the frame in hand:  *)
(* one action per way out.                                                  *)
Older ==        \* with mm_channel_validate_super_buf
    /\ cur[2] < sq.expected_frame_id
    /\ \A i \in DOMAIN sq.nodes :
           ~(sq.nodes[i].expected /\ sq.nodes[i].frame_idx = cur[2])

Isolated == cur[1] = Snapshot /\ SnapshotOnly /\ Cardinality(Streams) > 1

AcceptsSlip(n) ==       \* takes the next superbuf that waits for this stream
    ~n.matched /\ n.frame_idx >= cur[2] /\ n.slot[cur[1]] = NoBuf

Accepts(n) ==
    LET s == cur[1]
        f == cur[2]
    IN  /\ ~n.matched
        /\ \/ n.frame_idx = f
           \/ /\ LowPriority /\ n.slot[s] = NoBuf
              /\ IF s = Meta THEN n.frame_idx < f ELSE n.unmatched_meta_idx > f

Found == SelectInSeq(sq.nodes, Accepts)
ScanEnd == IF Found = 0 THEN Len(sq.nodes) ELSE Found - 1

IsOlderUnmatched(n) == ~n.matched /\ n.frame_idx < cur[2]
IsNewerUnmatched(n) == ~n.matched /\ n.frame_idx > cur[2]
LastBuf == SelectInSubSeq(sq.nodes, 1, ScanEnd, IsOlderUnmatched)
InsertBefore == SelectInSubSeq(sq.nodes, 1, ScanEnd, IsNewerUnmatched)
UnmatchedBundles == Len(sq.nodes) - NumMatched(sq.nodes)

AtComp ==
    /\ pc = "comp" /\ pc' = "zsl" /\ cur' = NoBuf
    /\ UNCHANGED <<threads, cmdQ, cbQ, zslOn, arrived, lastSent>>

DiscardOlder == AtComp /\ Older /\ Part({cur}) /\ UNCHANGED <<sq, ch>>

(* A snapshot frame makes a superbuf by itself, at the tail.                *)
Isolate ==
    /\ AtComp /\ ~Older /\ Isolated
    /\ sq' = [sq EXCEPT
            !.nodes = Append(@, [Node(cur[2]) EXCEPT !.slot[cur[1]] = cur,
                                                     !.matched = TRUE]),
            !.match_cnt = @ + 1,
            !.expected_frame_id = cur[2] + PostFrameSkip]
    /\ UNCHANGED <<ch, parted>>

Searching == AtComp /\ ~Older /\ (Isolated => AllocFails)

(* The slot of this stream is taken: the frame goes back.                   *)
DuplicateSlotSlip ==    \* the duplicate is not given back
    /\ Searching /\ Found # 0 /\ sq.nodes[Found].slot[cur[1]] # NoBuf
    /\ UNCHANGED <<sq, parted, ch>>

DuplicateSlot ==
    /\ Searching /\ Found # 0 /\ sq.nodes[Found].slot[cur[1]] # NoBuf
    /\ sq' = [sq EXCEPT !.nodes[Found].unmatched_meta_idx = 0,
                        !.nodes[Found].frame_idx =
                            IF sq.nodes[Found].unmatched_meta_idx > 0 THEN cur[2] ELSE @]
    /\ Part({cur}) /\ UNCHANGED ch

(* The frame fills a slot.  A 'meta only' superbuf takes its frame index.   *)
Filled ==
    LET n == sq.nodes[Found]
    IN  [n EXCEPT !.slot[cur[1]] = cur, !.unmatched_meta_idx = 0,
                  !.frame_idx = IF n.unmatched_meta_idx > 0 THEN cur[2] ELSE @]
Completes == \A s \in Streams : Filled.slot[s] # NoBuf

FillPartial ==
    /\ Searching /\ Found # 0 /\ sq.nodes[Found].slot[cur[1]] = NoBuf /\ ~Completes
    /\ LET kept == ch.diverted_frame_id = cur[2]
       IN  /\ sq' = [sq EXCEPT !.nodes[Found] =
                        [Filled EXCEPT !.expected = @ \/ kept]]
           /\ ch' = [ch EXCEPT !.diverted_frame_id = IF kept THEN 0 ELSE @]
    /\ UNCHANGED parted

(* The last slot: the superbuf is matched, and everything from the first    *)
(* older unmatched one up to it is released.                                *)
FillMatchedSlip ==      \* older unmatched superbufs stay
    /\ Searching /\ Found # 0 /\ sq.nodes[Found].slot[cur[1]] = NoBuf /\ Completes
    /\ sq' = [sq EXCEPT
            !.nodes[Found] = [Filled EXCEPT !.matched = TRUE, !.expected = FALSE],
            !.match_cnt = @ + 1, !.expected_frame_id = cur[2] + PostFrameSkip]
    /\ UNCHANGED <<parted, ch>>

FillMatchedFirstSlip ==     \* the new superbuf goes to the head
    /\ Searching /\ Found # 0 /\ sq.nodes[Found].slot[cur[1]] = NoBuf /\ Completes
    /\ sq' = [sq EXCEPT
            !.nodes = <<[Filled EXCEPT !.matched = TRUE, !.expected = FALSE]>>
                      \o Without(@, {Found}),
            !.match_cnt = @ + 1, !.expected_frame_id = cur[2] + PostFrameSkip]
    /\ UNCHANGED <<parted, ch>>

FillMatched ==
    /\ Searching /\ Found # 0 /\ sq.nodes[Found].slot[cur[1]] = NoBuf /\ Completes
    /\ LET from  == IF LastBuf = 0 THEN Found ELSE LastBuf
           ns    == sq.nodes
           flash == ch.isFlashBracketingEnabled
       IN  /\ sq' = [sq EXCEPT
                !.nodes = SubSeq(ns, 1, from - 1)
                          \o <<[Filled EXCEPT !.matched = TRUE, !.expected = FALSE]>>
                          \o SubSeq(ns, Found + 1, Len(ns)),
                !.match_cnt = @ + 1,
                !.expected_frame_id = IF flash THEN sq.expected_frame_id_without_led
                                               ELSE cur[2] + PostFrameSkip]
           /\ ch' = [ch EXCEPT !.isFlashBracketingEnabled =
                        @ /\ cur[2] < sq.expected_frame_id_without_led]
           /\ Part(BufsIn(SubSeq(ns, from, Found - 1)))

(* Too many unmatched superbufs, and the frame is older than all of them.   *)
RejectExcessSlip ==     \* the frame is not given back
    /\ Searching /\ Found = 0
    /\ MaxUnmatchedFrames < UnmatchedBundles /\ LastBuf = 0
    /\ UNCHANGED <<sq, ch, parted>>

RejectExcess ==
    /\ Searching /\ Found = 0
    /\ MaxUnmatchedFrames < UnmatchedBundles /\ LastBuf = 0
    /\ Part({cur}) /\ UNCHANGED <<sq, ch>>

(* Make room from the first older superbuf on, sparing expected ones and    *)
(* the one to insert before; if that did not help, drop the first.          *)
Excess == IF UnmatchedBundles > MaxUnmatchedFrames
          THEN UnmatchedBundles - MaxUnmatchedFrames ELSE 0
Evictable == {j \in LastBuf .. Len(sq.nodes) :
                  ~sq.nodes[j].expected /\ j # InsertBefore}
Evicted == IF LastBuf = 0 THEN {}
           ELSE {j \in Evictable : Cardinality({i \in Evictable : i < j}) < Excess}
Forced == IF Cardinality(Evicted) < Excess THEN {LastBuf} ELSE {}

Inserted ==
    LET ns   == sq.nodes
        p    == IF InsertBefore = 0 THEN Len(ns) + 1 ELSE InsertBefore
        gone == Evicted \cup Forced
        good == ch.diverted_frame_id = cur[2] \/ cur[2] = sq.good_frame_id
        only == Cardinality(Streams) = 1
        new  == [Node(cur[2]) EXCEPT
                    !.slot[cur[1]] = cur, !.matched = only,
                    !.expected = good /\ ~only,
                    !.unmatched_meta_idx =
                        IF LowPriority /\ cur[1] = Meta THEN cur[2] ELSE 0]
        left == Without(SubSeq(ns, 1, p - 1), gone)
        right == Without(SubSeq(ns, p, Len(ns)), {j - p + 1 : j \in {i \in gone : i >= p}})
    IN  [sq EXCEPT !.nodes = left \o <<new>> \o right,
                   !.match_cnt = IF only THEN @ + 1 ELSE @,
                   !.expected_frame_id = IF only THEN cur[2] + PostFrameSkip ELSE @]

EvictedBufs(S) == UNION {BufsOf(sq.nodes[j]) : j \in S}

InsertNew ==
    /\ Searching /\ Found = 0
    /\ ~(MaxUnmatchedFrames < UnmatchedBundles /\ LastBuf = 0)
    /\ sq' = Inserted
    /\ PartTwice(EvictedBufs(Evicted), EvictedBufs(Forced))
    /\ ch' = [ch EXCEPT !.diverted_frame_id =
                IF @ = cur[2] \/ cur[2] = sq.good_frame_id THEN 0 ELSE @]

(* malloc failed: room was made, but the frame goes back.                   *)
InsertFailsSlip ==      \* the frame is not given back
    /\ AllocFails
    /\ Searching /\ Found = 0
    /\ ~(MaxUnmatchedFrames < UnmatchedBundles /\ LastBuf = 0)
    /\ sq' = [sq EXCEPT !.nodes = Without(@, Evicted \cup Forced)]
    /\ PartTwice(EvictedBufs(Evicted), EvictedBufs(Forced))
    /\ UNCHANGED ch

InsertFails ==
    /\ AllocFails
    /\ Searching /\ Found = 0
    /\ ~(MaxUnmatchedFrames < UnmatchedBundles /\ LastBuf = 0)
    /\ sq' = [sq EXCEPT !.nodes = Without(@, Evicted \cup Forced)]
    /\ PartTwice(EvictedBufs(Evicted) \cup {cur}, EvictedBufs(Forced))
    /\ UNCHANGED ch

CompAndEnqueue ==
    \/ DiscardOlder \/ Isolate \/ DuplicateSlot \/ FillPartial \/ FillMatched
    \/ RejectExcess \/ InsertNew \/ InsertFails

-----------------------------------------------------------------------------
(* After every command but a flush: start or stop the ZSL snapshot ...      *)
ZslStarts ==
    /\ ch.pending_cnt > 0
    /\ ch.needLEDFlash \/ ch.bracketingState # "off"
    /\ ~ch.manualZSLSnapshot /\ ~ch.startZSlSnapshotCalled

ZslStopsSlip(c) ==      \* a cancelled picture does not stop it
    c.stopZslSnapshot /\ ~c.manualZSLSnapshot /\ c.startZSlSnapshotCalled

ZslStops(c) ==
    /\ c.pending_cnt = 0 \/ c.stopZslSnapshot
    /\ ~c.manualZSLSnapshot /\ c.startZSlSnapshotCalled

StoppedZsl(c) ==
    [c EXCEPT !.startZSlSnapshotCalled = FALSE, !.needLEDFlash = FALSE,
              !.burstSnapNum = 0, !.stopZslSnapshot = FALSE,
              !.unLockAEC = TRUE, !.bracketingState = "off"]

AtZsl == /\ pc = "zsl" /\ pc' = "drain"
         /\ UNCHANGED <<threads, cmdQ, cur, sq, cbQ, history>>

ZslStart ==
    /\ AtZsl /\ ZslStarts
    /\ ch' = [ch EXCEPT !.startZSlSnapshotCalled = TRUE,
                        !.burstSnapNum = ch.pending_cnt,
                        !.bWaitForPrepSnapshotDone = FALSE]
    /\ zslOn' = TRUE

ZslStop ==
    /\ AtZsl /\ ~ZslStarts /\ ZslStops(ch)
    /\ ch' = [StoppedZsl(ch) EXCEPT !.bWaitForPrepSnapshotDone = FALSE]
    /\ zslOn' = FALSE

ZslNone == AtZsl /\ ~ZslStarts /\ ~ZslStops(ch) /\ UNCHANGED <<ch, zslOn>>

(* ... give back what exceeds the water mark ...                            *)
DrainStep ==
    /\ pc = "drain" /\ DropMatched(WaterMark)
    /\ UNCHANGED <<threads, cmdQ, pc, cur, ch, cbQ, zslOn, arrived, lastSent>>

DrainDoneSlip ==        \* no dispatch after a frame
    /\ pc = "drain" /\ ~OverLimit(WaterMark)
    /\ pc' = "wait"
    /\ UNCHANGED <<threads, cmdQ, cur, sq, ch, cbQ, zslOn, history>>

DrainDone ==
    /\ pc = "drain" /\ ~OverLimit(WaterMark)
    /\ pc' = "loop"
    /\ UNCHANGED <<threads, cmdQ, cur, sq, ch, cbQ, zslOn, history>>

(* ... and dispatch superbufs while they are asked for.                     *)
Wanted == /\ ch.pending_cnt > 0 \/ sq.notify_mode = "continuous"
          /\ ~ch.bWaitForPrepSnapshotDone

CountedSlip ==          \* the retro count is not kept at zero
    LET c == [ch EXCEPT
                !.pending_cnt = @ - 1, !.pending_retro_cnt = @ - 1,
                !.bWaitForPrepSnapshotDone = @ \/ ch.pending_retro_cnt = 1]
    IN  IF sq.notify_mode = "continuous" THEN ch
        ELSE IF ZslStops(c) THEN StoppedZsl(c) ELSE c

Counted ==      \* the bookkeeping of one dispatched superbuf
    LET c == [ch EXCEPT
                !.pending_cnt = @ - 1,
                !.pending_retro_cnt = IF @ > 0 THEN @ - 1 ELSE 0,
                !.bWaitForPrepSnapshotDone = @ \/ ch.pending_retro_cnt = 1]
    IN  IF sq.notify_mode = "continuous" THEN ch
        ELSE IF ZslStops(c) THEN StoppedZsl(c) ELSE c

LastOne == ch.startZSlSnapshotCalled /\ ~Counted.startZSlSnapshotCalled

Dispatch ==
    /\ pc = "loop" /\ Wanted /\ HeadMatched
    /\ sq' = Popped
    /\ ch' = [Counted EXCEPT !.unLockAEC = FALSE]
    /\ zslOn' = (zslOn /\ ~LastOne)
    /\ cbQ' = Append(cbQ, [frame |-> Head(Rest).frame_idx, slot |-> Head(Rest).slot,
                           ready |-> Counted.bWaitForPrepSnapshotDone,
                           unlock |-> Counted.unLockAEC])
    /\ Part(BufsIn(Dropped)) /\ lastSent' = Head(Rest).frame_idx
    /\ UNCHANGED <<threads, cmdQ, pc, cur, arrived>>

(* No memory for the callback: the superbuf goes back, but was counted.     *)
DispatchFails ==
    /\ AllocFails
    /\ pc = "loop" /\ Wanted /\ HeadMatched
    /\ sq' = Popped /\ ch' = Counted
    /\ zslOn' = (zslOn /\ ~LastOne)
    /\ Part(BufsIn(Dropped) \cup BufsOf(Head(Rest)))
    /\ UNCHANGED <<threads, cmdQ, pc, cur, cbQ, arrived, lastSent>>

DispatchDone ==
    /\ pc = "loop" /\ ~(Wanted /\ HeadMatched)
    /\ pc' = "wait"
    /\ IF Wanted THEN sq' = Blocked /\ Part(BufsIn(Dropped))
                 ELSE UNCHANGED <<sq, parted>>
    /\ UNCHANGED <<threads, cmdQ, cur, ch, cbQ, zslOn, arrived, lastSent>>

(* The callback thread (mm_channel_dispatch_super_buf).                     *)
Callback ==
    /\ cbQ # <<>> /\ cbQ' = Tail(cbQ)
    /\ Part(BufsOf(Head(cbQ)))
    /\ UNCHANGED <<threads, cmdQ, pc, cur, sq, ch, zslOn, arrived, lastSent>>

-----------------------------------------------------------------------------
TakeCmd ==
    \/ TakeData \/ TakeRequest \/ TakeStartZsl \/ TakeStopZsl \/ TakeNotify
    \/ TakeFlush \/ TakeGeneral \/ TakeExit

CmdThread ==
    \/ TakeCmd \/ CompAndEnqueue
    \/ \E m \in MetaInfos : HandleMetadata(m)
    \/ SkipStep \/ SkipDone \/ ZslStart \/ ZslStop \/ ZslNone
    \/ DrainStep \/ DrainDone \/ Dispatch \/ DispatchFails \/ DispatchDone

Stop == StopFlush \/ StopExit \/ StopDeinit

Next ==
    \/ ChannelStart \/ Stop
    \/ \E c \in Controls : ControlCall(c)
    \/ \E b \in Bufs : Deliver(b)
    \/ CmdThread \/ Callback

Spec == Init /\ [][Next]_vars

(* The two threads keep running, and a stop that has begun is carried on.   *)
Fairness ==
    /\ WF_vars(CmdThread) /\ WF_vars(Callback)
    /\ WF_vars(StopExit \/ StopDeinit)

FairSpec == Spec /\ Fairness

-----------------------------------------------------------------------------
(* The variables have their types.                                          *)
NodeType == [frame_idx : Frames, slot : [Streams -> Bufs \cup {NoBuf}],
             matched : BOOLEAN, expected : BOOLEAN, unmatched_meta_idx : Nat]

TypeOK ==
    /\ active \in BOOLEAN /\ session \in 0 .. MaxSessions
    /\ caller \in {"idle", "flush", "stop flush", "stop exit", "stop join"}
    /\ pc \in {"off", "wait", "meta", "comp", "skip", "zsl", "drain", "loop"}
    /\ cur \in Bufs \cup {NoBuf}
    /\ \A i \in DOMAIN sq.nodes : sq.nodes[i] \in NodeType
    /\ {sq.match_cnt, sq.expected_frame_id, sq.good_frame_id, sq.frame_skip_count,
        sq.expected_frame_id_without_led, sq.led_off_start_frame_id,
        sq.user_expected_frame_id} \subseteq Nat
    /\ {ch.pending_cnt, ch.pending_retro_cnt, ch.burstSnapNum,
        ch.diverted_frame_id} \subseteq Nat
    /\ {sq.once, ch.bWaitForPrepSnapshotDone, ch.unLockAEC, ch.stopZslSnapshot,
        ch.manualZSLSnapshot, ch.startZSlSnapshotCalled, ch.needLEDFlash,
        ch.isFlashBracketingEnabled, ch.isZoom1xFrameRequested, zslOn} \subseteq BOOLEAN
    /\ ch.bracketingState \in {"off", "wait", "active"}
    /\ sq.notify_mode \in NotifyModes
    /\ arrived \subseteq Bufs /\ parted \in [Bufs -> Nat]

-----------------------------------------------------------------------------
(* Correctness.                                                             *)

(* Every buffer handed to the channel is in exactly one place: the command  *)
(* queue, the hands of the command thread, one slot of one superbuf, the    *)
(* callback queue; or it was given back, or called back, exactly once.      *)
(* After a stop only the last is left: no way out of comp_and_enqueue, no   *)
(* eviction, overflow, flush or dispatch loses or duplicates a buffer.      *)
Places(b) ==
    Cardinality({i \in DOMAIN cmdQ : cmdQ[i].type = "DATA" /\ cmdQ[i].buf = b})
    + (IF cur = b THEN 1 ELSE 0)
    + Cardinality({i \in DOMAIN sq.nodes : b \in BufsOf(sq.nodes[i])})
    + Cardinality({i \in DOMAIN cbQ : b \in BufsOf(cbQ[i])})

BuffersConserved ==
    \A b \in Bufs :
        Places(b) + parted[b] = IF b \in arrived THEN 1 ELSE 0

(* match_cnt is the number of matched superbufs, they come first, all are  *)
(* in the order of their frames however late the frames of one stream are   *)
(* (as long as no stream uses a frame number twice), and no more unmatched  *)
(* ones stay than the attribute says, and one.  The                         *)
(* search for the place to insert and for what to release, dequeueing at    *)
(* the head and the loop that ends when match_cnt is small rely on it.      *)
QueueShape ==
    /\ sq.match_cnt = NumMatched(sq.nodes)
    /\ \A i, j \in DOMAIN sq.nodes : i < j =>
           /\ sq.nodes[j].matched => sq.nodes[i].matched
           /\ sq.nodes[i].frame_idx < sq.nodes[j].frame_idx
    /\ UnmatchedBundles <= MaxUnmatchedFrames + 1

(* What the HAL is given belongs together: a buffer of every stream, all of *)
(* the frame of the superbuf; in a low-priority queue the metadata alone    *)
(* may come from a later frame.                                             *)
SuperbufsAgree ==
    \A i \in DOMAIN cbQ : \A s \in Streams :
        LET b == cbQ[i].slot[s]
        IN  /\ b # NoBuf
            /\ \/ b[2] = cbQ[i].frame
               \/ LowPriority /\ s = Meta /\ b[2] > cbQ[i].frame

(* The superbufs of a session are dispatched in the order of their frames,  *)
(* whatever flushes, expected frames and evictions happen in between.       *)
DispatchInOrder ==
    [][session' = session => lastSent' >= lastSent]_vars

(* The daemon takes no ZSL snapshots once no picture is asked for, unless   *)
(* the HAL turned them on itself; and the flag that says so agrees.         *)
ZslOffWhenIdle ==
    /\ pc = "wait" /\ ch.pending_cnt = 0 /\ ~ch.manualZSLSnapshot =>
           ~zslOn /\ ~ch.startZSlSnapshotCalled
    /\ ch.stopZslSnapshot => ch.startZSlSnapshotCalled

(* The pictures from the past are among those asked for, and once they are  *)
(* out the next one waits for a prepared snapshot: nothing that was asked   *)
(* for after them is dispatched in between.                                 *)
RetroFirst ==
    /\ ch.pending_retro_cnt <= ch.pending_cnt
    /\ ch.bWaitForPrepSnapshotDone => ch.pending_retro_cnt = 0

(* A call that waits for the command thread to flush gets on: the caller   *)
(* returns, the stop ends.                                                  *)
FlushReturns == caller \in {"flush", "stop flush"} ~> caller = "idle"

(* The queue does not stay above the water mark (burst mode).               *)
WaterMarkKept == OverLimit(WaterMark) ~> ~OverLimit(WaterMark)

(* A matched superbuf that is asked for is dispatched, unless the request   *)
(* is withdrawn, the queue flushed, or the channel told to wait.            *)
MatchedIsDispatched ==
    \A f \in Frames \ {0} :
        (\E i \in DOMAIN sq.nodes : sq.nodes[i].matched /\ sq.nodes[i].frame_idx = f)
            /\ Wanted
        ~> (\A i \in DOMAIN sq.nodes : ~(sq.nodes[i].matched /\ sq.nodes[i].frame_idx = f))
            \/ ~Wanted
=============================================================================
