------------------------------- MODULE MmStream -------------------------------
(***************************************************************************)
(* One stream object of the mm-camera-interface (mm_camera_stream.c) with  *)
(* the threads that share it:                                              *)
(*   - the control thread, which runs the GET_BUF ... PUT_BUF events of    *)
(*     mm_channel_start / mm_channel_stop under ch_lock;                   *)
(*   - the poll thread of the channel (mm_camera_thread.c), which runs     *)
(*     mm_stream_data_notify for every filled frame;                       *)
(*   - the stream's command thread, which calls the asynchronous data      *)
(*     callback (mm_stream_dispatch_app_data);                             *)
(*   - worker threads of the consumers (superbuf queues of this and of a   *)
(*     linked channel, the HAL), which give frames back with QBUF;         *)
(*   - the thread that maps buffers to the daemon;                         *)
(*   - the V4L2 driver (external), seen through its ioctls.                *)
(*                                                                         *)
(* One action is one critical section of buf_lock, cb_lock or cmd_lock,    *)
(* one ioctl, or one unlocked access to shared state.                      *)
(***************************************************************************)
EXTENDS Integers, Sequences, FiniteSets

CONSTANTS
    NumBufs,      \* buf_num
    Workers,      \* threads of the consumers that call mm_stream_buf_done
    Bundled,      \* is_bundled, fixed by mm_channel_start
    Linkable,     \* whether another channel may link this stream
    HasCb,        \* an ASYNC callback is registered (stream_cb # NULL)
    Preloaded,    \* the buffers with initial_reg_flag set
    Faults,       \* which external calls may fail
    MaxSessions   \* bound: how often the channel is started

Bufs == 1 .. NumBufs

(* The external calls that can fail. *)
FaultKinds == {"acquire", "get_bufs", "reqbufs", "reg_qbuf", "map", "timeout",
               "streamon", "invalidate", "qbuf", "clean"}

ASSUME ConstAssumption ==
    /\ NumBufs \in Nat \ {0}
    /\ MaxSessions \in Nat
    /\ Bundled \in BOOLEAN /\ Linkable \in BOOLEAN /\ HasCb \in BOOLEAN
    /\ Preloaded \subseteq Bufs
    /\ Faults \subseteq FaultKinds
    /\ IsFiniteSet(Workers)
    /\ "cmd" \notin Workers

(* The HAL only links streams that also have an asynchronous callback     *)
(* (the metadata and the preview stream, QCamera2HWI.cpp); a stream that   *)
(* is bundled and linked without one is handed to two consumers with a     *)
(* single reference in between.                                            *)
ASSUME LinkAssumption == (Bundled /\ Linkable) => HasCb

(* Everyone that can be inside mm_stream_buf_done. *)
Threads == Workers \cup {"cmd"}

VARIABLES
    state,      \* my_obj->state
    cpc,        \* control thread: position in mm_channel_start / _stop
    sessions,   \* number of channel starts so far
    regIdx,     \* loop index of mm_stream_reg_buf
    alloc,      \* my_obj->buf # NULL
    refcnt,     \* buf_status[i].buf_refcnt
    inKernel,   \* buf_status[i].in_kernel
    mapStatus,  \* buf_status[i].map_status
    queued,     \* queued_buffer_count
    linked,     \* is_linked
    reqbufs,    \* driver: buffers requested (VIDIOC_REQBUFS)
    streaming,  \* driver: between STREAMON and STREAMOFF
    kq,         \* driver: queued and empty
    filled,     \* driver: filled, ready for DQBUF
    entry,      \* poll_entries[idx] names this stream
    polled,     \* poll_fds[idx+1] holds this stream's fd
    pipe,       \* commands written to the poll thread's pipe
    ppc,        \* poll thread: position in mm_stream_data_notify
    pbuf,       \* poll thread: the frame just dequeued
    cmdActive,  \* cmd_thread.is_active
    cmdExit,    \* an EXIT command is in the command queue
    cmdQ,       \* frames waiting in the command queue, per buffer
    tokens,     \* frames in consumers' hands, per buffer
    pc,         \* per thread: position in mm_stream_buf_done
    cur,        \* per thread: the buffer being given back
    overrun     \* history: STREAMOFF overtook a running data_notify

ctlVars  == <<state, cpc, sessions, regIdx, alloc>>
bufVars  == <<refcnt, inKernel, mapStatus, queued, linked>>
kernVars == <<reqbufs, streaming, kq, filled>>
pollVars == <<entry, polled, pipe, ppc, pbuf>>
cmdVars  == <<cmdActive, cmdExit, cmdQ>>
doneVars == <<tokens, pc, cur>>
vars == <<ctlVars, bufVars, kernVars, pollVars, cmdVars, doneVars, overrun>>

States == {"NOTUSED", "INITED", "ACQUIRED", "CFG", "BUFFED", "REG", "ACTIVE"}

CtlPcs == {"down", "add", "get", "reg", "regloop", "start", "scan", "condwait",
           "streamon", "abort", "abortwait", "run", "offwait", "off", "release",
           "join", "unreg", "put"}

PollPcs == {"poll", "notify", "dq", "count", "ref", "chan", "link", "enq"}

DonePcs == {"idle", "check", "dec", "inc", "ioctl", "undo", "mark"}

NoBuf == 0
Kernel == kq \cup filled
One(cond) == IF cond THEN 1 ELSE 0
Zero == [b \in Bufs |-> 0]
MayFail(kind) == kind \in Faults

Init ==
    /\ state = "NOTUSED" /\ cpc = "down" /\ sessions = 0 /\ regIdx = 0
    /\ alloc = FALSE
    /\ refcnt = Zero /\ inKernel = Zero /\ mapStatus = Zero
    /\ queued = 0 /\ linked = FALSE
    /\ reqbufs = FALSE /\ streaming = FALSE /\ kq = {} /\ filled = {}
    /\ entry = FALSE /\ polled = FALSE /\ pipe = <<>>
    /\ ppc = "poll" /\ pbuf = NoBuf
    /\ cmdActive = FALSE /\ cmdExit = FALSE /\ cmdQ = Zero
    /\ tokens = Zero
    /\ pc = [t \in Threads |-> "idle"] /\ cur = [t \in Threads |-> NoBuf]
    /\ overrun = FALSE

-----------------------------------------------------------------------------
(* Operators named *Slip are plausible mistakes in the definition they       *)
(* precede; no specification uses them.  They are what the properties are    *)
(* tried against.                                                            *)

PollAddSlip(now) ==         \* the poll thread is not told
    entry' = (entry \/ now) /\ UNCHANGED pipe

(* Poll entries: mm_camera_poll_thread_add_poll_fd / _del_poll_fd.  The     *)
(* entry changes at once; the poll thread learns of it through the pipe.    *)

PollAdd(now) ==
    /\ entry' = (entry \/ now)
    /\ pipe' = IF now THEN Append(pipe, "async") ELSE pipe

(* A handler that is already cleared is not an error: nothing is written,   *)
(* and the call returns 0.                                                  *)
PollDel(now, kind) ==
    /\ entry' = (entry /\ ~now)
    /\ pipe' = IF now /\ entry THEN Append(pipe, kind) ELSE pipe

-----------------------------------------------------------------------------
(* The control thread: stream FSM events, in the order in which             *)
(* mm_channel_add_stream, mm_channel_config_stream, mm_channel_start and    *)
(* mm_channel_stop issue them.                                              *)

AddStream ==
    /\ cpc = "down" /\ state = "NOTUSED"
    /\ state' = "INITED" /\ cpc' = "add"
    /\ UNCHANGED <<sessions, regIdx, alloc, bufVars, kernVars, pollVars,
                   cmdVars, doneVars, overrun>>

(* MM_STREAM_EVT_ACQUIRE: open + set_ext_mode; a failure frees the slot.    *)
Acquire ==
    /\ cpc = "add" /\ state = "INITED"
    /\ \/ state' = "ACQUIRED"
       \/ MayFail("acquire") /\ state' = "NOTUSED"
    /\ cpc' = "down"
    /\ UNCHANGED <<sessions, regIdx, alloc, bufVars, kernVars, pollVars,
                   cmdVars, doneVars, overrun>>

(* MM_STREAM_EVT_SET_FMT moves to CFG whatever mm_stream_config returns.    *)
SetFmt ==
    /\ cpc = "down" /\ state \in {"ACQUIRED", "CFG"}
    /\ state' = "CFG"
    /\ UNCHANGED <<cpc, sessions, regIdx, alloc, bufVars, kernVars, pollVars,
                   cmdVars, doneVars, overrun>>

(* MM_STREAM_EVT_RELEASE: buf_status is cleared and the fd closed.          *)
Release ==
    /\ cpc = "down" /\ state \in {"ACQUIRED", "CFG"}
    /\ state' = "NOTUSED"
    /\ refcnt' = Zero /\ inKernel' = Zero /\ mapStatus' = Zero
    /\ queued' = 0 /\ linked' = FALSE
    /\ reqbufs' = FALSE /\ kq' = {} /\ filled' = {}
    /\ UNCHANGED <<cpc, sessions, regIdx, alloc, streaming, pollVars, cmdVars,
                   doneVars, overrun>>

ChannelStart ==
    /\ cpc = "down" /\ state = "CFG" /\ sessions < MaxSessions
    /\ sessions' = sessions + 1
    /\ cpc' = "get"
    /\ UNCHANGED <<state, regIdx, alloc, bufVars, kernVars, pollVars, cmdVars,
                   doneVars, overrun>>

(* MM_STREAM_EVT_GET_BUF; after a failure STOP, UNREG_BUF and PUT_BUF are   *)
(* all ignored in state CFG.                                                *)
GetBuf ==
    /\ cpc = "get" /\ state = "CFG"
    /\ \/ alloc' = TRUE /\ state' = "BUFFED" /\ cpc' = "reg"
       \/ MayFail("get_bufs") /\ cpc' = "down" /\ UNCHANGED <<alloc, state>>
    /\ UNCHANGED <<sessions, regIdx, bufVars, kernVars, pollVars, cmdVars,
                   doneVars, overrun>>

(* MM_STREAM_EVT_REG_BUF up to the loop: VIDIOC_REQBUFS gives the driver a  *)
(* fresh, empty queue.                                                      *)
RegBuf ==
    /\ cpc = "reg" /\ state = "BUFFED"
    /\ \/ /\ reqbufs' = TRUE /\ kq' = {} /\ filled' = {}
          /\ queued' = 0 /\ regIdx' = 1 /\ cpc' = "regloop"
       \/ /\ MayFail("reqbufs")
          /\ cpc' = "put"
          /\ UNCHANGED <<reqbufs, kq, filled, queued, regIdx>>
    /\ UNCHANGED <<state, sessions, alloc, refcnt, inKernel, mapStatus, linked,
                   streaming, pollVars, cmdVars, doneVars, overrun>>

RegQueueSlip(b) ==          \* buf_refcnt is not reset
    /\ b \in Preloaded
    /\ queued' = queued + 1
    /\ PollAdd(queued = 0)
    /\ kq' = kq \cup {b}
    /\ inKernel' = [inKernel EXCEPT ![b] = 1]
    /\ UNCHANGED <<tokens, refcnt>>

(* One buffer of the loop.  initial_reg_flag decides whether it is queued   *)
(* or starts with the upper layer.                                          *)
RegQueue(b) ==
    /\ b \in Preloaded
    /\ queued' = queued + 1
    /\ PollAdd(queued = 0)
    /\ kq' = kq \cup {b}
    /\ refcnt' = [refcnt EXCEPT ![b] = 0]
    /\ inKernel' = [inKernel EXCEPT ![b] = 1]
    /\ UNCHANGED tokens

RegHold(b) ==
    /\ b \notin Preloaded
    /\ refcnt' = [refcnt EXCEPT ![b] = 1]
    /\ inKernel' = [inKernel EXCEPT ![b] = 0]
    /\ tokens' = [tokens EXCEPT ![b] = @ + 1]
    /\ UNCHANGED <<queued, kq, entry, pipe>>

RegBufStep ==
    /\ cpc = "regloop" /\ regIdx \in Bufs
    /\ RegQueue(regIdx) \/ RegHold(regIdx)
    /\ regIdx' = regIdx + 1
    /\ UNCHANGED <<state, cpc, sessions, alloc, mapStatus, linked, reqbufs,
                   streaming, filled, polled, ppc, pbuf, cmdVars, pc, cur,
                   overrun>>

(* mm_stream_qbuf fails: the loop ends in state BUFFED, where the teardown  *)
(* of mm_channel_start only has an effect on PUT_BUF.                       *)
RegBufFail ==
    /\ cpc = "regloop" /\ regIdx \in Preloaded /\ MayFail("reg_qbuf")
    /\ entry' = (entry /\ queued # 0)
    /\ pipe' = IF queued = 0 THEN pipe \o <<"async", "async">> ELSE pipe
    /\ cpc' = "put"
    /\ UNCHANGED <<state, sessions, regIdx, alloc, bufVars, kernVars, polled,
                   ppc, pbuf, cmdVars, doneVars, overrun>>

RegBufDone ==
    /\ cpc = "regloop" /\ regIdx \notin Bufs
    /\ state' = "REG" /\ cpc' = "start" /\ regIdx' = 0
    /\ UNCHANGED <<sessions, alloc, bufVars, kernVars, pollVars,
                   cmdVars, doneVars, overrun>>

(* MM_STREAM_EVT_START: launch the command thread, become ACTIVE, then call *)
(* mm_stream_streamon.                                                      *)
Start ==
    /\ cpc = "start" /\ state = "REG"
    /\ cmdActive' = (HasCb \/ cmdActive)
    /\ cmdQ' = IF HasCb THEN Zero ELSE cmdQ
    /\ cmdExit' = FALSE
    /\ state' = "ACTIVE" /\ cpc' = "scan"
    /\ UNCHANGED <<sessions, regIdx, alloc, bufVars, kernVars, pollVars,
                   doneVars, overrun>>

NeedsWait(b) == mapStatus[b] = 0 /\ inKernel[b] = 1
MapFailed(b) == mapStatus[b] < 0

(* The first buffer in index order that is unmapped or failed decides.      *)
StreamonScan ==
    /\ cpc = "scan"
    /\ LET hits == {b \in Bufs : NeedsWait(b) \/ MapFailed(b)}
       IN  \/ hits = {} /\ cpc' = "streamon"
           \/ \E b \in hits :
                /\ \A c \in hits : b <= c
                /\ cpc' = IF MapFailed(b) THEN "abort" ELSE "condwait"
    /\ UNCHANGED <<state, sessions, regIdx, alloc, bufVars, kernVars, pollVars,
                   cmdVars, doneVars, overrun>>

(* WAIT_TIMEOUT seconds pass without a signal on buf_cond.                  *)
StreamonTimeout ==
    /\ cpc = "condwait" /\ MayFail("timeout")
    /\ cpc' = "abort"
    /\ UNCHANGED <<state, sessions, regIdx, alloc, bufVars, kernVars, pollVars,
                   cmdVars, doneVars, overrun>>

Streamon ==
    /\ cpc = "streamon"
    /\ \/ streaming' = TRUE /\ cpc' = "run"
       \/ MayFail("streamon") /\ cpc' = "abort" /\ UNCHANGED streaming
    /\ UNCHANGED <<state, sessions, regIdx, alloc, bufVars, reqbufs, kq, filled,
                   pollVars, cmdVars, doneVars, overrun>>

(* A failed stream-on removes the fd from the poll thread synchronously.    *)
StreamonAbort ==
    /\ cpc = "abort"
    /\ PollDel(TRUE, "sync")
    /\ cpc' = IF entry THEN "abortwait" ELSE "release"
    /\ UNCHANGED <<state, sessions, regIdx, alloc, bufVars, kernVars, polled,
                   ppc, pbuf, cmdVars, doneVars, overrun>>

(* MM_STREAM_EVT_STOP, step 1 of mm_stream_streamoff.  An entry that was    *)
(* removed asynchronously makes the call return 0 without waiting.          *)
Streamoff1 ==
    /\ cpc = "run"
    /\ PollDel(TRUE, "sync")
    /\ cpc' = IF entry THEN "offwait" ELSE "off"
    /\ UNCHANGED <<state, sessions, regIdx, alloc, bufVars, kernVars, polled,
                   ppc, pbuf, cmdVars, doneVars, overrun>>

(* Inside mm_stream_data_notify, past the state check. *)
Notifying == ppc \in {"dq", "count", "ref", "chan", "link", "enq"}

(* Step 2: VIDIOC_STREAMOFF takes every buffer out of the driver's queues.  *)
Streamoff2 ==
    /\ cpc = "off"
    /\ streaming' = FALSE /\ kq' = {} /\ filled' = {}
    /\ overrun' = (overrun \/ Notifying)
    /\ cpc' = "release"
    /\ UNCHANGED <<state, sessions, regIdx, alloc, bufVars, reqbufs, pollVars,
                   cmdVars, doneVars>>

(* mm_camera_cmd_thread_release under cmd_lock: enqueue EXIT, join, reset.  *)
ReleaseCmd ==
    /\ cpc = "release"
    /\ IF HasCb THEN cmdExit' = TRUE /\ cpc' = "join" /\ UNCHANGED state
                ELSE state' = "REG" /\ cpc' = "unreg" /\ UNCHANGED cmdExit
    /\ UNCHANGED <<sessions, regIdx, alloc, bufVars, kernVars, pollVars,
                   cmdActive, cmdQ, doneVars, overrun>>

JoinCmdSlip ==              \* EXIT overtakes the frames in the queue
    /\ cpc = "join" /\ pc["cmd"] = "idle"
    /\ cmdActive' = FALSE /\ cmdExit' = FALSE
    /\ state' = "REG" /\ cpc' = "unreg"
    /\ UNCHANGED <<sessions, regIdx, alloc, bufVars, kernVars, pollVars, cmdQ,
                   doneVars, overrun>>

(* The command thread drains its queue before it ends.                      *)
JoinCmd ==
    /\ cpc = "join" /\ cmdQ = Zero /\ pc["cmd"] = "idle"
    /\ cmdActive' = FALSE /\ cmdExit' = FALSE
    /\ state' = "REG" /\ cpc' = "unreg"
    /\ UNCHANGED <<sessions, regIdx, alloc, bufVars, kernVars, pollVars, cmdQ,
                   doneVars, overrun>>

(* MM_STREAM_EVT_UNREG_BUF. *)
UnregBuf ==
    /\ cpc = "unreg" /\ state = "REG"
    /\ reqbufs' = FALSE /\ kq' = {} /\ filled' = {}
    /\ refcnt' = Zero /\ inKernel' = Zero
    /\ state' = "BUFFED" /\ cpc' = "put"
    /\ UNCHANGED <<sessions, regIdx, alloc, mapStatus, queued, linked,
                   streaming, pollVars, cmdVars, doneVars, overrun>>

(* MM_STREAM_EVT_PUT_BUF comes after mm_channel_stop has flushed the        *)
(* superbuf queue and joined the channel's threads, and mm_camera_qbuf      *)
(* assumes that every frame was given back by then.                         *)
ConsumersDone == tokens = Zero /\ \A t \in Threads : pc[t] = "idle"

PutBuf ==
    /\ cpc = "put" /\ state = "BUFFED" /\ ConsumersDone
    /\ alloc' = FALSE /\ mapStatus' = Zero
    /\ state' = "CFG" /\ cpc' = "down"
    /\ UNCHANGED <<sessions, regIdx, refcnt, inKernel, queued, linked, kernVars,
                   pollVars, cmdVars, doneVars, overrun>>

-----------------------------------------------------------------------------
(* The mapping thread: mm_stream_map_buf.                                   *)

NeedWaitForMapping(ms) ==
    /\ \E b \in Bufs : ms[b] = 0 /\ inKernel[b] = 1
    /\ \A b \in Bufs : ms[b] >= 0

MapBuf(b) ==
    /\ alloc /\ mapStatus[b] = 0
    /\ \E s \in {1} \cup (IF MayFail("map") THEN {-1} ELSE {}) :
         /\ mapStatus' = [mapStatus EXCEPT ![b] = s]
         /\ cpc' = IF cpc = "condwait"
                        /\ ~NeedWaitForMapping([mapStatus EXCEPT ![b] = s])
                     THEN "streamon" ELSE cpc
    /\ UNCHANGED <<state, sessions, regIdx, alloc, refcnt, inKernel, queued,
                   linked, kernVars, pollVars, cmdVars, doneVars, overrun>>

(* Another channel links or unlinks this stream under buf_lock.             *)
LinkStream ==
    /\ Linkable /\ state # "NOTUSED"
    /\ linked' = ~linked
    /\ UNCHANGED <<ctlVars, refcnt, inKernel, mapStatus, queued, kernVars,
                   pollVars, cmdVars, doneVars, overrun>>

(* The driver fills a queued buffer.                                        *)
KernelFill(b) ==
    /\ streaming /\ b \in kq
    /\ kq' = kq \ {b} /\ filled' = filled \cup {b}
    /\ UNCHANGED <<ctlVars, bufVars, reqbufs, streaming, pollVars, cmdVars,
                   doneVars, overrun>>

-----------------------------------------------------------------------------
(* The poll thread.                                                         *)

ProcPipeSlip ==             \* a synchronous caller is not woken
    /\ ppc = "poll" /\ pipe # <<>>
    /\ polled' = entry
    /\ pipe' = Tail(pipe)
    /\ UNCHANGED <<ctlVars, bufVars, kernVars, entry, ppc, pbuf, cmdVars,
                   doneVars, overrun>>

(* mm_camera_poll_proc_pipe: rebuild poll_fds from the entries; a           *)
(* synchronous command also wakes the caller waiting in mm_camera_poll_sig. *)
ProcPipe ==
    /\ ppc = "poll" /\ pipe # <<>>
    /\ polled' = entry
    /\ pipe' = Tail(pipe)
    /\ cpc' = IF Head(pipe) = "sync"
                THEN IF cpc = "offwait" THEN "off"
                     ELSE IF cpc = "abortwait" THEN "release" ELSE cpc
                ELSE cpc
    /\ UNCHANGED <<state, sessions, regIdx, alloc, bufVars, kernVars, entry,
                   ppc, pbuf, cmdVars, doneVars, overrun>>

(* mm_camera_poll_fn: poll() reports POLLIN, with nothing in the pipe.      *)
PollData ==
    /\ ppc = "poll" /\ pipe = <<>> /\ polled /\ streaming /\ filled # {}
    /\ ppc' = "notify"
    /\ UNCHANGED <<ctlVars, bufVars, kernVars, entry, polled, pipe, pbuf,
                   cmdVars, doneVars, overrun>>

(* notify_cb is read, then mm_stream_data_notify checks the state.          *)
Notify ==
    /\ ppc = "notify"
    /\ ppc' = IF entry /\ state = "ACTIVE" THEN "dq" ELSE "poll"
    /\ UNCHANGED <<ctlVars, bufVars, kernVars, entry, polled, pipe, pbuf,
                   cmdVars, doneVars, overrun>>

DqbufSlip(b) ==             \* the index of the frame is not stored
    /\ ppc = "dq" /\ b \in filled
    /\ filled' = filled \ {b}
    /\ ppc' = "count"
    /\ UNCHANGED <<ctlVars, bufVars, reqbufs, streaming, kq, entry, polled,
                   pipe, pbuf, cmdVars, doneVars, overrun>>

(* VIDIOC_DQBUF on the non-blocking fd.  The driver's FIFO order is left to *)
(* the fairness condition.                                                  *)
Dqbuf(b) ==
    /\ ppc = "dq" /\ b \in filled
    /\ filled' = filled \ {b}
    /\ pbuf' = b /\ ppc' = "count"
    /\ UNCHANGED <<ctlVars, bufVars, reqbufs, streaming, kq, entry, polled,
                   pipe, cmdVars, doneVars, overrun>>

DqbufEmpty ==
    /\ ppc = "dq" /\ filled = {}
    /\ ppc' = "poll"
    /\ UNCHANGED <<ctlVars, bufVars, kernVars, entry, polled, pipe, pbuf,
                   cmdVars, doneVars, overrun>>

(* The rest of mm_stream_read_msm_frame: the last buffer out of the driver  *)
(* takes the fd out of the poll set.  A failing cache operation makes       *)
(* mm_stream_data_notify give up on the frame.                              *)
DqCount ==
    /\ ppc = "count"
    /\ queued' = queued - 1
    /\ PollDel(queued = 1, "async")
    /\ \/ ppc' = "ref" /\ UNCHANGED pbuf
       \/ MayFail("clean") /\ ppc' = "poll" /\ pbuf' = NoBuf
    /\ UNCHANGED <<ctlVars, refcnt, inKernel, mapStatus, linked, kernVars,
                   polled, cmdVars, doneVars, overrun>>

TakeRefsOnce ==             \* one reference where two are needed
    /\ ppc = "ref"
    /\ inKernel' = [inKernel EXCEPT ![pbuf] = 0]
    /\ refcnt' = [refcnt EXCEPT ![pbuf] = @ + One(Bundled \/ HasCb)]
    /\ ppc' = "chan"
    /\ UNCHANGED <<ctlVars, mapStatus, queued, linked, kernVars, entry, polled,
                   pipe, pbuf, cmdVars, doneVars, overrun>>

TakeRefsLinkedSlip ==       \* a linked frame is not counted for the callback
    /\ ppc = "ref"
    /\ inKernel' = [inKernel EXCEPT ![pbuf] = 0]
    /\ refcnt' = [refcnt EXCEPT ![pbuf] = @ + One(Bundled) + One(HasCb /\ ~linked)]
    /\ ppc' = "chan"
    /\ UNCHANGED <<ctlVars, mapStatus, queued, linked, kernVars, entry, polled,
                   pipe, pbuf, cmdVars, doneVars, overrun>>

(* mm_stream_data_notify under buf_lock: one reference for the superbuf     *)
(* queue, one for the asynchronous callback.                                *)
TakeRefs ==
    /\ ppc = "ref"
    /\ inKernel' = [inKernel EXCEPT ![pbuf] = 0]
    /\ refcnt' = [refcnt EXCEPT ![pbuf] = @ + One(Bundled) + One(HasCb)]
    /\ ppc' = "chan"
    /\ UNCHANGED <<ctlVars, mapStatus, queued, linked, kernVars, entry, polled,
                   pipe, pbuf, cmdVars, doneVars, overrun>>

(* mm_stream_handle_rcvd_buf, first part: notify the own channel.           *)
NotifyChannel ==
    /\ ppc = "chan"
    /\ tokens' = [tokens EXCEPT ![pbuf] = @ + One(Bundled)]
    /\ ppc' = "link"
    /\ UNCHANGED <<ctlVars, bufVars, kernVars, entry, polled, pipe, pbuf,
                   cmdVars, pc, cur, overrun>>

NotifyLinkedSlip ==         \* the linked channel's reference is not counted
    /\ ppc = "link"
    /\ tokens' = [tokens EXCEPT ![pbuf] = @ + One(linked)]
    /\ ppc' = "enq"
    /\ UNCHANGED <<ctlVars, bufVars, kernVars, entry, polled, pipe, pbuf,
                   cmdVars, pc, cur, overrun>>

(* Second part, under buf_lock: reference and notify a linked channel.      *)
NotifyLinked ==
    /\ ppc = "link"
    /\ refcnt' = [refcnt EXCEPT ![pbuf] = @ + One(linked)]
    /\ tokens' = [tokens EXCEPT ![pbuf] = @ + One(linked)]
    /\ ppc' = "enq"
    /\ UNCHANGED <<ctlVars, inKernel, mapStatus, queued, linked, kernVars,
                   entry, polled, pipe, pbuf, cmdVars, pc, cur, overrun>>

(* Third part, under cmd_lock (held by the control thread while it          *)
(* releases the command thread).                                            *)
NotifyApp ==
    /\ ppc = "enq" /\ cpc # "join"
    /\ cmdQ' = IF HasCb /\ cmdActive THEN [cmdQ EXCEPT ![pbuf] = @ + 1]
                                     ELSE cmdQ
    /\ ppc' = "poll" /\ pbuf' = NoBuf
    /\ UNCHANGED <<ctlVars, bufVars, kernVars, entry, polled, pipe, cmdActive,
                   cmdExit, doneVars, overrun>>

-----------------------------------------------------------------------------
(* Giving a frame back.                                                     *)

(* mm_stream_dispatch_app_data: one more reference for the application,     *)
(* the callback, then mm_stream_buf_done for the queue's own reference.     *)
DispatchApp(b) ==
    /\ cmdActive /\ pc["cmd"] = "idle" /\ cmdQ[b] > 0
    /\ cmdQ' = [cmdQ EXCEPT ![b] = @ - 1]
    /\ refcnt' = [refcnt EXCEPT ![b] = @ + 1]
    /\ tokens' = [tokens EXCEPT ![b] = @ + 1]
    /\ pc' = [pc EXCEPT !["cmd"] = "check"]
    /\ cur' = [cur EXCEPT !["cmd"] = b]
    /\ UNCHANGED <<ctlVars, inKernel, mapStatus, queued, linked, kernVars,
                   pollVars, cmdActive, cmdExit, overrun>>

(* MM_STREAM_EVT_QBUF from a consumer; only ACTIVE handles it.  The HAL     *)
(* gives back the buffers it started with only once the stream was started. *)
Qbuf(w, b) ==
    /\ pc[w] = "idle" /\ tokens[b] > 0 /\ cpc \notin {"regloop", "start"}
    /\ tokens' = [tokens EXCEPT ![b] = @ - 1]
    /\ IF state = "ACTIVE"
         THEN /\ pc' = [pc EXCEPT ![w] = "check"]
              /\ cur' = [cur EXCEPT ![w] = b]
         ELSE UNCHANGED <<pc, cur>>
    /\ UNCHANGED <<ctlVars, bufVars, kernVars, pollVars, cmdVars, overrun>>

(* Leave mm_stream_buf_done. *)
Return(t) ==
    /\ pc' = [pc EXCEPT ![t] = "idle"]
    /\ cur' = [cur EXCEPT ![t] = NoBuf]

(* mm_stream_buf_done, first critical section: "Error Trying to free second *)
(* time?".                                                                  *)
DoneCheck(t) ==
    /\ pc[t] = "check"
    /\ IF refcnt[cur[t]] = 0
         THEN Return(t)
         ELSE pc' = [pc EXCEPT ![t] = "dec"] /\ UNCHANGED cur
    /\ UNCHANGED <<ctlVars, bufVars, kernVars, pollVars, cmdVars, tokens,
                   overrun>>

DoneDecLate(t) ==           \* tests the count before the decrement
    /\ pc[t] = "dec"
    /\ LET b == cur[t]
       IN  /\ refcnt' = [refcnt EXCEPT ![b] = IF @ = 0 THEN 255 ELSE @ - 1]
           /\ IF refcnt[b] = 0
                THEN pc' = [pc EXCEPT ![t] = "inc"] /\ UNCHANGED cur
                ELSE Return(t)
    /\ UNCHANGED <<ctlVars, inKernel, mapStatus, queued, linked, kernVars,
                   pollVars, cmdVars, tokens, overrun>>

(* Second critical section: uint8_t decrement.                              *)
DoneDec(t) ==
    /\ pc[t] = "dec"
    /\ LET b == cur[t]
           n == IF refcnt[b] = 0 THEN 255 ELSE refcnt[b] - 1
       IN  /\ refcnt' = [refcnt EXCEPT ![b] = n]
           /\ IF n = 0
                THEN pc' = [pc EXCEPT ![t] = "inc"] /\ UNCHANGED cur
                ELSE Return(t)
    /\ UNCHANGED <<ctlVars, inKernel, mapStatus, queued, linked, kernVars,
                   pollVars, cmdVars, tokens, overrun>>

QbufCountSlip(t) ==         \* adds the fd for the second buffer, not the first
    /\ pc[t] = "inc"
    /\ queued' = queued + 1
    /\ PollAdd(queued = 1)
    /\ pc' = [pc EXCEPT ![t] = "ioctl"]
    /\ UNCHANGED <<ctlVars, refcnt, inKernel, mapStatus, linked, kernVars,
                   polled, ppc, pbuf, cmdVars, tokens, cur, overrun>>

(* mm_stream_qbuf: cache invalidation, then the first buffer counted adds   *)
(* the fd to the poll set.                                                  *)
QbufCount(t) ==
    /\ pc[t] = "inc"
    /\ \/ /\ queued' = queued + 1
          /\ PollAdd(queued = 0)
          /\ pc' = [pc EXCEPT ![t] = "ioctl"] /\ UNCHANGED cur
       \/ /\ MayFail("invalidate")
          /\ Return(t)
          /\ UNCHANGED <<queued, entry, pipe>>
    /\ UNCHANGED <<ctlVars, refcnt, inKernel, mapStatus, linked, kernVars,
                   polled, ppc, pbuf, cmdVars, tokens, overrun>>

(* VIDIOC_QBUF: refused for a buffer the driver already holds or does not   *)
(* know.                                                                    *)
QbufIoctl(t) ==
    /\ pc[t] = "ioctl"
    /\ \/ /\ reqbufs /\ cur[t] \notin Kernel
          /\ kq' = kq \cup {cur[t]}
          /\ pc' = [pc EXCEPT ![t] = "mark"]
       \/ /\ ~reqbufs \/ cur[t] \in Kernel \/ MayFail("qbuf")
          /\ pc' = [pc EXCEPT ![t] = "undo"]
          /\ UNCHANGED kq
    /\ UNCHANGED <<ctlVars, bufVars, reqbufs, streaming, filled, pollVars,
                   cmdVars, tokens, cur, overrun>>

QbufUndo(t) ==
    /\ pc[t] = "undo"
    /\ queued' = queued - 1
    /\ PollDel(queued = 1, "async")
    /\ Return(t)
    /\ UNCHANGED <<ctlVars, refcnt, inKernel, mapStatus, linked, kernVars,
                   polled, ppc, pbuf, cmdVars, tokens, overrun>>

(* in_kernel is set after the ioctl, without buf_lock.                      *)
DoneMark(t) ==
    /\ pc[t] = "mark"
    /\ inKernel' = [inKernel EXCEPT ![cur[t]] = 1]
    /\ Return(t)
    /\ UNCHANGED <<ctlVars, refcnt, mapStatus, queued, linked, kernVars,
                   pollVars, cmdVars, tokens, overrun>>

BufDone(t) ==
    \/ DoneCheck(t) \/ DoneDec(t) \/ QbufCount(t) \/ QbufIoctl(t)
    \/ QbufUndo(t) \/ DoneMark(t)

-----------------------------------------------------------------------------
Control ==
    \/ AddStream \/ Acquire \/ SetFmt \/ Release \/ ChannelStart
    \/ GetBuf \/ RegBuf \/ RegBufStep \/ RegBufFail \/ RegBufDone
    \/ Start \/ StreamonScan \/ StreamonTimeout \/ Streamon \/ StreamonAbort
    \/ Streamoff1 \/ Streamoff2 \/ ReleaseCmd \/ JoinCmd \/ UnregBuf \/ PutBuf

Poll ==
    \/ ProcPipe \/ PollData \/ Notify \/ (\E b \in Bufs : Dqbuf(b))
    \/ DqbufEmpty \/ DqCount \/ TakeRefs
    \/ NotifyChannel \/ NotifyLinked \/ NotifyApp

Next ==
    \/ Control
    \/ Poll
    \/ LinkStream
    \/ \E b \in Bufs : MapBuf(b) \/ KernelFill(b) \/ DispatchApp(b)
    \/ \E w \in Workers, b \in Bufs : Qbuf(w, b)
    \/ \E t \in Threads : BufDone(t)

Spec == Init /\ [][Next]_vars

-----------------------------------------------------------------------------
(* Fairness: every thread keeps running and the driver fills queued buffers *)
(* while it streams.  The driver's done list, the command queue and the     *)
(* consumers' queues are first in, first out: no frame in them is passed    *)
(* over for ever (strong fairness, as each server is busy now and then).    *)
(* The control thread finishes the start or stop it is in; nothing forces a *)
(* stop, a link or a release.                                               *)

CtlProgress ==
    \/ Acquire \/ GetBuf \/ RegBuf \/ RegBufStep \/ RegBufDone \/ Start
    \/ StreamonScan \/ StreamonTimeout \/ Streamon \/ StreamonAbort
    \/ Streamoff2 \/ ReleaseCmd \/ JoinCmd \/ UnregBuf \/ PutBuf

Fairness ==
    /\ WF_vars(Poll)
    /\ WF_vars(CtlProgress)
    /\ \A t \in Threads : WF_vars(BufDone(t))
    /\ \A b \in Bufs : /\ WF_vars(KernelFill(b)) /\ WF_vars(MapBuf(b))
                       /\ SF_vars(Dqbuf(b)) /\ SF_vars(DispatchApp(b))
                       /\ SF_vars(\E w \in Workers : Qbuf(w, b))

FairSpec == Spec /\ Fairness

-----------------------------------------------------------------------------
(* Properties.                                                              *)

(* The types of all variables: flags, what the control thread, buf_lock and *)
(* the driver own, the poll thread, the command thread and the consumers.   *)
TypeFlags ==
    /\ alloc \in BOOLEAN /\ linked \in BOOLEAN
    /\ reqbufs \in BOOLEAN /\ streaming \in BOOLEAN
    /\ entry \in BOOLEAN /\ polled \in BOOLEAN
    /\ cmdActive \in BOOLEAN /\ cmdExit \in BOOLEAN /\ overrun \in BOOLEAN

TypeShared ==
    /\ state \in States /\ cpc \in CtlPcs
    /\ sessions \in Nat /\ regIdx \in Nat
    /\ refcnt \in [Bufs -> Nat]
    /\ inKernel \in [Bufs -> {0, 1}]
    /\ mapStatus \in [Bufs -> {-1, 0, 1}]
    /\ queued \in Int
    /\ kq \in SUBSET Bufs /\ filled \in SUBSET Bufs

TypePoll ==
    /\ pipe \in Seq({"async", "sync"})
    /\ ppc \in PollPcs /\ pbuf \in Bufs \cup {NoBuf}
    /\ ppc \in {"count", "ref", "chan", "link", "enq"} => pbuf \in Bufs

TypeThreads ==
    /\ cmdQ \in [Bufs -> Nat]
    /\ tokens \in [Bufs -> Nat]
    /\ pc \in [Threads -> DonePcs]
    /\ cur \in [Threads -> Bufs \cup {NoBuf}]
    /\ \A t \in Threads : pc[t] # "idle" => cur[t] \in Bufs

TypeOK == TypeFlags /\ TypeShared /\ TypePoll /\ TypeThreads

(* Where the control thread is: registered buffers are in use. *)
InUse(b) ==
    \/ cpc \in {"start", "scan", "condwait", "streamon", "abort", "abortwait",
                "run", "offwait", "off", "release", "join"}
    \/ cpc = "regloop" /\ b < regIdx

(* References the poll thread took on b and has not handed on yet. *)
PollRefs(b) ==
    IF pbuf = b
      THEN IF ppc = "chan" THEN One(Bundled) + One(HasCb)
           ELSE IF ppc \in {"link", "enq"} THEN One(HasCb) ELSE 0
      ELSE 0

(* Threads that hold a reference on b and are about to drop it. *)
Dropping(b) == {t \in Threads : pc[t] \in {"check", "dec"} /\ cur[t] = b}

(* Threads that dropped the last reference on b and requeue it. *)
Requeuing(b) == {t \in Threads : pc[t] \in {"inc", "ioctl"} /\ cur[t] = b}

(* Threads counted in queued_buffer_count whose ioctl has not succeeded.    *)
Counting == {t \in Threads : pc[t] \in {"ioctl", "undo"}}

(* The poll thread has b, and nobody has a reference yet. *)
Dequeued(b) ==
    /\ pbuf = b
    /\ \/ ppc \in {"count", "ref"}
       \/ ppc \in {"chan", "link"} /\ ~HasCb /\ ~Bundled

(* Nobody on the user side has a reference on b. *)
Free(b) ==
    tokens[b] = 0 /\ cmdQ[b] = 0 /\ PollRefs(b) = 0 /\ Dropping(b) = {}

(* buf_refcnt is exactly the number of references that someone holds: a     *)
(* consumer, the command queue, the poll thread between taking and handing  *)
(* on, or a thread inside mm_stream_buf_done.  No interleaving of dequeue,  *)
(* dispatch and return loses or invents one.                                *)
RefsConserved ==
    ~overrun => \A b \in Bufs : InUse(b) =>
        refcnt[b] = tokens[b] + cmdQ[b] + PollRefs(b) + Cardinality(Dropping(b))

(* The driver never owns (and writes into) a frame that anybody on the user *)
(* side still holds.                                                        *)
NoKernelAlias ==
    ~overrun => \A b \in Kernel :
        Free(b) /\ Requeuing(b) = {} /\ ~Dequeued(b)

(* mm_stream_buf_done never finds the count already at zero ("Error Trying  *)
(* to free second time?") while the stream runs.                            *)
NoDoubleFree ==
    ~overrun => \A t \in Threads :
        (pc[t] \in {"check", "dec"} /\ InUse(cur[t])) => refcnt[cur[t]] > 0

(* queued_buffer_count counts the driver's buffers plus the calls on their  *)
(* way in or out, and the poll thread watches the fd whenever it is not     *)
(* zero: a filled buffer cannot sit in the driver unnoticed.                *)
Filling == cpc \in {"regloop", "start", "scan", "condwait", "streamon", "run"}

PollCoversQueue ==
    (Filling /\ ~overrun) =>
        /\ queued = Cardinality(Kernel) + Cardinality(Counting)
                      + One(ppc = "count")
        /\ queued > 0 => entry
        /\ (queued = 0 /\ cpc # "regloop") => ~entry

(* An update of the poll entries that the poll thread has not seen yet is   *)
(* still in the pipe.                                                       *)
PipeCarriesUpdate == polled # entry => pipe # <<>>

(* With no failing external call every buffer of a running stream is with   *)
(* the driver, referenced, or moving between the two: none is lost.         *)
NoBufferLost ==
    (cpc = "run" /\ ~overrun /\ (Bundled \/ HasCb)
       /\ Faults \cap {"invalidate", "qbuf", "clean"} = {}) =>
        \A b \in Bufs : \/ b \in Kernel \/ refcnt[b] > 0
                        \/ Requeuing(b) # {} \/ Dequeued(b)

(* What the stream promises its users: BufferLoan, where a buffer is on loan *)
(* to every consumer, queue entry and thread that has a reference on it, and *)
(* to the poll thread from DQBUF on.                                         *)
Owner == [b \in Bufs |-> IF b \in Kernel THEN "driver"
                         ELSE IF alloc THEN "user" ELSE "none"]
Loans == [b \in Bufs |-> tokens[b] + cmdQ[b] + PollRefs(b)
                           + Cardinality(Dropping(b)) + One(Dequeued(b))]

Loan == INSTANCE BufferLoan WITH owner <- Owner, loans <- Loans, revoked <- overrun

(* Every step of the stream, of its threads and of the driver is one that    *)
(* BufferLoan allows: a frame goes back to the driver, and the buffers are   *)
(* freed, only when nobody holds one any more.                               *)
ImplementsLoan == Loan!Spec

(* Every buffer of a running stream comes back to the driver.               *)
BufferRecycles ==
    \A b \in Bufs : (cpc = "run" /\ b \notin Kernel)
                      ~> (b \in Kernel \/ cpc # "run")

(* Every filled frame of a running stream is picked up by the poll thread.  *)
FrameIsRead ==
    \A b \in Bufs : (cpc = "run" /\ b \in filled) ~> (b \notin filled)

(* A start or a stop that has begun comes to an end: the joins, the         *)
(* synchronous poll updates and the mapping wait never block for ever.      *)
StartStopEnds == (cpc \notin {"down", "run"}) ~> (cpc \in {"down", "run"})
=============================================================================
