------------------------------ MODULE PostProc ------------------------------
(* The HAL1 post-processor (QCameraPostProc.cpp): the frames of a picture   *)
(* channel are reprocessed by the daemon, encoded by mm-jpeg-interface and  *)
(* given back.  Five threads share its queues: the state machine (start of  *)
(* a picture, JPEG events, cancel), the deferred work thread, the callback  *)
(* threads of the capture and of the reprocess channel, and the data        *)
(* process thread.                                                          *)
(*                                                                          *)
(* A superbuf is <<picture, pass>>: pass 0 comes from the capture channel,  *)
(* pass k from the k-th reprocess channel.                                  *)
EXTENDS Naturals, Sequences, SequencesExt, FiniteSets

CONSTANTS
    Modes,          \* kinds of pictures: passes, regular, pics (how many)
    PPBufs,         \* buffers of a reprocess stream
    MaxSessions,    \* pictures taken (bound)
    MaxFailures     \* failing calls (bound)

ASSUME PostProcAssumption ==
    /\ Modes # {}
    /\ \A m \in Modes : /\ m.passes \in 0 .. 2 /\ m.regular \in BOOLEAN
                        /\ m.pics \in Nat \ {0}
                        /\ m.regular => m.pics = 1      \* isRegularCapture
    /\ PPBufs \in Nat \ {0}
    /\ {MaxSessions, MaxFailures} \subseteq Nat

Pictures == 1 .. MaxSessions * Max({m.pics : m \in Modes})
Queues   == {"inputPPQ", "ongoingPPQ", "inputJpegQ", "ongoingJpegQ"}
PPQueues == {"inputPPQ", "ongoingPPQ"}
NoFrame == <<0, 0>>

VARIABLES
    q, on,      \* the queues and their m_active
    cmds,       \* the command queue of the data process thread
    active,     \* its is_active
    proc,       \* where it is, and its job
    sm,         \* where the state machine is
    def,        \* where the deferred thread is: mReprocJob, then mJpegJob
    cap, pp,    \* the callback threads: where they are, frame and job
    mode,       \* what the current picture asks for
    taking,     \* state PIC_TAKING
    first,      \* the first picture of the session
    next,       \* the next picture of the capture channel
    left,       \* how many are still to come
    stopCap,    \* STOP_CAPTURE_CHANNEL waits for the state machine
    evts,       \* JPEG events waiting for the state machine
    daemon,     \* superbufs given to the daemon for reprocessing
    enc,        \* jobs of the encoder: [id, src]
    lastId,     \* job ids given out by mm-jpeg-interface
    received,   \* superbufs handed to the HAL
    heap,       \* copies that somebody has to free
    back,       \* superbufs given back with bufDone
    twice,      \* history: one was freed or given back twice
    dangling,   \* history: a freed job was left in ongoingPPQ
    answered,   \* pictures whose image or error was reported
    sessions, failures

queueVars  == <<q, on>>
threadVars == <<active, proc, sm, def, cap, pp>>
takeVars   == <<mode, taking, first, next, left, sessions>>
eventVars  == <<stopCap, evts, daemon, enc, lastId>>
frameVars  == <<received, heap, back, twice>>
vars == <<queueVars, cmds, threadVars, takeVars, eventVars, frameVars, dangling,
          answered, failures>>

NoJob == [src |-> NoFrame, base |-> NoFrame, count |-> 0, rel |-> FALSE, id |-> 0]

Init ==
    /\ q = [n \in Queues |-> <<>>] /\ on = [n \in Queues |-> TRUE]
    /\ cmds = <<>> /\ active = FALSE
    /\ proc = [pc |-> "idle", job |-> NoJob]
    /\ sm = "idle" /\ def = "none"
    /\ cap = [pc |-> "idle", frame |-> NoFrame]
    /\ pp = [pc |-> "idle", frame |-> NoFrame, job |-> NoJob]
    /\ mode \in Modes /\ taking = FALSE
    /\ first = 1 /\ next = 1 /\ left = 0 /\ sessions = 0
    /\ stopCap = FALSE /\ evts = <<>> /\ daemon = <<>> /\ enc = {} /\ lastId = 0
    /\ received = {} /\ heap = {} /\ back = {} /\ twice = FALSE
    /\ dangling = FALSE /\ answered = {} /\ failures = 0

-----------------------------------------------------------------------------
(* Frames and jobs.                                                         *)

Fails == failures < MaxFailures /\ failures' = failures + 1

FramesOf(job) == {job.src, job.base} \ {NoFrame}

(* releaseOngoingPPData: which copies are freed, and which buffers given    *)
(* back.  A source frame that is still the input is handled once.           *)
PPReturns(job) ==
    (IF job.rel THEN {} ELSE {job.src}) \cup ({job.base} \ {job.src, NoFrame})

(* releaseJpegJobData.                                                      *)
JpegReturnsSlip(job) ==     \* the source frame behind a reprocessed one is forgotten
    {job.src}
JpegReturns(job) ==
    {job.src} \cup (IF job.rel THEN {} ELSE {job.base} \ {NoFrame})

Returns(n, job) == IF n \in PPQueues THEN PPReturns(job) ELSE JpegReturns(job)

GiveBack(frees, returns) ==
    /\ heap' = heap \ frees
    /\ back' = back \cup returns
    /\ twice' = (twice \/ ~(frees \subseteq heap) \/ returns \cap back # {})
    /\ UNCHANGED received
Release(n, job) == GiveBack(FramesOf(job), Returns(n, job))
ReleaseAll(n) ==
    GiveBack(UNION {FramesOf(job) : job \in ToSet(q[n])},
             UNION {Returns(n, job) : job \in ToSet(q[n])})
Receive(s) ==
    received' = received \cup {s} /\ heap' = heap \cup {s} /\ UNCHANGED <<back, twice>>
NoneReleased == UNCHANGED frameVars

(* QCameraQueue.                                                            *)
PutSlip(n, job) ==          \* an inactive queue takes the job
    q' = [q EXCEPT ![n] = Append(@, job)] /\ UNCHANGED on
Put(n, job) ==
    on[n] /\ q' = [q EXCEPT ![n] = Append(@, job)] /\ UNCHANGED on
Has(n) == on[n] /\ q[n] # <<>>
Pop(n) == q' = [q EXCEPT ![n] = Tail(@)] /\ UNCHANGED on
Flush(n) ==
    IF on[n] THEN /\ ReleaseAll(n)
                  /\ q' = [q EXCEPT ![n] = <<>>] /\ on' = [on EXCEPT ![n] = FALSE]
             ELSE NoneReleased /\ UNCHANGED queueVars

Send(c) == cmds' = Append(cmds, c)

-----------------------------------------------------------------------------
(* A picture is taken.                                                      *)

(* takePicture: the two deferred jobs are queued and the capture channel is *)
(* started.  STOP_CAPTURE_CHANNEL was queued before it, if at all.          *)
TakePicture(m) ==
    /\ sm = "idle" /\ ~taking /\ ~stopCap /\ sessions < MaxSessions
    /\ taking' = TRUE /\ mode' = m /\ left' = m.pics /\ first' = next
    /\ sessions' = sessions + 1 /\ def' = "start"
    /\ UNCHANGED <<queueVars, cmds, active, proc, sm, cap, pp, next, eventVars,
                   frameVars, dangling, answered, failures>>

(* CMD_DEF_PPROC_START: start() sends START and waits for it; a reprocess   *)
(* channel that cannot be added makes it fail before.                       *)
DefStart ==
    /\ def = "start"
    /\ \/ def' = "wait" /\ Send("START") /\ UNCHANGED failures
       \/ mode.passes > 0 /\ Fails /\ def' = "failed" /\ UNCHANGED cmds
    /\ UNCHANGED <<queueVars, active, proc, sm, cap, pp, takeVars, eventVars,
                   frameVars, dangling, answered>>

(* CMD_DEF_CREATE_JPEG_SESSION.  Nobody looks at its result: encodeData      *)
(* creates the session that is missing.                                     *)
DefSession ==
    /\ def = "session" /\ def' = "done"
    /\ UNCHANGED <<queueVars, cmds, active, proc, sm, cap, pp, takeVars, eventVars,
                   frameVars, dangling, answered, failures>>

(* capture_channel_cb_routine copies the superbuf and waits for mReprocJob. *)
CapFrame ==
    /\ cap.pc = "idle" /\ left > 0
    /\ cap' = [pc |-> "wait", frame |-> <<next, 0>>]
    /\ Receive(<<next, 0>>)
    /\ next' = next + 1 /\ left' = left - 1
    /\ UNCHANGED <<queueVars, cmds, active, proc, sm, def, pp, mode, taking, first,
                   sessions, eventVars, dangling, answered, failures>>

(* processData: to the daemon or straight to the encoder.                   *)
Job(s) == IF mode.passes > 0
            THEN [NoJob EXCEPT !.src = s, !.base = s, !.rel = mode.regular]
            ELSE [NoJob EXCEPT !.src = s]
Input == IF mode.passes > 0 THEN "inputPPQ" ELSE "inputJpegQ"
CapIdle == cap' = [pc |-> "idle", frame |-> NoFrame]

ProcessData ==
    /\ cap.pc = "wait" /\ def \in {"session", "done"}
    /\ \/ /\ Put(Input, Job(cap.frame))
          /\ cap' = [cap EXCEPT !.pc = "send"]
          /\ NoneReleased
       \/ /\ ~on[Input] /\ CapIdle
          /\ GiveBack({cap.frame}, {cap.frame})
          /\ UNCHANGED queueVars
    /\ UNCHANGED <<cmds, active, proc, sm, def, pp, takeVars, eventVars, dangling,
                   answered, failures>>

CapSend ==
    /\ cap.pc = "send" /\ CapIdle /\ Send("DO")
    /\ UNCHANGED <<queueVars, active, proc, sm, def, pp, takeVars, eventVars, frameVars,
                   dangling, answered, failures>>

(* The post-processor could not be started.                                 *)
CapRefused ==
    /\ cap.pc = "wait" /\ def = "failed" /\ CapIdle
    /\ GiveBack({cap.frame}, {cap.frame})
    /\ UNCHANGED <<queueVars, cmds, active, proc, sm, def, pp, takeVars, eventVars,
                   dangling, answered, failures>>

-----------------------------------------------------------------------------
(* dataProcessRoutine.                                                      *)

At(pc) == proc.pc = pc
GoTo(pc) == proc' = [pc |-> pc, job |-> NoJob]
Command(c) == At("idle") /\ cmds # <<>> /\ Head(cmds) = c /\ cmds' = Tail(cmds)

StartData ==
    /\ Command("START")
    /\ active' = TRUE /\ on' = [n \in Queues |-> TRUE]
    /\ def' = "session"
    /\ UNCHANGED <<q, proc, sm, cap, pp, takeVars, eventVars, frameVars, dangling,
                   answered, failures>>

(* DO_NEXT_JOB, first part: a JPEG job moves to the ongoing queue.          *)
NextJpegJob ==
    /\ Command("DO") /\ active
    /\ IF Has("inputJpegQ")
         THEN /\ q' = [q EXCEPT !["inputJpegQ"] = Tail(@),
                                !["ongoingJpegQ"] = Append(@, Head(q["inputJpegQ"]))]
              /\ proc' = [pc |-> "encode", job |-> Head(q["inputJpegQ"])]
         ELSE GoTo("reprocess") /\ UNCHANGED q
    /\ UNCHANGED <<on, active, sm, def, cap, pp, takeVars, eventVars, frameVars,
                   dangling, answered, failures>>

(* encodeData up to start_job: a session if one is needed, then the job is  *)
(* the encoder's.  A failure takes the last job back out of the queue.      *)
StartJob ==
    /\ At("encode")
    /\ \/ /\ lastId' = lastId + 1
          /\ enc' = enc \cup {[id |-> lastId + 1, src |-> proc.job.src]}
          /\ proc' = [proc EXCEPT !.pc = "note"]
          /\ NoneReleased /\ UNCHANGED <<q, answered, failures>>
       \/ /\ Fails /\ GoTo("reprocess")
          /\ q' = [q EXCEPT !["ongoingJpegQ"] = Front(@)]
          /\ Release("ongoingJpegQ", proc.job)
          /\ answered' = answered \cup {proc.job.src[1]}
          /\ UNCHANGED <<enc, lastId>>
    /\ UNCHANGED <<on, cmds, active, sm, def, cap, pp, takeVars, stopCap, evts, daemon,
                   dangling>>

(* The id is remembered once start_job has returned.                        *)
NoteJobId ==
    /\ At("note") /\ GoTo("reprocess")
    /\ q' = [q EXCEPT !["ongoingJpegQ"] =
               [i \in DOMAIN @ |-> IF @[i] = proc.job THEN [@[i] EXCEPT !.id = lastId]
                                                      ELSE @[i]]]
    /\ UNCHANGED <<on, cmds, active, sm, def, cap, pp, takeVars, eventVars, frameVars,
                   dangling, answered, failures>>

(* validatePostProcess: frames of the capture channel wait while the        *)
(* reprocess stream has no more buffers than jobs under way.                *)
Held == {s \in received \ back : s[1] >= first /\ s[2] = 1}
MustWait(job) ==
    job.src[2] = 0 /\ Len(q["ongoingPPQ"]) >= PPBufs - Cardinality(Held)

(* doReprocess, first part.                                                 *)
NextPPJob ==
    /\ At("reprocess")
    /\ IF ~Has("inputPPQ") \/ MustWait(Head(q["inputPPQ"]))
         THEN GoTo("capture") /\ UNCHANGED q
         ELSE LET job == [Head(q["inputPPQ"]) EXCEPT !.count = @ + 1]
              IN  /\ q' = [q EXCEPT !["inputPPQ"] = Tail(@),
                                    !["ongoingPPQ"] = Append(@, job)]
                  /\ proc' = [pc |-> "daemon", job |-> job]
    /\ UNCHANGED <<on, cmds, active, sm, def, cap, pp, takeVars, eventVars, frameVars,
                   dangling, answered, failures>>

(* Second part: the daemon gets the frame.  When it does not, the job is    *)
(* freed, with ongoingPPQ still pointing to it.                             *)
Reprocess ==
    /\ At("daemon")
    /\ \/ /\ daemon' = Append(daemon, <<proc.job.src[1], proc.job.count>>)
          /\ GoTo("capture")
          /\ NoneReleased /\ UNCHANGED <<dangling, answered, failures>>
       \/ /\ Fails /\ Release("ongoingPPQ", proc.job) /\ GoTo("idle")
          /\ dangling' = TRUE
          /\ answered' = answered \cup {proc.job.src[1]}
          /\ UNCHANGED daemon
    /\ UNCHANGED <<queueVars, cmds, active, sm, def, cap, pp, takeVars, stopCap, evts,
                   enc, lastId>>

(* stopCapture: a regular capture needs its channel no longer.              *)
StopCapture ==
    /\ At("capture") /\ GoTo("idle")
    /\ stopCap' = (stopCap \/ mode.regular)
    /\ UNCHANGED <<queueVars, cmds, active, sm, def, cap, pp, takeVars, evts, daemon, enc,
                   lastId, frameVars, dangling, answered, failures>>

(* DO_NEXT_JOB while not active.                                            *)
DropJob ==
    /\ Command("DO") /\ ~active
    /\ UNCHANGED <<threadVars, takeVars, eventVars, dangling, answered, failures>>
    /\ IF Has("inputJpegQ")
         THEN Release("inputJpegQ", Head(q["inputJpegQ"])) /\ Pop("inputJpegQ")
         ELSE Flush("inputPPQ")

(* STOP: every ongoing JPEG job is aborted and released, one by one; then   *)
(* the session is left, and the queues are flushed.                         *)
StopData ==
    /\ Command("STOP")
    /\ active' = FALSE /\ GoTo("abort")
    /\ UNCHANGED <<queueVars, sm, def, cap, pp, takeVars, eventVars, frameVars, dangling,
                   answered, failures>>

AbortJobSlip ==             \* the job is taken out of the queue, not from the encoder
    /\ At("abort")
    /\ IF Has("ongoingJpegQ")
         THEN /\ proc' = [pc |-> "release", job |-> Head(q["ongoingJpegQ"])]
              /\ Pop("ongoingJpegQ")
         ELSE GoTo("ongoingPPQ") /\ UNCHANGED queueVars
    /\ UNCHANGED <<cmds, active, sm, def, cap, pp, takeVars, stopCap, evts, daemon, enc,
                   lastId, frameVars, dangling, answered, failures>>

AbortJob ==
    /\ At("abort")
    /\ IF Has("ongoingJpegQ")
         THEN /\ proc' = [pc |-> "release", job |-> Head(q["ongoingJpegQ"])]
              /\ Pop("ongoingJpegQ")
              /\ enc' = {e \in enc : e.id # Head(q["ongoingJpegQ"]).id}
         ELSE GoTo("ongoingPPQ") /\ UNCHANGED <<queueVars, enc>>
    /\ UNCHANGED <<cmds, active, sm, def, cap, pp, takeVars, stopCap, evts, daemon,
                   lastId, frameVars, dangling, answered, failures>>

ReleaseJob ==
    /\ At("release") /\ GoTo("abort")
    /\ Release("ongoingJpegQ", proc.job)
    /\ UNCHANGED <<queueVars, cmds, active, sm, def, cap, pp, takeVars, eventVars, dangling,
                   answered, failures>>

FlushQueue(n, then) ==
    /\ At(n) /\ Flush(n) /\ GoTo(then)
    /\ UNCHANGED <<cmds, active, sm, def, cap, pp, takeVars, eventVars, dangling, answered,
                   failures>>

(* sync_sem is posted; the state machine goes on.                           *)
StopDone ==
    /\ At("stopped") /\ GoTo("idle")
    /\ sm' = "join"
    /\ UNCHANGED <<queueVars, cmds, active, def, cap, pp, takeVars, stopCap, evts, daemon,
                   enc, lastId, frameVars, dangling, answered, failures>>

DataProcess ==
    \/ StartData \/ NextJpegJob \/ StartJob \/ NoteJobId \/ NextPPJob \/ Reprocess
    \/ StopCapture \/ DropJob \/ StopData \/ AbortJob \/ ReleaseJob \/ StopDone
    \/ FlushQueue("ongoingPPQ", "inputJpegQ") \/ FlushQueue("inputJpegQ", "inputPPQ")
    \/ FlushQueue("inputPPQ", "stopped")

-----------------------------------------------------------------------------
(* The daemon, the encoder, and the callbacks they cause.                   *)

(* postproc_channel_cb_routine copies the superbuf and waits for mJpegJob;  *)
(* processPPData then takes the oldest job.                                 *)
PPFrame ==
    /\ pp.pc = "idle" /\ daemon # <<>>
    /\ pp' = [pc |-> "wait", frame |-> Head(daemon), job |-> NoJob]
    /\ daemon' = Tail(daemon)
    /\ Receive(Head(daemon))
    /\ UNCHANGED <<queueVars, cmds, active, proc, sm, def, cap, takeVars, stopCap, evts, enc,
                   lastId, dangling, answered, failures>>

PPIdle == pp' = [pc |-> "idle", frame |-> NoFrame, job |-> NoJob]

(* Without a job the copy is dropped: neither freed nor given back.         *)
TakePPJob ==
    /\ pp.pc = "wait" /\ def = "done"
    /\ IF Has("ongoingPPQ")
         THEN /\ pp' = [pp EXCEPT !.pc = "job", !.job = Head(q["ongoingPPQ"])]
              /\ Pop("ongoingPPQ") /\ NoneReleased
         ELSE /\ PPIdle
              /\ heap' = heap \ {pp.frame}
              /\ UNCHANGED <<queueVars, received, back, twice>>
    /\ UNCHANGED <<cmds, active, proc, sm, def, cap, takeVars, eventVars, dangling, answered,
                   failures>>

(* The frame between two passes is given back after the second.             *)
PassDoneSlip(job) ==        \* what the second pass started from is kept
    {}
PassDone(job) == IF job.count > 1 THEN {job.src} ELSE {}

ProcessPPData ==
    /\ pp.pc = "job"
    /\ LET old  == pp.job
           job  == [old EXCEPT !.src = pp.frame]
           more == old.count < mode.passes
           to   == IF more THEN "inputPPQ" ELSE "inputJpegQ"
       IN  \/ /\ Put(to, job)
              /\ GiveBack(PassDone(old), PassDone(old))
              /\ pp' = [pp EXCEPT !.pc = "send", !.job = NoJob]
           \/ /\ ~on[to] /\ PPIdle
              /\ GiveBack(PassDone(old) \cup FramesOf(job), PassDone(old) \cup Returns(to, job))
              /\ UNCHANGED queueVars
    /\ UNCHANGED <<cmds, active, proc, sm, def, cap, takeVars, eventVars, dangling, answered,
                   failures>>

PPSendSlip ==               \* the data process thread is not told
    /\ pp.pc = "send" /\ PPIdle /\ UNCHANGED cmds
    /\ UNCHANGED <<queueVars, active, proc, sm, def, cap, takeVars, eventVars, frameVars,
                   dangling, answered, failures>>

PPSend ==
    /\ pp.pc = "send" /\ PPIdle /\ Send("DO")
    /\ UNCHANGED <<queueVars, active, proc, sm, def, cap, takeVars, eventVars, frameVars,
                   dangling, answered, failures>>

(* The encoder ends with an image or an error: jpegEvtHandle.               *)
EncodeDone ==
    /\ \E e \in enc : enc' = enc \ {e} /\ evts' = Append(evts, [id |-> e.id, pic |-> e.src[1]])
    /\ UNCHANGED <<queueVars, cmds, threadVars, takeVars, stopCap, daemon, lastId,
                   frameVars, dangling, answered, failures>>

-----------------------------------------------------------------------------
(* The state machine.                                                       *)

(* JPEG_EVT_NOTIFY, processJpegEvt: the job is released, the image or the   *)
(* error reported, and the data process thread told to go on.  Only a state *)
(* that takes pictures handles the event.                                   *)
Done(id) == {i \in DOMAIN q["ongoingJpegQ"] : q["ongoingJpegQ"][i].id = id}

(* flushNodes takes out every job that matches: ids differ, so it is one.   *)
FlushDone(id) ==
    IF Done(id) = {} THEN NoneReleased /\ UNCHANGED q
    ELSE LET i == CHOOSE j \in Done(id) : TRUE
         IN  /\ Release("ongoingJpegQ", q["ongoingJpegQ"][i])
             /\ q' = [q EXCEPT !["ongoingJpegQ"] = RemoveAt(@, i)]

JpegEvent ==
    /\ sm = "idle" /\ evts # <<>>
    /\ evts' = Tail(evts)
    /\ IF taking
         THEN LET id == Head(evts).id
              IN  /\ FlushDone(id)
                  /\ answered' = answered \cup {Head(evts).pic}
                  /\ cmds' = cmds \o (IF q["inputPPQ"] # <<>> THEN <<"DO", "DO">> ELSE <<"DO">>)
         ELSE NoneReleased /\ UNCHANGED <<q, answered, cmds>>
    /\ UNCHANGED <<on, threadVars, takeVars, stopCap, daemon, enc, lastId,
                   dangling, failures>>

(* STOP_CAPTURE_CHANNEL joins the callback thread of the capture channel.   *)
StopCaptureChannel ==
    /\ sm = "idle" /\ stopCap /\ stopCap' = FALSE
    /\ IF taking THEN cap.pc = "idle" /\ left' = 0 ELSE UNCHANGED left
    /\ UNCHANGED <<queueVars, cmds, threadVars, mode, taking, first, next, sessions, evts,
                   daemon, enc, lastId, frameVars, dangling, answered, failures>>

(* cancelPicture, by the application or after the last image: waits for the *)
(* deferred jobs, sends STOP ahead of all other commands and waits for it.  *)
CancelPicture ==
    /\ sm = "idle" /\ taking /\ def \in {"done", "failed"}
    /\ cmds' = <<"STOP">> \o cmds /\ sm' = "wait"
    /\ UNCHANGED <<queueVars, active, proc, def, cap, pp, takeVars, eventVars, frameVars,
                   dangling, answered, failures>>

(* stop() goes on: the reprocess channels are stopped and deleted.          *)
JoinPP ==
    /\ sm = "join" /\ pp.pc = "idle"
    /\ daemon' = <<>> /\ sm' = "close"
    /\ UNCHANGED <<queueVars, cmds, active, proc, def, cap, pp, takeVars, stopCap, evts, enc,
                   lastId, frameVars, dangling, answered, failures>>

(* Last, the capture channel is.                                            *)
JoinCapture ==
    /\ sm = "close" /\ cap.pc = "idle"
    /\ sm' = "idle" /\ taking' = FALSE /\ left' = 0 /\ def' = "none"
    /\ UNCHANGED <<queueVars, cmds, active, proc, cap, pp, mode, first, next, sessions,
                   eventVars, frameVars, dangling, answered, failures>>

-----------------------------------------------------------------------------
Deferred  == DefStart \/ DefSession
Capture   == CapFrame \/ ProcessData \/ CapSend \/ CapRefused
PostCapture == PPFrame \/ TakePPJob \/ ProcessPPData \/ PPSend
Stopping  == StopCaptureChannel \/ JoinPP \/ JoinCapture

(* What is done with a freed job is not modelled: everything ends there.    *)
Next ==
    /\ ~dangling
    /\ \/ \E m \in Modes : TakePicture(m)
       \/ Deferred \/ Capture \/ DataProcess \/ PostCapture \/ EncodeDone
       \/ JpegEvent \/ Stopping \/ CancelPicture

Spec == Init /\ [][Next]_vars

(* Every thread keeps running, and the daemon and the encoder end what they *)
(* were given.  Nobody has to take or to cancel a picture.                  *)
Fairness ==
    /\ WF_vars(~dangling /\ Deferred) /\ WF_vars(~dangling /\ Capture)
    /\ WF_vars(~dangling /\ DataProcess) /\ WF_vars(~dangling /\ PostCapture)
    /\ WF_vars(~dangling /\ EncodeDone)
    /\ WF_vars(~dangling /\ (JpegEvent \/ Stopping))

FairSpec == Spec /\ Fairness

-----------------------------------------------------------------------------
(* Properties.                                                              *)

(* Who has a copy of superbuf s.                                            *)
Holders(s) ==
    (UNION {{<<n, i>> : i \in {j \in DOMAIN q[n] : s \in FramesOf(q[n][j])}} : n \in Queues})
      \cup (IF cap.pc = "wait" /\ cap.frame = s THEN {<<"cap", 0>>} ELSE {})
      \cup (IF pp.pc \in {"wait", "job"} /\ s \in {pp.frame} \cup FramesOf(pp.job)
              THEN {<<"pp", 0>>} ELSE {})
      \cup (IF proc.pc = "release" /\ s \in FramesOf(proc.job) THEN {<<"proc", 0>>} ELSE {})

(* Every superbuf is freed and given back exactly once: at any time exactly *)
(* one queue or thread has its copy, and while pictures are processed only  *)
(* the source of a regular capture, whose channel is gone by then, is freed *)
(* without being given back.  A reprocessed superbuf whose job a stop has   *)
(* flushed is dropped and goes with its channel.                            *)
FramesConserved ==
    ~dangling =>
        /\ ~twice
        /\ \A s \in received : Cardinality(Holders(s)) = IF s \in heap THEN 1 ELSE 0
        /\ active => \A s \in received \ (heap \cup back) :
                        s[1] < first \/ (s[2] = 0 /\ mode.regular)

(* The encoder never reads a frame that was already given back or freed,    *)
(* whether its job is answered, failed or aborted.                          *)
EncoderOwnsFrame == \A e \in enc : e.src \in heap

(* When the synchronous STOP is done nothing is left of the picture: every  *)
(* queue is empty and stays so, and the encoder works on none of its jobs.  *)
StopLeavesNothing ==
    (sm \in {"join", "close"} /\ ~dangling) => enc = {} /\ \A n \in Queues : q[n] = <<>>

(* A job whose answer was handled before start_job had returned its id: no  *)
(* event finds it, and it keeps its frames until the picture is cancelled.  *)
Overtaken ==
    \E job \in ToSet(q["ongoingJpegQ"]) :
        job.id > 0 /\ job.id \notin {e.id : e \in enc} \cup {e.id : e \in ToSet(evts)}

(* Every frame that the capture channel delivers is reported to the         *)
(* application, as an image or as an error, unless the picture is cancelled *)
(* or the post-processor could not be started: no job is left waiting for a *)
(* command that nobody sends, or for buffers that are held for ever by      *)
(* anything but an overtaken job.                                           *)
PicturesEnd ==
    \A p \in Pictures :
        (<<p, 0>> \in received /\ p >= first)
          ~> \/ p \in answered \/ ~taking \/ p < first
             \/ def = "failed" \/ dangling \/ Overtaken
=============================================================================
