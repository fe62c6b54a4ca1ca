-------------------------- MODULE HalStateMachine --------------------------
(***************************************************************************)
(* The HAL1 camera state machine (QCameraStateMachine), the API lock and   *)
(* result list through which a caller waits for it (QCamera2HWI), and the  *)
(* notifier thread that reports finished pictures (QCameraCbNotifier).     *)
(*                                                                         *)
(* One caller issues API calls.  Each command it queues is handled by the  *)
(* state machine thread, which prefers API commands to events; the handler *)
(* is one step, and posts the answer the caller waits for.  The deferred   *)
(* work thread starts the post-processor, the live snapshot thread works   *)
(* beside the state machine, and the notifier counts snapshots and then    *)
(* blocks until the state machine has seen SNAPSHOT_DONE.                  *)
(*                                                                         *)
(* Commands that neither change what is modelled nor fail differently from *)
(* one state to the next (parameters read, focus, messages other than the  *)
(* preview frame, dump) are left out, as are the modes the defaults switch *)
(* off: retro-active pictures, longshot, RAW, early preview restart and    *)
(* dual cameras.                                                           *)
(***************************************************************************)
EXTENDS Naturals, Sequences, SequencesExt

CONSTANTS Calls,        \* what the caller may ask for: sequences of API commands
          Faults,       \* operations of the camera stack that may fail
          MaxCmds,      \* bound: calls start only while the notifier has fewer commands
          MaxStale      \* bound: and while at most so many answers are left over

(* The calls of camera_device_ops as the commands that each issues.        *)
SetParameters   == <<"SET_PARAMS", "SET_PARAMS_STOP", "SET_PARAMS_COMMIT", "SET_PARAMS_RESTART">>
StartRecordings == <<"PRE_START_RECORDING", "START_RECORDING">>
Picture         == <<"PRE_TAKE_PICTURE", "TAKE_PICTURE">>
FlashPicture    == <<"PREPARE_SNAPSHOT", "PRE_TAKE_PICTURE", "TAKE_PICTURE">>
SimpleCalls     == {"SET_PREVIEW_WINDOW", "PREPARE_PREVIEW", "START_PREVIEW", "STOP_PREVIEW",
                    "STOP_RECORDING", "RELEASE_FRAME", "CANCEL_PICTURE", "RELEASE"}
DeviceCalls == {SetParameters, StartRecordings, Picture, FlashPicture}
                 \cup {<<c>> : c \in SimpleCalls}

ASSUME CallsAssumption  == Calls \subseteq DeviceCalls
ASSUME BoundsAssumption == MaxCmds \in Nat \ {0} /\ MaxStale \in Nat

VARIABLES
  state,    \* m_state
  apiQ,     \* api_queue
  evtQ,     \* evt_queue
  caller,   \* the rest of its call, the answer it waits for, m_cond broadcast?
  results,  \* m_apiResultList
  cam,      \* channels, and the parameters that choose them
  pic,      \* the picture: deferred start, post-processor, live thread
  ntf,      \* the notifier: commands, snapshot mode, blocked?
  hist      \* what the caller was told, and what has happened to the daemon

vars == <<state, apiQ, evtQ, caller, results, cam, pic, ntf, hist>>

States == {"PREVIEW_STOPPED", "PREVIEW_READY", "PREVIEWING", "PREPARE_SNAPSHOT",
           "PIC_TAKING", "RECORDING", "VIDEO_PIC_TAKING", "PREVIEW_PIC_TAKING"}

Commands == {"SET_PREVIEW_WINDOW", "PREPARE_PREVIEW", "START_PREVIEW", "STOP_PREVIEW",
             "SET_PARAMS", "SET_PARAMS_STOP", "SET_PARAMS_COMMIT", "SET_PARAMS_RESTART",
             "PRE_START_RECORDING", "START_RECORDING", "STOP_RECORDING",
             "RELEASE_FRAME", "PREPARE_SNAPSHOT", "PRE_TAKE_PICTURE", "TAKE_PICTURE",
             "CANCEL_PICTURE", "RELEASE",
             "STOP_CAPTURE_CHANNEL"}

(* isRecording and the states in which preview frames are expected. *)
RecordingStates == {"RECORDING", "VIDEO_PIC_TAKING"}
PreviewStates   == {"PREVIEWING", "PREPARE_SNAPSHOT", "PREVIEW_PIC_TAKING"} \cup RecordingStates

----------------------------------------------------------------------------
(* What the handlers ask of the camera stack.  Each operation is the set   *)
(* of its outcomes: whether it succeeded, and the channels it leaves.      *)

Outcome(ok, c) == [ok |-> ok, cam |-> c]
Failing(op, outs) == IF op \in Faults THEN outs ELSE {}

(* Preview runs on the ZSL channel, or on the preview channel. *)
KindOf(c) == IF c.zsl /\ ~c.hint THEN "zsl" ELSE "preview"

UnpreparePreview(c) == [c EXCEPT !.pv = "none", !.kind = "none", !.vid = FALSE]
StopPreview(c) == UnpreparePreview(c)

PreparePreview(c) ==
  {Outcome(TRUE, [c EXCEPT !.pv = "added", !.kind = KindOf(c)])}
    \cup Failing("prepare", {Outcome(FALSE, UnpreparePreview(c))})

(* A failure after the channel was started leaves it streaming. *)
StartPreview(c) ==
  IF c.pv = "none" \/ c.kind # KindOf(c)
    THEN {Outcome(FALSE, c)}
    ELSE {Outcome(TRUE, [c EXCEPT !.pv = "on"])}
           \cup Failing("start", {Outcome(FALSE, c), Outcome(FALSE, [c EXCEPT !.pv = "on"])})

StartOrUndo(c) ==
  {IF o.ok THEN o ELSE Outcome(FALSE, UnpreparePreview(o.cam)) : o \in StartPreview(c)}

StartAgain(c) ==
  UNION {IF p.ok THEN StartOrUndo(p.cam) ELSE {p} : p \in PreparePreview(c)}

(* preTakePicture, and the head of TAKE_PICTURE: leave the recording hint. *)
LeaveVideo(c) ==
  IF c.hint THEN StartAgain([StopPreview(c) EXCEPT !.hint = FALSE]) ELSE {Outcome(TRUE, c)}

(* preStartRecording: a start that fails is not undone here. *)
EnterVideo(c) ==
  IF c.hint THEN {Outcome(TRUE, c)}
  ELSE UNION {IF p.ok THEN StartPreview(p.cam) ELSE {p} :
                p \in PreparePreview([StopPreview(c) EXCEPT !.hint = TRUE])}

(* The video and snapshot channels exist only if preview was prepared with *)
(* the recording hint.                                                     *)
HasVideo(c) == c.pv # "none" /\ c.kind = "preview" /\ c.hint

StartRecording(c) ==
  IF HasVideo(c) THEN {Outcome(TRUE, [c EXCEPT !.vid = TRUE])}
                        \cup Failing("record", {Outcome(FALSE, c)})
                 ELSE {Outcome(FALSE, c)}

----------------------------------------------------------------------------
(* A handler works on the state and on what it controls, and replies to    *)
(* the command.  Lands: the outcomes of an operation on the camera, with   *)
(* the state success and failure lead to.                                  *)

World == [state |-> state, cam |-> cam, pic |-> pic, cmds |-> ntf.cmds,
          up |-> hist.up]

Reply(ok, w) == [ok |-> ok, answered |-> TRUE, w |-> w]
SilentSlip(w) == Reply(TRUE, w)
Silent(w) == [ok |-> TRUE, answered |-> FALSE, w |-> w]
To(w, s)     == [w EXCEPT !.state = s]

Lands(w, outs, good, bad) ==
  {Reply(o.ok, [w EXCEPT !.cam = o.cam, !.state = IF o.ok THEN good ELSE bad]) : o \in outs}
OnCamSlip(w, outs) == {Reply(TRUE, r.w) : r \in Lands(w, outs, w.state, w.state)}
OnCam(w, outs) == Lands(w, outs, w.state, w.state)

(* preparePreview, startPreview, and unpreparePreview when that fails. *)
Restart(w, good, noPrepare, noStart) ==
  UNION {IF p.ok THEN Lands(w, StartOrUndo(p.cam), good, noStart)
                 ELSE Lands(w, {p}, noPrepare, noPrepare) : p \in PreparePreview(w.cam)}

(* QCameraPostProcessor::start and stop put their command for the notifier *)
(* before those already queued; stop also aborts what is being encoded.    *)
StartPostproc(w) == [w EXCEPT !.pic.on = TRUE, !.cmds = <<"START">> \o @]
StopPostproc(w)  == [w EXCEPT !.pic.on = FALSE, !.pic.shots = 0, !.cmds = <<"STOP">> \o @]

(* ZSL picture: a request on the running channel.  Still picture: preview  *)
(* stops, and the capture channel is added and started.  The start of the  *)
(* post-processor is left to the deferred work thread, unless the picture  *)
(* fails after it was queued: then it is waited for.                       *)
TakePicture(w) ==
  IF w.cam.zsl
    THEN IF w.cam.kind # "zsl" \/ w.cam.pv = "none" THEN {Reply(FALSE, w)}
         ELSE {Reply(TRUE, [w EXCEPT !.pic.job = @ + 1, !.pic.shots = 1])}
                \cup Failing("request", {Reply(FALSE, StopPostproc(StartPostproc(w)))})
    ELSE LET still == [w EXCEPT !.cam = StopPreview(w.cam)]
         IN  {Reply(TRUE, [still EXCEPT !.cam.cap = TRUE, !.pic.job = @ + 1, !.pic.shots = 1])}
               \cup Failing("capture", {Reply(FALSE, still), Reply(FALSE, StartPostproc(still))})

CancelPicture(w) ==
  LET v == StopPostproc(w) IN IF w.cam.zsl THEN v ELSE [v EXCEPT !.cam.cap = FALSE]

(* takeLiveSnapshot and cancelLiveSnapshot hand the work to a new thread.  *)
Live(w, what) == [w EXCEPT !.pic.live = what]

StopRecording(w)  == [w EXCEPT !.cam.vid = FALSE]
StopAllPreview(w) == [w EXCEPT !.cam = StopPreview(w.cam)]

(* updateParameters stages the new ZSL mode, and asks for a restart if it  *)
(* is a change; commitParameterChanges makes it the current one.           *)
SetParams(w) ==
  {Reply(TRUE, [w EXCEPT !.cam.restart = change]) : change \in BOOLEAN}

(* While recording, a change that needs a restart is an error. *)
SetParamsRecording(w) ==
  {Reply(~change, [w EXCEPT !.cam.restart = FALSE]) : change \in BOOLEAN}

Commit(w) == {Reply(TRUE, [w EXCEPT !.cam.zsl = (@ # w.cam.restart)])}
               \cup Failing("commit", {Reply(FALSE, w)})

NoRestart(replies) == {[r EXCEPT !.w.cam.restart = FALSE] : r \in replies}

(* The commands every state but PREPARE_SNAPSHOT handles alike. *)
Common(cmd, w) ==
  CASE cmd = "SET_PARAMS"        -> SetParams(w)
    [] cmd = "SET_PARAMS_COMMIT" -> Commit(w)
    [] cmd = "STOP_CAPTURE_CHANNEL" -> {Silent(w)}
    [] OTHER                     -> {Reply(FALSE, w)}

----------------------------------------------------------------------------
(* One operator per state: what its handler does with an API command.      *)

PreviewStopped(cmd, w) ==
  CASE cmd = "SET_PREVIEW_WINDOW" -> {Reply(TRUE, [w EXCEPT !.cam.window = TRUE])}
    [] cmd = "SET_PARAMS_RESTART" -> NoRestart({Reply(TRUE, w)})
    [] cmd = "START_PREVIEW" /\ w.cam.window ->
         Restart(w, "PREVIEWING", "PREVIEW_STOPPED", "PREVIEW_STOPPED")
    [] cmd = "PREPARE_PREVIEW" \/ (cmd = "START_PREVIEW" /\ ~w.cam.window) ->
         Lands(w, PreparePreview(w.cam), "PREVIEW_READY", "PREVIEW_STOPPED")
    [] cmd \in {"SET_PARAMS_STOP", "STOP_PREVIEW", "CANCEL_PICTURE", "RELEASE"} -> {Reply(TRUE, w)}
    [] cmd = "RELEASE_FRAME"      -> {Silent(w)}
    [] OTHER                      -> Common(cmd, w)

(* START_PREVIEW is answered with success whatever became of it. *)
PreviewReady(cmd, w) ==
  LET start == Lands(w, StartOrUndo(w.cam), "PREVIEWING", "PREVIEW_STOPPED")
  IN  CASE cmd = "SET_PREVIEW_WINDOW" ->
             Lands(w,
                   {Outcome(o.ok, [o.cam EXCEPT !.window = TRUE]) : o \in StartOrUndo(w.cam)},
                   "PREVIEWING", "PREVIEW_STOPPED")
        [] cmd = "START_PREVIEW"      ->
             IF w.cam.window THEN {Reply(TRUE, r.w) : r \in start} ELSE {Reply(TRUE, w)}
        [] cmd = "STOP_PREVIEW"       ->
             {Reply(TRUE, To([w EXCEPT !.cam = UnpreparePreview(w.cam)], "PREVIEW_STOPPED"))}
        [] cmd = "SET_PARAMS_STOP"    -> {Reply(TRUE, [w EXCEPT !.cam = UnpreparePreview(w.cam)])}
        [] cmd = "SET_PARAMS_RESTART" ->
             NoRestart(Lands(w, PreparePreview(w.cam), "PREVIEW_READY", "PREVIEW_STOPPED"))
        [] cmd = "PREPARE_PREVIEW"    -> {Reply(TRUE, w)}
        [] cmd = "RELEASE_FRAME"      -> {Silent(w)}
        [] OTHER                      -> Common(cmd, w)

(* A still picture that fails leaves preview restarted, or stopped. *)
TakeFromPreview(w) ==
  UNION {LET v == [w EXCEPT !.cam = o.cam]
         IN  IF v.cam.zsl
               THEN {IF r.ok THEN r ELSE Reply(FALSE, To(r.w, "PREVIEWING")) :
                       r \in TakePicture(To(v, "PREVIEW_PIC_TAKING"))}
               ELSE UNION {IF r.ok THEN {r}
                           ELSE {Reply(FALSE, x.w) :
                                   x \in Lands(r.w, StartAgain(StopPreview(r.w.cam)),
                                               "PREVIEWING", "PREVIEW_STOPPED")} :
                             r \in TakePicture(To(v, "PIC_TAKING"))} :
           o \in LeaveVideo(w.cam)}

(* PREPARE_SNAPSHOT that succeeds is answered when the hardware is ready.  *)
Previewing(cmd, w) ==
  CASE cmd = "SET_PARAMS_STOP"     -> {Reply(TRUE, StopAllPreview(w))}
    [] cmd = "SET_PARAMS_RESTART"  ->
         NoRestart(Restart(w, "PREVIEWING", "PREVIEWING", "PREVIEW_STOPPED"))
    [] cmd = "START_PREVIEW"       -> {Reply(TRUE, w)}
    [] cmd = "STOP_PREVIEW"        ->
         {Reply(TRUE, To(StopAllPreview(w), "PREVIEW_STOPPED"))}
    [] cmd = "PRE_START_RECORDING" -> OnCam(w, EnterVideo(w.cam))
    [] cmd = "START_RECORDING"     ->
         Lands(w, StartRecording(w.cam), "RECORDING", "PREVIEWING")
    [] cmd = "PREPARE_SNAPSHOT"    ->
         (IF w.up THEN {Silent(To([w EXCEPT !.pic.prep = TRUE], "PREPARE_SNAPSHOT"))}
          ELSE {Reply(FALSE, w)}) \cup Failing("hardware", {Reply(FALSE, w)})
    [] cmd = "PRE_TAKE_PICTURE"    -> OnCam(w, LeaveVideo(w.cam))
    [] cmd = "TAKE_PICTURE"        -> TakeFromPreview(w)
    [] cmd = "RELEASE_FRAME"       -> {Silent(w)}
    [] cmd \in {"PREPARE_PREVIEW", "CANCEL_PICTURE", "STOP_RECORDING"} -> {Reply(TRUE, w)}
    [] OTHER                       -> Common(cmd, w)

PicTaking(cmd, w) ==
  CASE cmd \in {"STOP_PREVIEW", "CANCEL_PICTURE"} ->
         {Reply(TRUE, To(CancelPicture(w), "PREVIEW_STOPPED"))}
    [] cmd = "SET_PARAMS_STOP"    -> {Reply(TRUE, w)}
    [] cmd = "SET_PARAMS_RESTART" -> NoRestart({Reply(TRUE, w)})
    [] cmd = "STOP_CAPTURE_CHANNEL" -> {Silent([w EXCEPT !.cam.cap = FALSE])}
    [] OTHER                      -> Common(cmd, w)

Recording(cmd, w) ==
  CASE cmd \in {"PREPARE_PREVIEW", "START_PREVIEW", "SET_PREVIEW_WINDOW", "PRE_TAKE_PICTURE",
                "PRE_START_RECORDING", "START_RECORDING", "RELEASE_FRAME", "PREPARE_SNAPSHOT"} ->
         {Reply(TRUE, w)}
    [] cmd = "SET_PARAMS"     -> SetParamsRecording(w)
    [] cmd = "TAKE_PICTURE"   -> {Reply(TRUE, To(Live(w, "take"), "VIDEO_PIC_TAKING"))}
    [] cmd = "STOP_RECORDING" -> {Reply(TRUE, To(StopRecording(w), "PREVIEWING"))}
    [] cmd = "STOP_PREVIEW"   ->
         {Reply(TRUE, To(StopAllPreview(StopRecording(w)), "PREVIEW_STOPPED"))}
    [] OTHER                  -> Common(cmd, w)

VideoPicTaking(cmd, w) ==
  CASE cmd = "SET_PARAMS"     -> SetParamsRecording(w)
    [] cmd = "RELEASE_FRAME"  -> {Reply(TRUE, w)}
    [] cmd = "STOP_RECORDING" -> {Reply(TRUE, To(StopRecording(Live(w, "cancel")), "PREVIEWING"))}
    [] cmd = "CANCEL_PICTURE" -> {Reply(TRUE, To(Live(w, "cancel"), "RECORDING"))}
    [] cmd = "STOP_PREVIEW"   ->
         {Reply(TRUE, To(StopAllPreview(StopRecording(Live(w, "cancel"))), "PREVIEW_STOPPED"))}
    [] OTHER                  -> Common(cmd, w)

CancelAny(w) == IF w.cam.zsl THEN CancelPicture(w) ELSE Live(w, "cancel")

PreviewPicTaking(cmd, w) ==
  CASE cmd = "SET_PARAMS_STOP"    -> {Reply(TRUE, StopAllPreview(w))}
    [] cmd = "SET_PARAMS_RESTART" ->
         NoRestart(Restart(w, "PREVIEW_PIC_TAKING", "PIC_TAKING", "PIC_TAKING"))
    [] cmd = "RELEASE_FRAME"      -> {Reply(TRUE, w)}
    [] cmd = "CANCEL_PICTURE"     -> {Reply(TRUE, To(CancelAny(w), "PREVIEWING"))}
    [] cmd = "STOP_PREVIEW"       ->
         {Reply(TRUE, To([CancelAny(w) EXCEPT !.cam = UnpreparePreview(w.cam)], "PREVIEW_STOPPED"))}
    [] cmd = "PRE_START_RECORDING" /\ ~w.cam.zsl -> OnCam(w, EnterVideo(w.cam))
    [] cmd = "START_RECORDING" /\ ~w.cam.zsl     ->
         Lands(w, StartRecording(w.cam), "VIDEO_PIC_TAKING", "PREVIEW_PIC_TAKING")
    [] OTHER                      -> Common(cmd, w)

HandlerOf(cmd, w) ==
  CASE w.state = "PREVIEW_STOPPED"    -> PreviewStopped(cmd, w)
    [] w.state = "PREVIEW_READY"      -> PreviewReady(cmd, w)
    [] w.state = "PREVIEWING"         -> Previewing(cmd, w)
    [] w.state = "PREPARE_SNAPSHOT"   ->
         {IF cmd = "STOP_CAPTURE_CHANNEL" THEN Silent(w) ELSE Reply(FALSE, w)}
    [] w.state = "PIC_TAKING"         -> PicTaking(cmd, w)
    [] w.state = "RECORDING"          -> Recording(cmd, w)
    [] w.state = "VIDEO_PIC_TAKING"   -> VideoPicTaking(cmd, w)
    [] w.state = "PREVIEW_PIC_TAKING" -> PreviewPicTaking(cmd, w)

----------------------------------------------------------------------------
(* The caller.  Its commands go through the API lock, which it holds until *)
(* it waits; every answer wakes it, and it looks for its own in the list.  *)

Init ==
  /\ state = "PREVIEW_STOPPED"
  /\ apiQ = <<>> /\ evtQ = <<>> /\ results = <<>>
  /\ caller = [todo |-> <<>>, wait |-> "none", woken |-> FALSE]
  /\ cam = [pv |-> "none", kind |-> "none", vid |-> FALSE, cap |-> FALSE,
            window |-> FALSE, zsl |-> FALSE, hint |-> FALSE, restart |-> FALSE]
  /\ pic = [job |-> 0, on |-> FALSE, shots |-> 0, live |-> "none", prep |-> FALSE]
  /\ ntf = [cmds |-> <<>>, data |-> 0, mode |-> "off", sync |-> FALSE]
  /\ hist = [told |-> FALSE, up |-> TRUE]

(* A call starts with its first command.  The camera service makes no more *)
(* calls on a device whose daemon has died, it closes it.  A video frame is *)
(* given back while recording: without a recording the states that preview *)
(* or are stopped never answer it.                                         *)
Ask(call) ==
  /\ caller.wait = "none" /\ hist.up
  /\ Len(ntf.cmds) < MaxCmds /\ Len(results) <= MaxStale
  /\ Head(call) = "RELEASE_FRAME" => state \in RecordingStates
  /\ apiQ' = Append(apiQ, Head(call))
  /\ caller' = [todo |-> Tail(call), wait |-> Head(call), woken |-> FALSE]
  /\ UNCHANGED <<state, evtQ, results, cam, pic, ntf, hist>>

Mine == {i \in DOMAIN results : results[i].api = caller.wait}

(* What is left of a call: set_parameters stops and restarts preview only  *)
(* if that is needed; take_picture goes on whatever came of                *)
(* PREPARE_SNAPSHOT; any other failure ends the call.                      *)
Skipped(c) == c \in {"SET_PARAMS_STOP", "SET_PARAMS_RESTART"} /\ ~cam.restart
Rest(ok) ==
  IF ~ok /\ caller.wait # "PREPARE_SNAPSHOT" THEN <<>>
  ELSE IF caller.todo # <<>> /\ Skipped(Head(caller.todo)) THEN Tail(caller.todo)
  ELSE caller.todo

(* Woken, the caller takes the first answer to its command.                *)
TakeAnswer ==
  /\ caller.wait # "none" /\ caller.woken /\ Mine # {}
  /\ LET i    == CHOOSE j \in Mine : \A k \in Mine : j <= k
         ok   == results[i].ok
         rest == Rest(ok)
     IN  /\ results' = RemoveAt(results, i)
         /\ IF rest = <<>>
              THEN /\ caller' = [todo |-> <<>>, wait |-> "none", woken |-> FALSE]
                   /\ UNCHANGED apiQ
              ELSE /\ caller' = [todo |-> Tail(rest), wait |-> Head(rest), woken |-> FALSE]
                   /\ apiQ' = Append(apiQ, Head(rest))
         /\ hist' = [hist EXCEPT !.told = @ \/ ~ok]
  /\ UNCHANGED <<state, evtQ, cam, pic, ntf>>

----------------------------------------------------------------------------
(* The state machine thread. *)

(* signalAPIResult: the answer joins the list, and everybody is woken.     *)
Answer(api, ok) == [api |-> api, ok |-> ok, asked |-> caller.wait = api]
Signal(answers) ==
  /\ results' = results \o answers
  /\ caller' = [caller EXCEPT !.woken = @ \/ answers # <<>>]

Become(w) ==
  /\ state' = w.state /\ cam' = w.cam /\ pic' = w.pic
  /\ ntf' = [ntf EXCEPT !.cmds = w.cmds]

(* cancelPicture waits for the deferred start; a live snapshot, or its     *)
(* cancellation, for the thread of the one before.                         *)
Blocked(s, ends, takes) ==
  \/ ends /\ (s = "PIC_TAKING" \/ (s = "PREVIEW_PIC_TAKING" /\ cam.zsl)) /\ pic.job > 0
  \/ ends /\ (s = "VIDEO_PIC_TAKING" \/ (s = "PREVIEW_PIC_TAKING" /\ ~cam.zsl)) /\ pic.live # "none"
  \/ takes /\ s = "RECORDING" /\ pic.live # "none"

EndsPicture(cmd) ==
  cmd \in {"STOP_PREVIEW", "CANCEL_PICTURE"} \/ (cmd = "STOP_RECORDING" /\ state = "VIDEO_PIC_TAKING")

HandleApi ==
  /\ apiQ # <<>>
  /\ LET cmd == Head(apiQ)
     IN  /\ ~Blocked(state, EndsPicture(cmd), cmd = "TAKE_PICTURE")
         /\ \E r \in HandlerOf(cmd, World) :
              /\ Become(r.w)
              /\ Signal(IF r.answered THEN <<Answer(cmd, r.ok)>> ELSE <<>>)
  /\ apiQ' = Tail(apiQ)
  /\ hist' = [hist EXCEPT !.told = @ /\ cam'.pv # "on"]
  /\ UNCHANGED evtQ

SnapshotDoneSlip(w) ==
  CASE w.state = "PIC_TAKING" -> To(CancelPicture(w), "PREVIEW_STOPPED")
    [] w.state \in {"PREVIEW_PIC_TAKING", "VIDEO_PIC_TAKING"} -> To(CancelAny(w), "PREVIEWING")
    [] OTHER -> w

(* SNAPSHOT_DONE ends the picture of whatever state it meets, and lets the *)
(* notifier go on.                                                         *)
SnapshotDone(w) ==
  CASE w.state = "PIC_TAKING"         -> To(CancelPicture(w), "PREVIEW_STOPPED")
    [] w.state = "VIDEO_PIC_TAKING"   -> To(Live(w, "cancel"), "RECORDING")
    [] w.state = "PREVIEW_PIC_TAKING" -> To(CancelAny(w), "PREVIEWING")
    [] OTHER                          -> w

HandleSnapshotDoneSlip ==
  /\ apiQ = <<>> /\ evtQ # <<>> /\ Head(evtQ) = "SNAPSHOT_DONE"
  /\ ~Blocked(state, TRUE, FALSE)
  /\ LET w == SnapshotDone(World)
     IN  /\ state' = w.state /\ cam' = w.cam /\ pic' = w.pic
         /\ ntf' = [ntf EXCEPT !.cmds = w.cmds, !.sync = (w = World)]
  /\ evtQ' = Tail(evtQ)
  /\ UNCHANGED <<apiQ, caller, results, hist>>

HandleSnapshotDone ==
  /\ apiQ = <<>> /\ evtQ # <<>> /\ Head(evtQ) = "SNAPSHOT_DONE"
  /\ ~Blocked(state, TRUE, FALSE)
  /\ LET w == SnapshotDone(World)
     IN  /\ state' = w.state /\ cam' = w.cam /\ pic' = w.pic
         /\ ntf' = [ntf EXCEPT !.cmds = w.cmds, !.sync = FALSE]
  /\ evtQ' = Tail(evtQ)
  /\ UNCHANGED <<apiQ, caller, results, hist>>

HandlePrepDone ==
  /\ apiQ = <<>> /\ evtQ # <<>> /\ Head(evtQ) = "PREP_SNAPSHOT_DONE"
  /\ IF state = "PREPARE_SNAPSHOT"
       THEN state' = "PREVIEWING" /\ Signal(<<Answer("PREPARE_SNAPSHOT", TRUE)>>)
       ELSE UNCHANGED <<state, results, caller>>
  /\ evtQ' = Tail(evtQ)
  /\ UNCHANGED <<apiQ, cam, pic, ntf, hist>>

HandleDaemonDiedSlip ==
  /\ apiQ = <<>> /\ evtQ # <<>> /\ Head(evtQ) = "DAEMON_DIED"
  /\ IF state \in {"PIC_TAKING", "PREVIEW_PIC_TAKING"}
       THEN Signal(<<Answer("PREPARE_SNAPSHOT", TRUE), Answer("TAKE_PICTURE", TRUE)>>)
       ELSE UNCHANGED <<results, caller>>
  /\ evtQ' = Tail(evtQ)
  /\ hist' = [hist EXCEPT !.told = TRUE]
  /\ UNCHANGED <<state, apiQ, cam, pic, ntf>>

(* The daemon's death: answers for the calls that may wait for it, and an  *)
(* error for the caller.                                                   *)
HandleDaemonDied ==
  /\ apiQ = <<>> /\ evtQ # <<>> /\ Head(evtQ) = "DAEMON_DIED"
  /\ IF state \in {"PREPARE_SNAPSHOT", "PIC_TAKING", "PREVIEW_PIC_TAKING"}
       THEN Signal(<<Answer("PREPARE_SNAPSHOT", TRUE), Answer("TAKE_PICTURE", TRUE)>>)
       ELSE UNCHANGED <<results, caller>>
  /\ evtQ' = Tail(evtQ)
  /\ hist' = [hist EXCEPT !.told = TRUE]
  /\ UNCHANGED <<state, apiQ, cam, pic, ntf>>

HandleEvt == HandleSnapshotDone \/ HandlePrepDone \/ HandleDaemonDied

----------------------------------------------------------------------------
(* The threads beside it. *)

(* deferredWorkRoutine, CMD_DEF_PPROC_START. *)
DeferredStart ==
  /\ pic.job > 0
  /\ \E w \in {StartPostproc(World)} \cup Failing("postproc", {World}) :
       Become([w EXCEPT !.pic.job = @ - 1])
  /\ UNCHANGED <<apiQ, evtQ, caller, results, hist>>

(* Live_Snapshot_thread, bLiveSnapshot: takeLiveSnapshot_internal.  One    *)
(* that fails cancels the picture, unless it is the rotation that fails.   *)
LiveTake ==
  /\ pic.live = "take"
  /\ \/ /\ HasVideo(cam)
        /\ pic' = [pic EXCEPT !.live = "none", !.job = @ + 1, !.shots = 1]
        /\ UNCHANGED <<apiQ, hist>>
     \/ /\ "live" \in Faults \/ ~HasVideo(cam)
        /\ pic' = [pic EXCEPT !.live = "none"]
        /\ \/ apiQ' = Append(apiQ, "CANCEL_PICTURE") /\ hist' = [hist EXCEPT !.told = TRUE]
           \/ UNCHANGED <<apiQ, hist>>
  /\ UNCHANGED <<state, evtQ, caller, results, cam, ntf>>

(* Live_Snapshot_thread otherwise: cancelLiveSnapshot_internal. *)
LiveCancel ==
  /\ pic.live = "cancel" /\ pic.job = 0
  /\ Become([StopPostproc(World) EXCEPT !.pic.live = "none"])
  /\ UNCHANGED <<apiQ, evtQ, caller, results, hist>>

(* capture_channel_cb_routine waits for the deferred start; the picture is *)
(* encoded and queued for the notifier.  The last frame of a still picture *)
(* has the capture channel stopped.                                        *)
Deliver ==
  /\ pic.shots > 0 /\ pic.job = 0
  /\ pic' = [pic EXCEPT !.shots = @ - 1]
  /\ ntf' = IF pic.on THEN [ntf EXCEPT !.cmds = Append(@, "NEXT"), !.data = @ + 1] ELSE ntf
  /\ apiQ' = IF pic.on /\ cam.cap THEN Append(apiQ, "STOP_CAPTURE_CHANNEL") ELSE apiQ
  /\ UNCHANGED <<state, evtQ, caller, results, cam, hist>>

(* cbNotifyRoutine.  One snapshot is expected: its arrival is reported,    *)
(* and the notifier waits until the state machine has handled the report.  *)
Notify ==
  /\ ntf.cmds # <<>> /\ ~ntf.sync
  /\ LET cmd   == Head(ntf.cmds)
         n     == [ntf EXCEPT !.cmds = Tail(@)]
         final == cmd = "NEXT" /\ ntf.data > 0 /\ ntf.mode = "due"
     IN  /\ ntf' = CASE cmd = "START" -> [n EXCEPT !.mode = "due"]
                     [] cmd = "STOP"  -> [n EXCEPT !.mode = "off", !.data = 0]
                     [] cmd = "NEXT" /\ ntf.data = 0 -> n
                     [] cmd = "NEXT" /\ ntf.data > 0 ->
                          [n EXCEPT !.data = @ - 1, !.sync = final,
                                    !.mode = IF final THEN "done" ELSE @]
         /\ evtQ' = IF final THEN Append(evtQ, "SNAPSHOT_DONE") ELSE evtQ
  /\ UNCHANGED <<state, apiQ, caller, results, cam, pic, hist>>

(* The backend reports the prepared snapshot, through preview metadata. *)
PrepDone ==
  /\ pic.prep /\ hist.up /\ cam.pv = "on"
  /\ pic' = [pic EXCEPT !.prep = FALSE]
  /\ evtQ' = Append(evtQ, "PREP_SNAPSHOT_DONE")
  /\ UNCHANGED <<state, apiQ, caller, results, cam, ntf, hist>>

DaemonDies ==
  /\ "daemon" \in Faults /\ hist.up /\ caller.wait # "none"
  /\ hist' = [hist EXCEPT !.up = FALSE]
  /\ evtQ' = Append(evtQ, "DAEMON_DIED")
  /\ UNCHANGED <<state, apiQ, caller, results, cam, pic, ntf>>

Next == (\E call \in Calls : Ask(call)) \/ TakeAnswer \/ HandleApi \/ HandleEvt \/ DeferredStart \/ LiveTake \/ LiveCancel
          \/ Deliver \/ Notify \/ PrepDone \/ DaemonDies

Spec == Init /\ [][Next]_vars

(* Every thread gets its turn.  API commands go before events, but the one *)
(* caller waits for each of its commands, so events come in between.       *)
Fairness ==
  /\ WF_vars(TakeAnswer) /\ WF_vars(HandleApi) /\ SF_vars(HandleEvt)
  /\ WF_vars(DeferredStart) /\ WF_vars(LiveTake) /\ WF_vars(LiveCancel)
  /\ WF_vars(Deliver) /\ WF_vars(Notify) /\ SF_vars(PrepDone)

FairSpec == Spec /\ Fairness

----------------------------------------------------------------------------
(* waitAPIResult knows an answer by its command only, so an answer nobody  *)
(* asked for would be taken for the next call's.  Only a live snapshot     *)
(* that failed and the daemon's death leave such answers.                  *)
AnswersAwaited ==
  \A i \in DOMAIN results :
    \/ results[i].asked /\ results[i].api = caller.wait
    \/ results[i].api = "CANCEL_PICTURE" /\ "live" \in Faults
    \/ results[i].api \in {"PREPARE_SNAPSHOT", "TAKE_PICTURE"} /\ ~hist.up

(* The channels that run are those of the state, by whichever handler and  *)
(* after whichever failure it was reached: none in PREVIEW_STOPPED, and     *)
(* video in the recording states and in no other.                           *)
StateMatchesChannels ==
  /\ state = "PREVIEW_STOPPED" => cam.pv = "none"
  /\ state \in RecordingStates <=> cam.vid

(* When the states promise preview and the caller has nothing under way,   *)
(* preview runs, or the caller has been told of a failure.                 *)
NoSilentLoss ==
  (state \in PreviewStates /\ caller.wait = "none")
     => cam.pv = "on" \/ hist.told

(* Every call returns, unless it waits for a snapshot to be prepared and   *)
(* there is no preview whose metadata could report it.                     *)
CallsReturn ==
  (caller.wait # "none") ~> (caller.wait = "none" \/ (state = "PREPARE_SNAPSHOT" /\ cam.pv # "on"))

(* The notifier, blocked in processSyncEvt, gets out again: no handler     *)
(* waits for the notifier while the notifier waits for it.                 *)
NotifierReturns == ntf.sync ~> ~ntf.sync
=============================================================================
