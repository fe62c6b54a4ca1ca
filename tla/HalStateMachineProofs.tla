------------------------ MODULE HalStateMachineProofs ------------------------
(* Proofs about HalStateMachine: no answer is mistaken for another one's,   *)
(* the channels are those of the state, and a preview that is lost is       *)
(* reported.  All three need to know where the command or the answer of the *)
(* caller is, and what the calls issue in which order.                      *)
EXTENDS HalStateMachine, SequenceTheorems, WellFoundedInduction, TLAPS

-----------------------------------------------------------------------------
(* Types.                                                                   *)

Cams == [pv : {"none", "added", "on"}, kind : {"none", "zsl", "preview"}, vid : BOOLEAN,
         cap : BOOLEAN, window : BOOLEAN, zsl : BOOLEAN, hint : BOOLEAN, restart : BOOLEAN]
Pics == [job : Nat, on : BOOLEAN, shots : Nat, live : {"none", "take", "cancel"}, prep : BOOLEAN]
Answers == [api : Commands, ok : BOOLEAN, asked : BOOLEAN]
Events  == {"SNAPSHOT_DONE", "PREP_SNAPSHOT_DONE", "DAEMON_DIED"}
Notices == Seq({"START", "STOP", "NEXT"})
Worlds  == [state : States, cam : Cams, pic : Pics, cmds : Notices, up : BOOLEAN]
Replies == [ok : BOOLEAN, answered : BOOLEAN, w : Worlds]

(* What a call still has to issue once it has issued c. *)
After(c) ==
    CASE c = "SET_PARAMS"          -> <<"SET_PARAMS_STOP", "SET_PARAMS_COMMIT", "SET_PARAMS_RESTART">>
      [] c = "SET_PARAMS_STOP"     -> <<"SET_PARAMS_COMMIT", "SET_PARAMS_RESTART">>
      [] c = "SET_PARAMS_COMMIT"   -> <<"SET_PARAMS_RESTART">>
      [] c = "PRE_START_RECORDING" -> <<"START_RECORDING">>
      [] c = "PREPARE_SNAPSHOT"    -> <<"PRE_TAKE_PICTURE", "TAKE_PICTURE">>
      [] c = "PRE_TAKE_PICTURE"    -> <<"TAKE_PICTURE">>
      [] OTHER                     -> <<>>

HalTypes ==
    /\ state \in States
    /\ apiQ \in Seq(Commands) /\ evtQ \in Seq(Events) /\ results \in Seq(Answers)
    /\ caller.wait \in (Commands \ {"STOP_CAPTURE_CHANNEL"}) \cup {"none"}
    /\ caller.woken \in BOOLEAN
    /\ caller = [todo |-> After(caller.wait), wait |-> caller.wait, woken |-> caller.woken]
    /\ cam \in Cams /\ pic \in Pics
    /\ ntf \in [cmds : Notices, data : Nat, mode : {"off", "due", "done"}, sync : BOOLEAN]
    /\ hist \in [told : BOOLEAN, up : BOOLEAN]

-----------------------------------------------------------------------------
(* The invariant.                                                           *)

(* Answers that no call asked for, or that another thread did. *)
Strays ==
    (IF "live" \in Faults THEN {"CANCEL_PICTURE"} ELSE {})
      \cup (IF hist.up THEN {} ELSE {"PREPARE_SNAPSHOT", "TAKE_PICTURE"})

(* A command that only the caller queues, and that is answered. *)
Own(c) == c # "STOP_CAPTURE_CHANNEL" /\ ~(c = "CANCEL_PICTURE" /\ "live" \in Faults)

(* What the caller waits for is in one place: queued, answered, or with the *)
(* backend that prepares a snapshot.                                        *)
NoneQueued   == \A i \in DOMAIN apiQ : ~Own(apiQ[i])
NoneAnswered == \A i \in DOMAIN results : results[i].api \in Strays
Preparing    == state = "PREPARE_SNAPSHOT" /\ hist.up
AnswerInv ==
    /\ \A i \in DOMAIN apiQ : apiQ[i] = caller.wait \/ ~Own(apiQ[i])
    /\ \A i, k \in DOMAIN apiQ : Own(apiQ[i]) /\ Own(apiQ[k]) => i = k
    /\ \A i \in DOMAIN results :
          results[i].api \in Strays \/ (results[i].asked /\ results[i].api = caller.wait)
    /\ \A i, k \in DOMAIN results : i = k \/ results[i].api \in Strays \/ results[k].api \in Strays
    /\ NoneQueued \/ NoneAnswered
    /\ Preparing => NoneQueued /\ NoneAnswered /\ caller.wait = "PREPARE_SNAPSHOT"
    /\ \A i \in DOMAIN evtQ : evtQ[i] = "DAEMON_DIED" => ~hist.up

(* A caller that wakes while its own command is still queued finds no answer *)
(* that it could take for its own: what daemon and live snapshot leave       *)
(* behind is of another kind, or nothing is left that could wake it.         *)
WaitInv ==
    /\ caller.woken /\ ~NoneQueued => \A i \in DOMAIN results : results[i].api # caller.wait
    /\ caller.wait = "PREPARE_SNAPSHOT" /\ ~NoneQueued =>
          \A i \in DOMAIN results : results[i].api # "PREPARE_SNAPSHOT"
    /\ (\/ caller.wait \in {"PREPARE_SNAPSHOT", "PRE_TAKE_PICTURE"}
        \/ caller.wait = "TAKE_PICTURE" /\ ~NoneQueued)
       /\ (\E i \in DOMAIN results : results[i].api = "TAKE_PICTURE")
         => pic.live # "take" /\ \A i \in DOMAIN apiQ : apiQ[i] # "CANCEL_PICTURE"

(* The channels of each state, and the live snapshot under way. *)
Channels(w) ==
    /\ w.state \in {"PREVIEW_STOPPED", "PIC_TAKING"} => w.cam.pv = "none"
    /\ w.state \in RecordingStates <=> w.cam.vid
    /\ w.cam.vid => HasVideo(w.cam)
    /\ w.pic.live = "take" => w.state = "VIDEO_PIC_TAKING"

(* A call that has come to stopping or restarting the preview was asked to; *)
(* one that has come to taking the picture has left the recording hint.     *)
Succeeded(c) == \E i \in DOMAIN results : results[i].api = c /\ results[i].ok
Failed(c)    == \E i \in DOMAIN results : results[i].api = c /\ ~results[i].ok
CallInv ==
    /\ caller.wait = "SET_PARAMS_STOP" => cam.restart
    /\ caller.wait = "TAKE_PICTURE" \/ (caller.wait = "PRE_TAKE_PICTURE" /\ Succeeded("PRE_TAKE_PICTURE"))
         => ~cam.hint \/ state \in RecordingStates

(* A preview that does not run is about to be restarted, or the caller is   *)
(* about to be told.                                                        *)
Restarting ==
    \/ caller.wait = "SET_PARAMS_STOP"
    \/ caller.wait = "SET_PARAMS_COMMIT" /\ cam.restart
    \/ caller.wait = "SET_PARAMS_RESTART" /\ \E i \in DOMAIN apiQ : apiQ[i] = "SET_PARAMS_RESTART"
Reported ==
    Failed(caller.wait) /\ caller.wait \notin {"CANCEL_PICTURE", "PREPARE_SNAPSHOT", "TAKE_PICTURE"}
LossInv ==
    state \in PreviewStates => cam.pv = "on" \/ hist.told \/ Restarting \/ Reported

HalInv == HalTypes /\ AnswerInv /\ WaitInv /\ Channels(World) /\ CallInv /\ LossInv

-----------------------------------------------------------------------------
(* What the operations on the camera stack leave behind.                    *)

Outcomes == [ok : BOOLEAN, cam : Cams]

(* The settings that an operation does not touch. *)
SameSettings(c, d) == d.zsl = c.zsl /\ d.restart = c.restart

LEMMA Unprepared ==
  ASSUME NEW c \in Cams
  PROVE  /\ UnpreparePreview(c) \in Cams /\ SameSettings(c, UnpreparePreview(c))
         /\ UnpreparePreview(c).pv = "none" /\ ~UnpreparePreview(c).vid
         /\ UnpreparePreview(c).hint = c.hint
         /\ StopPreview(c) = UnpreparePreview(c)
BY DEF UnpreparePreview, StopPreview, Cams, SameSettings

LEMMA Prepared ==
  ASSUME NEW c \in Cams, NEW o \in PreparePreview(c)
  PROVE  /\ o \in Outcomes /\ SameSettings(c, o.cam) /\ o.cam.hint = c.hint
         /\ IF o.ok THEN o.cam.pv = "added" /\ o.cam.vid = c.vid
                    ELSE o.cam.pv = "none" /\ ~o.cam.vid
<1>1. CASE o = Outcome(TRUE, [c EXCEPT !.pv = "added", !.kind = KindOf(c)])
  BY <1>1 DEF Outcome, KindOf, Cams, Outcomes, SameSettings
<1>2. CASE o = Outcome(FALSE, UnpreparePreview(c))
  BY <1>2, Unprepared DEF Outcome, Outcomes
<1> QED
  BY <1>1, <1>2 DEF PreparePreview, Failing

LEMMA Started ==
  ASSUME NEW c \in Cams, NEW o \in StartPreview(c)
  PROVE  /\ o \in Outcomes /\ SameSettings(c, o.cam) /\ o.cam.hint = c.hint
         /\ o.cam.vid = c.vid /\ (o.ok => o.cam.pv = "on")
<1>1. CASE o = Outcome(FALSE, c)
  BY <1>1 DEF Outcome, Outcomes, SameSettings
<1>2. ASSUME NEW b \in BOOLEAN, o = Outcome(b, [c EXCEPT !.pv = "on"])
      PROVE  /\ o \in Outcomes /\ SameSettings(c, o.cam) /\ o.cam.hint = c.hint
             /\ o.cam.vid = c.vid /\ o.cam.pv = "on"
  BY <1>2 DEF Outcome, Cams, Outcomes, SameSettings
<1> QED
  BY <1>1, <1>2 DEF StartPreview, Failing

LEMMA StartedOrUndone ==
  ASSUME NEW c \in Cams, NEW o \in StartOrUndo(c)
  PROVE  /\ o \in Outcomes /\ SameSettings(c, o.cam) /\ o.cam.hint = c.hint
         /\ IF o.ok THEN o.cam.pv = "on" /\ o.cam.vid = c.vid
                    ELSE o.cam.pv = "none" /\ ~o.cam.vid
<1>1. PICK p \in StartPreview(c) : o = IF p.ok THEN p ELSE Outcome(FALSE, UnpreparePreview(p.cam))
  BY DEF StartOrUndo
<1>2. /\ p \in Outcomes /\ SameSettings(c, p.cam) /\ p.cam.hint = c.hint
      /\ p.cam.vid = c.vid /\ (p.ok => p.cam.pv = "on")
  BY Started
<1>3. CASE p.ok
  BY <1>1, <1>2, <1>3
<1>4. CASE ~p.ok
  BY <1>1, <1>2, <1>4, Unprepared DEF Outcome, Outcomes, SameSettings
<1> QED
  BY <1>3, <1>4

LEMMA StartedAgain ==
  ASSUME NEW c \in Cams, NEW o \in StartAgain(c)
  PROVE  /\ o \in Outcomes /\ SameSettings(c, o.cam) /\ o.cam.hint = c.hint
         /\ IF o.ok THEN o.cam.pv = "on" /\ o.cam.vid = c.vid
                    ELSE o.cam.pv = "none" /\ ~o.cam.vid
<1>1. PICK p \in PreparePreview(c) : o \in IF p.ok THEN StartOrUndo(p.cam) ELSE {p}
  BY DEF StartAgain
<1>2. /\ p \in Outcomes /\ SameSettings(c, p.cam) /\ p.cam.hint = c.hint
      /\ IF p.ok THEN p.cam.vid = c.vid ELSE p.cam.pv = "none" /\ ~p.cam.vid
  BY Prepared
<1>3. CASE p.ok
  <2>1. o \in StartOrUndo(p.cam) /\ p.cam \in Cams
    BY <1>1, <1>2, <1>3 DEF Outcomes
  <2> QED
    BY <2>1, <1>2, <1>3, StartedOrUndone DEF SameSettings
<1>4. CASE ~p.ok
  BY <1>1, <1>2, <1>4
<1> QED
  BY <1>3, <1>4

LEMMA OutcomeFields ==
  ASSUME NEW b \in BOOLEAN, NEW c \in Cams
  PROVE  Outcome(b, c) \in Outcomes /\ (Outcome(b, c).ok <=> b) /\ Outcome(b, c).cam = c
BY DEF Outcome, Outcomes

LEMMA VideoLeft ==
  ASSUME NEW c \in Cams, ~c.vid, NEW o \in LeaveVideo(c)
  PROVE  /\ o \in Outcomes /\ SameSettings(c, o.cam) /\ ~o.cam.vid /\ ~o.cam.hint
         /\ c.hint => o.cam.pv = IF o.ok THEN "on" ELSE "none"
         /\ ~c.hint => o = Outcome(TRUE, c)
<1> DEFINE d == [StopPreview(c) EXCEPT !.hint = FALSE]
<1>1. CASE c.hint
  <2>1. d \in Cams /\ SameSettings(c, d) /\ ~d.vid /\ ~d.hint
    <3>1. PICK u \in Cams : u = StopPreview(c) /\ SameSettings(c, u) /\ ~u.vid
      BY Unprepared
    <3> QED
      BY <3>1 DEF Cams, SameSettings
  <2>2. o \in StartAgain(d)
    BY <1>1 DEF LeaveVideo
  <2> HIDE DEF d
  <2> QED
    BY <1>1, <2>1, <2>2, StartedAgain DEF SameSettings
<1>2. CASE ~c.hint
  <2>1. o = Outcome(TRUE, c)
    BY <1>2 DEF LeaveVideo
  <2> QED
    BY <1>2, <2>1, OutcomeFields DEF SameSettings
<1> QED
  BY <1>1, <1>2

LEMMA VideoEntered ==
  ASSUME NEW c \in Cams, ~c.vid, NEW o \in EnterVideo(c)
  PROVE  /\ o \in Outcomes /\ SameSettings(c, o.cam) /\ ~o.cam.vid
         /\ o.ok => o.cam.pv = "on" \/ o.cam = c
<1> DEFINE d == [StopPreview(c) EXCEPT !.hint = TRUE]
<1>1. CASE ~c.hint
  <2>1. d \in Cams /\ SameSettings(c, d) /\ ~d.vid
    BY Unprepared, ZenonT(60) DEF Cams, SameSettings
  <2>2. PICK p \in PreparePreview(d) : o \in IF p.ok THEN StartPreview(p.cam) ELSE {p}
    BY <1>1 DEF EnterVideo
  <2> HIDE DEF d
  <2>3. p \in Outcomes /\ SameSettings(c, p.cam) /\ ~p.cam.vid
    BY <2>1, Prepared DEF SameSettings
  <2>4. CASE p.ok
    <3>1. o \in StartPreview(p.cam) /\ p.cam \in Cams
      BY <2>2, <2>3, <2>4 DEF Outcomes
    <3> QED
      BY <3>1, <2>3, Started DEF SameSettings
  <2> QED
    BY <2>2, <2>3, <2>4
<1>2. CASE c.hint
  <2>1. o = Outcome(TRUE, c)
    BY <1>2 DEF EnterVideo
  <2> QED
    BY <1>2, <2>1, OutcomeFields DEF SameSettings
<1> QED
  BY <1>1, <1>2

LEMMA RecordingStarted ==
  ASSUME NEW c \in Cams, ~c.vid, NEW o \in StartRecording(c)
  PROVE  /\ o \in Outcomes /\ SameSettings(c, o.cam) /\ o.cam.hint = c.hint
         /\ o.cam.pv = c.pv /\ (o.cam.vid <=> o.ok) /\ (o.ok => HasVideo(o.cam))
<1>1. CASE o = Outcome(FALSE, c)
  BY <1>1, OutcomeFields DEF SameSettings
<1>2. CASE HasVideo(c) /\ o = Outcome(TRUE, [c EXCEPT !.vid = TRUE])
  BY <1>2 DEF Outcome, Cams, Outcomes, SameSettings, HasVideo
<1> QED
  BY <1>1, <1>2 DEF StartRecording, Failing

-----------------------------------------------------------------------------
(* What a handler does with a command, as far as the invariant depends on   *)
(* it.                                                                      *)

Lost(w) == w.state \in PreviewStates /\ w.cam.pv # "on"
Unlisted == {"CANCEL_PICTURE", "PREPARE_SNAPSHOT", "TAKE_PICTURE"}
Post(cmd, w, r) ==
    /\ r \in Replies /\ (r.w.up <=> w.up) /\ Channels(r.w)
    /\ cmd = "STOP_CAPTURE_CHANNEL" => ~r.answered
    /\ r.w.pic.live = "take" => w.pic.live = "take" \/ cmd = "TAKE_PICTURE"
    /\ r.w.state = "PREPARE_SNAPSHOT" =>
          w.state = "PREPARE_SNAPSHOT" \/ (cmd = "PREPARE_SNAPSHOT" /\ ~r.answered)
    /\ cmd \notin {"SET_PARAMS", "SET_PARAMS_RESTART"} => (r.w.cam.restart <=> w.cam.restart)
    /\ cmd # "PRE_START_RECORDING" /\ r.w.cam.hint => w.cam.hint
    /\ cmd = "PRE_TAKE_PICTURE" /\ r.ok => ~r.w.cam.hint \/ r.w.state \in RecordingStates
    /\ w.state \in RecordingStates /\ cmd \in Unlisted \cup {"PRE_TAKE_PICTURE", "STOP_CAPTURE_CHANNEL"}
          => r.w.state \in RecordingStates
    /\ Lost(r.w) => \/ r.answered /\ ~r.ok /\ cmd \notin Unlisted
                    \/ cmd = "SET_PARAMS_STOP"
                    \/ Lost(w) /\ cmd # "SET_PARAMS_RESTART"
                    \/ cmd = "TAKE_PICTURE" /\ w.cam.hint /\ w.state = "PREVIEWING"

(* Reply and Silent with what happened to the state and the channels. *)
LEMMA Replied ==
  ASSUME NEW w \in Worlds, NEW b \in BOOLEAN
  PROVE  /\ Reply(b, w) \in Replies /\ Silent(w) \in Replies
         /\ (Reply(b, w).ok <=> b) /\ Reply(b, w).answered /\ Reply(b, w).w = w
         /\ ~Silent(w).answered /\ Silent(w).w = w
BY DEF Reply, Silent, Replies

LEMMA Landed ==
  ASSUME NEW w \in Worlds, NEW outs \in SUBSET Outcomes, NEW good \in States, NEW bad \in States,
         NEW r \in Lands(w, outs, good, bad)
  PROVE  \E o \in outs : /\ r \in Replies /\ r.answered /\ (r.ok <=> o.ok)
                         /\ r.w.cam = o.cam /\ r.w.pic = w.pic /\ (r.w.up <=> w.up)
                         /\ r.w.state = IF o.ok THEN good ELSE bad
<1>1. PICK o \in outs :
         r = Reply(o.ok, [w EXCEPT !.cam = o.cam, !.state = IF o.ok THEN good ELSE bad])
  BY DEF Lands
<1> DEFINE v == [w EXCEPT !.cam = o.cam, !.state = IF o.ok THEN good ELSE bad]
<1>2. /\ v \in Worlds /\ v.cam = o.cam /\ v.pic = w.pic /\ (v.up <=> w.up)
      /\ v.state = IF o.ok THEN good ELSE bad
  BY DEF Worlds, Outcomes
<1>3. o.ok \in BOOLEAN
  BY DEF Outcomes
<1> HIDE DEF v
<1>4. r \in Replies /\ r.answered /\ (r.ok <=> o.ok) /\ r.w = v
  BY <1>1, <1>2, <1>3, Replied DEF v
<1> QED
  BY <1>2, <1>4

(* A change of the parameters alone. *)
LEMMA Reconfigured ==
  ASSUME NEW w \in Worlds, NEW b \in BOOLEAN, NEW z \in BOOLEAN
  PROVE  /\ [w EXCEPT !.cam.restart = b] = [w EXCEPT !.cam = [w.cam EXCEPT !.restart = b]]
         /\ [w EXCEPT !.cam.zsl = z] = [w EXCEPT !.cam = [w.cam EXCEPT !.zsl = z]]
         /\ [w EXCEPT !.cam.window = TRUE] = [w EXCEPT !.cam = [w.cam EXCEPT !.window = TRUE]]
         /\ [w EXCEPT !.cam.cap = FALSE] = [w EXCEPT !.cam = [w.cam EXCEPT !.cap = FALSE]]
         /\ [w EXCEPT !.cam.vid = FALSE] = [w EXCEPT !.cam = [w.cam EXCEPT !.vid = FALSE]]
BY DEF Worlds, Cams

(* Another cam with the same channels. *)
SameChannels(c, d) ==
    d.pv = c.pv /\ d.kind = c.kind /\ (d.vid <=> c.vid) /\ (d.hint <=> c.hint)

LEMMA Recammed ==
  ASSUME NEW w \in Worlds, Channels(w), NEW c \in Cams, SameChannels(w.cam, c)
  PROVE  /\ [w EXCEPT !.cam = c] \in Worlds /\ [w EXCEPT !.cam = c].cam = c
         /\ ([w EXCEPT !.cam = c].up <=> w.up) /\ [w EXCEPT !.cam = c].state = w.state
         /\ [w EXCEPT !.cam = c].pic = w.pic
         /\ Channels([w EXCEPT !.cam = c]) /\ (Lost([w EXCEPT !.cam = c]) <=> Lost(w))
<1> DEFINE v == [w EXCEPT !.cam = c]
<1>1. /\ v \in Worlds /\ v.cam = c /\ (v.up <=> w.up) /\ v.state = w.state /\ v.pic = w.pic
  BY DEF Worlds
<1>2. Channels(v)
  BY <1>1 DEF Channels, HasVideo, SameChannels
<1>3. Lost(v) <=> Lost(w)
  BY <1>1 DEF Lost, SameChannels
<1> QED
  BY <1>1, <1>2, <1>3

(* A reply that leaves the world as it was. *)
LEMMA Untouched ==
  ASSUME NEW w \in Worlds, Channels(w), NEW cmd \in Commands \ {"STOP_CAPTURE_CHANNEL"},
         NEW b \in BOOLEAN, b => cmd # "PRE_TAKE_PICTURE",
         cmd = "SET_PARAMS_RESTART" => ~b \/ ~Lost(w)
  PROVE  Post(cmd, w, Reply(b, w))
<1>1. PICK r \in Replies : r = Reply(b, w) /\ (r.ok <=> b) /\ r.answered /\ r.w = w
  BY Replied
<1>2. /\ cmd = "PRE_TAKE_PICTURE" => ~r.ok
      /\ cmd = "SET_PARAMS_RESTART" => ~Lost(w) \/ (~r.ok /\ cmd \notin Unlisted)
  <2>1. cmd = "SET_PARAMS_RESTART" => ~Lost(w) \/ ~r.ok
    BY <1>1
  <2>2. cmd = "PRE_TAKE_PICTURE" => ~r.ok
    BY <1>1
  <2> QED
    BY <2>1, <2>2 DEF Unlisted
<1>3. Lost(r.w) => Lost(w)
  BY <1>1
<1>4. Post(cmd, w, r)
  BY <1>1, <1>2, <1>3 DEF Post
<1> QED
  BY <1>1, <1>4

LEMMA Silenced ==
  ASSUME NEW w \in Worlds, Channels(w),
         NEW cmd \in {"STOP_CAPTURE_CHANNEL", "RELEASE_FRAME"}
  PROVE  Post(cmd, w, Silent(w))
BY Replied DEF Post

(* A reply after parameters other than the hint have changed. *)
LEMMA Adjusted ==
  ASSUME NEW w \in Worlds, Channels(w), NEW cmd \in Commands, NEW b \in BOOLEAN,
         NEW c \in Cams, SameChannels(w.cam, c),
         cmd \notin {"STOP_CAPTURE_CHANNEL", "PRE_TAKE_PICTURE"},
         cmd = "SET_PARAMS_RESTART" => ~b \/ ~Lost(w),
         cmd \notin {"SET_PARAMS", "SET_PARAMS_RESTART"} => (c.restart <=> w.cam.restart)
  PROVE  Post(cmd, w, Reply(b, [w EXCEPT !.cam = c]))
<1>1. PICK v \in Worlds : /\ v = [w EXCEPT !.cam = c] /\ v.cam = c /\ (v.up <=> w.up)
                          /\ v.state = w.state /\ v.pic = w.pic /\ Channels(v) /\ (Lost(v) <=> Lost(w))
  BY Recammed
<1>2. PICK r \in Replies : r = Reply(b, v) /\ (r.ok <=> b) /\ r.answered /\ r.w = v
  BY Replied
<1>3. /\ Lost(r.w) => Lost(w)
      /\ cmd = "SET_PARAMS_RESTART" => ~Lost(w) \/ (~r.ok /\ cmd \notin Unlisted)
  <2>1. Lost(r.w) => Lost(w)
    BY <1>1, <1>2
  <2>2. cmd = "SET_PARAMS_RESTART" => ~Lost(w) \/ ~r.ok
    BY <1>2
  <2> QED
    BY <2>1, <2>2 DEF Unlisted
<1>4. Post(cmd, w, r)
  BY <1>1, <1>2, <1>3, ZenonT(60) DEF Post, SameChannels
<1> QED
  BY <1>1, <1>2, <1>4

LEMMA CommonPost ==
  ASSUME NEW w \in Worlds, Channels(w), NEW cmd \in Commands, NEW r \in Common(cmd, w)
  PROVE  Post(cmd, w, r)
<1>0. w.cam \in Cams
  BY DEF Worlds
<1>1. CASE cmd = "SET_PARAMS"
  <2>1. PICK change \in BOOLEAN : r = Reply(TRUE, [w EXCEPT !.cam = [w.cam EXCEPT !.restart = change]])
    BY <1>1, Reconfigured DEF Common, SetParams
  <2>2. [w.cam EXCEPT !.restart = change] \in Cams /\ SameChannels(w.cam, [w.cam EXCEPT !.restart = change])
    BY <1>0 DEF Cams, SameChannels
  <2> QED
    BY <1>1, <2>1, <2>2, Adjusted
<1>2. CASE cmd = "SET_PARAMS_COMMIT"
  <2>1. CASE r = Reply(FALSE, w)
    BY <1>2, <2>1, Untouched
  <2>2. CASE r = Reply(TRUE, [w EXCEPT !.cam.zsl = (@ # w.cam.restart)])
    <3> DEFINE z == (w.cam.zsl # w.cam.restart)
    <3>1. z \in BOOLEAN
      OBVIOUS
    <3>2. r = Reply(TRUE, [w EXCEPT !.cam.zsl = z])
      BY <2>2
    <3> HIDE DEF z
    <3>3. /\ [w.cam EXCEPT !.zsl = z] \in Cams /\ SameChannels(w.cam, [w.cam EXCEPT !.zsl = z])
          /\ [w.cam EXCEPT !.zsl = z].restart <=> w.cam.restart
      BY <1>0, <3>1 DEF Cams, SameChannels
    <3> QED
      BY <1>2, <3>1, <3>2, <3>3, Reconfigured, Adjusted
  <2> QED
    BY <1>2, <2>1, <2>2 DEF Common, Commit, Failing
<1>3. CASE cmd = "STOP_CAPTURE_CHANNEL"
  BY <1>3, Silenced DEF Common
<1>4. CASE cmd \notin {"SET_PARAMS", "SET_PARAMS_COMMIT", "STOP_CAPTURE_CHANNEL"}
  <2>1. r = Reply(FALSE, w)
    BY <1>4 DEF Common
  <2> QED
    BY <1>4, <2>1, Untouched
<1> QED
  BY <1>1, <1>2, <1>3, <1>4

(* What makes an answer with state s and channels c a good one. *)
Fits(cmd, w, ok, c, s) ==
    /\ s # "PREPARE_SNAPSHOT"
    /\ s \in {"PREVIEW_STOPPED", "PIC_TAKING"} => c.pv = "none"
    /\ s \in RecordingStates <=> c.vid
    /\ c.vid => HasVideo(c)
    /\ w.pic.live = "take" => s = "VIDEO_PIC_TAKING"
    /\ cmd \notin {"SET_PARAMS", "SET_PARAMS_RESTART"} => (c.restart <=> w.cam.restart)
    /\ cmd # "PRE_START_RECORDING" /\ c.hint => w.cam.hint
    /\ cmd = "PRE_TAKE_PICTURE" /\ ok => ~c.hint
    /\ w.state \in RecordingStates /\ cmd \in Unlisted \cup {"PRE_TAKE_PICTURE"} => s \in RecordingStates
    /\ s \in PreviewStates /\ c.pv # "on" =>
          \/ ~ok /\ cmd \notin Unlisted
          \/ cmd = "SET_PARAMS_STOP"
          \/ Lost(w) /\ cmd # "SET_PARAMS_RESTART"
          \/ cmd = "TAKE_PICTURE" /\ w.cam.hint /\ w.state = "PREVIEWING"

LEMMA Fitting ==
  ASSUME NEW w \in Worlds, NEW cmd \in Commands \ {"STOP_CAPTURE_CHANNEL"},
         NEW r \in Replies, r.answered, r.w.up <=> w.up,
         r.w.pic.live \in {w.pic.live, "cancel"},
         Fits(cmd, w, r.ok, r.w.cam, r.w.state)
  PROVE  Post(cmd, w, r)
<1>1. Channels(r.w)
  BY DEF Fits, Channels
<1>2. Lost(r.w) => r.w.state \in PreviewStates /\ r.w.cam.pv # "on"
  BY DEF Lost
<1> QED
  BY <1>1, <1>2 DEF Fits, Post

LEMMA ReplyPost ==
  ASSUME NEW w \in Worlds, NEW cmd \in Commands \ {"STOP_CAPTURE_CHANNEL"}, NEW b \in BOOLEAN,
         NEW v \in Worlds, v.up <=> w.up, v.pic.live \in {w.pic.live, "cancel"},
         Fits(cmd, w, b, v.cam, v.state)
  PROVE  Post(cmd, w, Reply(b, v))
<1>1. PICK r \in Replies : r = Reply(b, v) /\ (r.ok <=> b) /\ r.answered /\ r.w = v
  BY Replied
<1>2. r.ok = b
  BY <1>1 DEF Replies
<1> QED
  BY <1>1, <1>2, Fitting

LEMMA MovedPost ==
  ASSUME NEW w \in Worlds, NEW cmd \in Commands \ {"STOP_CAPTURE_CHANNEL"}, NEW b \in BOOLEAN,
         NEW c \in Cams, NEW s \in States, Fits(cmd, w, b, c, s)
  PROVE  /\ Post(cmd, w, Reply(b, To([w EXCEPT !.cam = c], s)))
         /\ s = w.state => Post(cmd, w, Reply(b, [w EXCEPT !.cam = c]))
<1>1. /\ To([w EXCEPT !.cam = c], s) \in Worlds /\ (To([w EXCEPT !.cam = c], s).up <=> w.up)
      /\ To([w EXCEPT !.cam = c], s).pic = w.pic /\ To([w EXCEPT !.cam = c], s).cam = c
      /\ To([w EXCEPT !.cam = c], s).state = s
  BY DEF To, Worlds
<1>2. /\ [w EXCEPT !.cam = c] \in Worlds /\ ([w EXCEPT !.cam = c].up <=> w.up)
      /\ [w EXCEPT !.cam = c].pic = w.pic /\ [w EXCEPT !.cam = c].cam = c
      /\ [w EXCEPT !.cam = c].state = w.state
  BY DEF Worlds
<1> QED
  BY <1>1, <1>2, ReplyPost

LEMMA LandedPost ==
  ASSUME NEW w \in Worlds, NEW cmd \in Commands \ {"STOP_CAPTURE_CHANNEL"},
         NEW outs \in SUBSET Outcomes, NEW good \in States, NEW bad \in States,
         \A o \in outs : Fits(cmd, w, o.ok, o.cam, IF o.ok THEN good ELSE bad),
         NEW r \in Lands(w, outs, good, bad)
  PROVE  Post(cmd, w, r)
<1>1. PICK o \in outs : /\ r \in Replies /\ r.answered /\ (r.ok <=> o.ok)
                        /\ r.w.cam = o.cam /\ r.w.pic = w.pic /\ (r.w.up <=> w.up)
                        /\ r.w.state = IF o.ok THEN good ELSE bad
  BY Landed
<1>2. r.ok = o.ok
  BY <1>1 DEF Replies, Outcomes
<1>3. Fits(cmd, w, r.ok, r.w.cam, r.w.state)
  BY <1>1, <1>2
<1> QED
  BY <1>1, <1>3, Fitting

(* Preview prepared and started again, by whichever state. *)
LEMMA Restarted ==
  ASSUME NEW w \in Worlds, NEW good \in States, NEW noPrepare \in States, NEW noStart \in States,
         NEW r \in Restart(w, good, noPrepare, noStart)
  PROVE  /\ r \in Replies /\ r.answered /\ (r.w.up <=> w.up) /\ r.w.pic = w.pic
         /\ SameSettings(w.cam, r.w.cam) /\ (r.w.cam.hint <=> w.cam.hint)
         /\ IF r.ok THEN r.w.state = good /\ r.w.cam.pv = "on" /\ (r.w.cam.vid <=> w.cam.vid)
                    ELSE r.w.state \in {noPrepare, noStart} /\ r.w.cam.pv = "none" /\ ~r.w.cam.vid
<1>0. w.cam \in Cams
  BY DEF Worlds
<1>1. PICK p \in PreparePreview(w.cam) :
         r \in IF p.ok THEN Lands(w, StartOrUndo(p.cam), good, noStart)
                       ELSE Lands(w, {p}, noPrepare, noPrepare)
  BY DEF Restart
<1>2. /\ p \in Outcomes /\ p.cam \in Cams /\ SameSettings(w.cam, p.cam) /\ p.cam.hint = w.cam.hint
      /\ IF p.ok THEN p.cam.vid = w.cam.vid ELSE p.cam.pv = "none" /\ ~p.cam.vid
  BY <1>0, Prepared DEF Outcomes
<1>3. CASE p.ok
  <2>1. StartOrUndo(p.cam) \in SUBSET Outcomes
    BY <1>2, StartedOrUndone
  <2>2. PICK o \in StartOrUndo(p.cam) :
           /\ r \in Replies /\ r.answered /\ (r.ok <=> o.ok) /\ r.w.cam = o.cam /\ r.w.pic = w.pic
           /\ (r.w.up <=> w.up) /\ r.w.state = IF o.ok THEN good ELSE noStart
    BY <1>1, <1>3, <2>1, Landed
  <2>3. /\ SameSettings(p.cam, o.cam) /\ o.cam.hint = p.cam.hint
        /\ IF o.ok THEN o.cam.pv = "on" /\ o.cam.vid = p.cam.vid ELSE o.cam.pv = "none" /\ ~o.cam.vid
    BY <1>2, StartedOrUndone
  <2>4. SameSettings(w.cam, r.w.cam) /\ (r.w.cam.hint <=> w.cam.hint)
    BY <1>2, <2>2, <2>3 DEF SameSettings
  <2> QED
    BY <1>2, <1>3, <2>2, <2>3, <2>4
<1>4. CASE ~p.ok
  <2>1. PICK o \in {p} :
           /\ r \in Replies /\ r.answered /\ (r.ok <=> o.ok) /\ r.w.cam = o.cam /\ r.w.pic = w.pic
           /\ (r.w.up <=> w.up) /\ r.w.state = IF o.ok THEN noPrepare ELSE noPrepare
    <3>1. r \in Lands(w, {p}, noPrepare, noPrepare) /\ {p} \in SUBSET Outcomes
      BY <1>1, <1>2, <1>4
    <3> QED
      BY <3>1, Landed
  <2> QED
    BY <1>2, <1>4, <2>1
<1> QED
  BY <1>3, <1>4

(* The restart that was asked for is done with. *)
LEMMA RestartCleared ==
  ASSUME NEW w \in Worlds, NEW replies, NEW r \in NoRestart(replies),
         \A p \in replies : Post("SET_PARAMS_RESTART", w, p)
  PROVE  Post("SET_PARAMS_RESTART", w, r)
<1>1. PICK p \in replies : r = [p EXCEPT !.w.cam.restart = FALSE]
  BY DEF NoRestart
<1>2. p \in Replies /\ p.w \in Worlds /\ p.w.cam \in Cams /\ Post("SET_PARAMS_RESTART", w, p)
  BY DEF Post, Replies, Worlds
<1> DEFINE c == [p.w.cam EXCEPT !.restart = FALSE]
           v == [p.w EXCEPT !.cam = c]
<1>3. c \in Cams /\ SameChannels(p.w.cam, c)
  BY <1>2 DEF Cams, SameChannels
<1>4. r = [p EXCEPT !.w = v]
  BY <1>1, <1>2 DEF Replies, Worlds, Cams
<1> HIDE DEF c
<1>5. /\ v \in Worlds /\ v.cam = c /\ (v.up <=> p.w.up) /\ v.state = p.w.state /\ v.pic = p.w.pic
      /\ Channels(v) /\ (Lost(v) <=> Lost(p.w))
  BY <1>2, <1>3, Recammed DEF Post
<1> HIDE DEF v
<1>6. r \in Replies /\ (r.ok <=> p.ok) /\ (r.answered <=> p.answered) /\ r.w = v
  BY <1>2, <1>4, <1>5 DEF Replies
<1> QED
  BY <1>2, <1>3, <1>5, <1>6 DEF Post, SameChannels, Unlisted

-----------------------------------------------------------------------------
(* The states, one by one.                                                  *)

LEMMA PreviewStoppedPost ==
  ASSUME NEW w \in Worlds, Channels(w), w.state = "PREVIEW_STOPPED",
         NEW cmd \in Commands, NEW r \in PreviewStopped(cmd, w)
  PROVE  Post(cmd, w, r)
<1>0. /\ w.cam \in Cams /\ w.pic \in Pics /\ ~w.cam.vid /\ w.pic.live # "take" /\ ~Lost(w)
      /\ w.state \notin RecordingStates
  BY DEF Worlds, Channels, RecordingStates, Lost, PreviewStates
<1>1. CASE cmd = "SET_PREVIEW_WINDOW"
  <2>1. r = Reply(TRUE, [w EXCEPT !.cam = [w.cam EXCEPT !.window = TRUE]])
    BY <1>1, Reconfigured DEF PreviewStopped
  <2>2. /\ [w.cam EXCEPT !.window = TRUE] \in Cams /\ SameChannels(w.cam, [w.cam EXCEPT !.window = TRUE])
        /\ [w.cam EXCEPT !.window = TRUE].restart <=> w.cam.restart
    BY <1>0 DEF Cams, SameChannels
  <2> QED
    BY <1>1, <2>1, <2>2, Adjusted
<1>2. CASE cmd = "SET_PARAMS_RESTART"
  <2>1. PICK replies : replies = {Reply(TRUE, w)} /\ r \in NoRestart(replies)
    BY <1>2 DEF PreviewStopped
  <2>2. \A p \in replies : Post("SET_PARAMS_RESTART", w, p)
    BY <1>0, <1>2, <2>1, Untouched
  <2>3. Post("SET_PARAMS_RESTART", w, r)
    BY <2>1, <2>2, RestartCleared
  <2> QED
    BY <1>2, <2>3
<1>3. CASE cmd = "START_PREVIEW" /\ w.cam.window
  <2>1. r \in Restart(w, "PREVIEWING", "PREVIEW_STOPPED", "PREVIEW_STOPPED")
    BY <1>3 DEF PreviewStopped
  <2>2. /\ r \in Replies /\ r.answered /\ (r.w.up <=> w.up) /\ r.w.pic = w.pic
        /\ SameSettings(w.cam, r.w.cam) /\ (r.w.cam.hint <=> w.cam.hint)
        /\ IF r.ok THEN r.w.state = "PREVIEWING" /\ r.w.cam.pv = "on" /\ (r.w.cam.vid <=> w.cam.vid)
                   ELSE r.w.state = "PREVIEW_STOPPED" /\ r.w.cam.pv = "none" /\ ~r.w.cam.vid
    <3>1. "PREVIEWING" \in States /\ "PREVIEW_STOPPED" \in States
      BY DEF States
    <3>2. {"PREVIEW_STOPPED", "PREVIEW_STOPPED"} = {"PREVIEW_STOPPED"}
      OBVIOUS
    <3> QED
      BY <2>1, <3>1, <3>2, Restarted
  <2>3. Fits(cmd, w, r.ok, r.w.cam, r.w.state)
    BY <1>0, <1>3, <2>2 DEF Fits, SameSettings, RecordingStates, PreviewStates
  <2> QED
    BY <1>3, <2>2, <2>3, Fitting
<1>4. CASE cmd = "PREPARE_PREVIEW" \/ (cmd = "START_PREVIEW" /\ ~w.cam.window)
  <2>1. r \in Lands(w, PreparePreview(w.cam), "PREVIEW_READY", "PREVIEW_STOPPED")
    BY <1>4 DEF PreviewStopped
  <2>2. ASSUME NEW o \in PreparePreview(w.cam)
        PROVE  o \in Outcomes /\ Fits(cmd, w, o.ok, o.cam, IF o.ok THEN "PREVIEW_READY" ELSE "PREVIEW_STOPPED")
    BY <1>0, <1>4, Prepared DEF Fits, SameSettings, RecordingStates, PreviewStates
  <2> QED
    BY <1>4, <2>1, <2>2, LandedPost DEF States
<1>5. CASE cmd \in {"SET_PARAMS_STOP", "STOP_PREVIEW", "CANCEL_PICTURE", "RELEASE"}
  <2>1. r = Reply(TRUE, w)
    BY <1>5 DEF PreviewStopped
  <2> QED
    BY <1>5, <2>1, Untouched
<1>6. CASE cmd = "RELEASE_FRAME"
  BY <1>6, Silenced DEF PreviewStopped
<1>7. CASE cmd \notin {"SET_PREVIEW_WINDOW", "SET_PARAMS_RESTART", "PREPARE_PREVIEW", "START_PREVIEW",
                       "SET_PARAMS_STOP", "STOP_PREVIEW", "CANCEL_PICTURE", "RELEASE", "RELEASE_FRAME"}
  <2>1. r \in Common(cmd, w)
    BY <1>7 DEF PreviewStopped
  <2> QED
    BY <2>1, CommonPost
<1> QED
  BY <1>1, <1>2, <1>3, <1>4, <1>5, <1>6, <1>7

LEMMA PreviewReadyPost ==
  ASSUME NEW w \in Worlds, Channels(w), w.state = "PREVIEW_READY",
         NEW cmd \in Commands, NEW r \in PreviewReady(cmd, w)
  PROVE  Post(cmd, w, r)
<1>0. /\ w.cam \in Cams /\ w.pic \in Pics /\ ~w.cam.vid /\ w.pic.live # "take" /\ ~Lost(w)
      /\ w.state \notin RecordingStates
  BY DEF Worlds, Channels, RecordingStates, Lost, PreviewStates
<1>1. CASE cmd = "SET_PREVIEW_WINDOW"
  <2> DEFINE Opened(o) == Outcome(o.ok, [o.cam EXCEPT !.window = TRUE])
  <2>1. PICK outs : /\ outs = {Opened(o) : o \in StartOrUndo(w.cam)}
                    /\ r \in Lands(w, outs, "PREVIEWING", "PREVIEW_STOPPED")
    BY <1>1 DEF PreviewReady
  <2>2. ASSUME NEW x \in outs
        PROVE  x \in Outcomes /\ Fits(cmd, w, x.ok, x.cam, IF x.ok THEN "PREVIEWING" ELSE "PREVIEW_STOPPED")
    <3>1. PICK o \in StartOrUndo(w.cam) : x = Opened(o)
      BY <2>1
    <3>2. /\ o \in Outcomes /\ SameSettings(w.cam, o.cam) /\ o.cam.hint = w.cam.hint
          /\ IF o.ok THEN o.cam.pv = "on" /\ o.cam.vid = w.cam.vid
                     ELSE o.cam.pv = "none" /\ ~o.cam.vid
      BY <1>0, StartedOrUndone
    <3>3. PICK c \in Cams : /\ c = [o.cam EXCEPT !.window = TRUE] /\ SameSettings(o.cam, c)
                            /\ (c.hint <=> o.cam.hint) /\ c.pv = o.cam.pv /\ (c.vid <=> o.cam.vid)
      <4>1. PICK d \in Cams : d = o.cam
        BY <3>2 DEF Outcomes
      <4>2. PICK c \in Cams : c = [d EXCEPT !.window = TRUE]
        BY DEF Cams
      <4>3. SameSettings(d, c) /\ (c.hint <=> d.hint) /\ c.pv = d.pv /\ (c.vid <=> d.vid)
        BY <4>2 DEF Cams, SameSettings
      <4> QED
        BY <4>1, <4>2, <4>3
    <3>4. x \in Outcomes /\ (x.ok <=> o.ok) /\ x.cam = c
      BY <3>1, <3>2, <3>3, OutcomeFields DEF Outcomes
    <3>5. /\ (x.cam.restart <=> w.cam.restart) /\ (x.cam.hint => w.cam.hint) /\ ~x.cam.vid
          /\ x.cam.pv = IF x.ok THEN "on" ELSE "none"
      BY <1>0, <3>2, <3>3, <3>4 DEF SameSettings
    <3> QED
      BY <1>0, <1>1, <3>4, <3>5 DEF Fits, RecordingStates, PreviewStates
  <2> QED
    BY <1>1, <2>1, <2>2, LandedPost DEF States
<1>2. CASE cmd = "START_PREVIEW"
  <2>1. CASE w.cam.window
    <3>1. PICK x \in Lands(w, StartOrUndo(w.cam), "PREVIEWING", "PREVIEW_STOPPED") : r = Reply(TRUE, x.w)
      BY <1>2, <2>1 DEF PreviewReady
    <3>2. StartOrUndo(w.cam) \in SUBSET Outcomes /\ "PREVIEWING" \in States /\ "PREVIEW_STOPPED" \in States
      BY <1>0, StartedOrUndone DEF States
    <3>3. PICK o \in StartOrUndo(w.cam) :
             /\ x \in Replies /\ x.w.cam = o.cam /\ x.w.pic = w.pic /\ (x.w.up <=> w.up)
             /\ x.w.state = IF o.ok THEN "PREVIEWING" ELSE "PREVIEW_STOPPED"
      BY <3>1, <3>2, Landed
    <3>4. /\ o \in Outcomes /\ SameSettings(w.cam, o.cam) /\ o.cam.hint = w.cam.hint
          /\ IF o.ok THEN o.cam.pv = "on" /\ o.cam.vid = w.cam.vid
                     ELSE o.cam.pv = "none" /\ ~o.cam.vid
      BY <1>0, StartedOrUndone
    <3>5. Fits(cmd, w, TRUE, x.w.cam, x.w.state)
      BY <1>0, <1>2, <3>3, <3>4 DEF Fits, SameSettings, RecordingStates, PreviewStates
    <3>6. x.w \in Worlds
      BY <3>3 DEF Replies
    <3> QED
      BY <1>2, <3>1, <3>3, <3>5, <3>6, ReplyPost
  <2>2. CASE ~w.cam.window
    <3>1. r = Reply(TRUE, w)
      BY <1>2, <2>2 DEF PreviewReady
    <3> QED
      BY <1>2, <3>1, Untouched
  <2> QED
    BY <2>1, <2>2
<1>3. CASE cmd \in {"STOP_PREVIEW", "SET_PARAMS_STOP"}
  <2>1. PICK c \in Cams : /\ c = UnpreparePreview(w.cam) /\ SameSettings(w.cam, c) /\ c.pv = "none"
                          /\ ~c.vid /\ c.hint = w.cam.hint
    BY <1>0, Unprepared
  <2>2. /\ Fits(cmd, w, TRUE, c, "PREVIEW_STOPPED")
        /\ Fits(cmd, w, TRUE, c, "PREVIEW_READY")
    BY <1>0, <1>3, <2>1 DEF Fits, SameSettings, RecordingStates, PreviewStates
  <2>3. \/ r = Reply(TRUE, To([w EXCEPT !.cam = c], "PREVIEW_STOPPED"))
        \/ r = Reply(TRUE, [w EXCEPT !.cam = c])
    BY <1>3, <2>1 DEF PreviewReady
  <2>4. "PREVIEW_STOPPED" \in States /\ "PREVIEW_READY" \in States /\ TRUE \in BOOLEAN
        /\ cmd \in Commands \ {"STOP_CAPTURE_CHANNEL"}
    BY <1>3 DEF States
  <2>5. Post(cmd, w, Reply(TRUE, To([w EXCEPT !.cam = c], "PREVIEW_STOPPED")))
    BY <2>2, <2>4, MovedPost
  <2>6. Post(cmd, w, Reply(TRUE, [w EXCEPT !.cam = c]))
    BY <2>2, <2>4, MovedPost
  <2> QED
    BY <2>3, <2>5, <2>6
<1>4. CASE cmd = "SET_PARAMS_RESTART"
  <2>1. PICK replies : /\ replies = Lands(w, PreparePreview(w.cam), "PREVIEW_READY", "PREVIEW_STOPPED")
                       /\ r \in NoRestart(replies)
    BY <1>4 DEF PreviewReady
  <2>2. ASSUME NEW o \in PreparePreview(w.cam)
        PROVE  o \in Outcomes /\ Fits(cmd, w, o.ok, o.cam, IF o.ok THEN "PREVIEW_READY" ELSE "PREVIEW_STOPPED")
    BY <1>0, <1>4, Prepared DEF Fits, SameSettings, RecordingStates, PreviewStates
  <2>3. \A p \in replies : Post("SET_PARAMS_RESTART", w, p)
    BY <1>4, <2>1, <2>2, LandedPost DEF States
  <2>4. Post("SET_PARAMS_RESTART", w, r)
    BY <2>1, <2>3, RestartCleared
  <2> QED
    BY <1>4, <2>4
<1>5. CASE cmd = "PREPARE_PREVIEW"
  <2>1. r = Reply(TRUE, w)
    BY <1>5 DEF PreviewReady
  <2> QED
    BY <1>5, <2>1, Untouched
<1>6. CASE cmd = "RELEASE_FRAME"
  BY <1>6, Silenced DEF PreviewReady
<1>7. CASE cmd \notin {"SET_PREVIEW_WINDOW", "START_PREVIEW", "STOP_PREVIEW", "SET_PARAMS_STOP",
                       "SET_PARAMS_RESTART", "PREPARE_PREVIEW", "RELEASE_FRAME"}
  <2>1. r \in Common(cmd, w)
    BY <1>7 DEF PreviewReady
  <2> QED
    BY <2>1, CommonPost
<1> QED
  BY <1>1, <1>2, <1>3, <1>4, <1>5, <1>6, <1>7

(* The picture: what starting and stopping it does to the rest of a world. *)
Kept(w, v) == v \in Worlds /\ (v.up <=> w.up) /\ v.pic.live = w.pic.live

LEMMA Repictured ==
  ASSUME NEW w \in Worlds, NEW p \in Pics, NEW c \in Cams, NEW n \in Notices, NEW s \in States
  PROVE  /\ [w EXCEPT !.pic = p] \in Worlds /\ [w EXCEPT !.cmds = n] \in Worlds
         /\ [w EXCEPT !.cam = c] \in Worlds /\ To(w, s) \in Worlds
         /\ [w EXCEPT !.pic = p, !.cmds = n] \in Worlds
         /\ [w EXCEPT !.pic = p, !.cam = c] \in Worlds
BY DEF Worlds, To

LEMMA Postproc ==
  ASSUME NEW w \in Worlds
  PROVE  /\ Kept(w, StartPostproc(w)) /\ Kept(w, StopPostproc(w))
         /\ StartPostproc(w).state = w.state /\ StopPostproc(w).state = w.state
         /\ StartPostproc(w).cam = w.cam /\ StopPostproc(w).cam = w.cam
         /\ StartPostproc(w).pic.job = w.pic.job
<1>0. w.pic \in Pics /\ w.cmds \in Notices
  BY DEF Worlds
<1>1. ASSUME NEW c \in {"START", "STOP"} PROVE <<c>> \o w.cmds \in Notices
  <2>1. <<c>> \in Seq({"START", "STOP", "NEXT"})
    OBVIOUS
  <2>2. w.cmds \in Seq({"START", "STOP", "NEXT"})
    BY <1>0 DEF Notices
  <2>3. <<c>> \o w.cmds \in Seq({"START", "STOP", "NEXT"})
    BY <2>1, <2>2, ConcatProperties
  <2> QED
    BY <2>3 DEF Notices
<1>2. PICK n \in Notices : n = <<"START">> \o w.cmds
  BY <1>1
<1>3. PICK m \in Notices : m = <<"STOP">> \o w.cmds
  BY <1>1
<1>4. /\ [w.pic EXCEPT !.on = TRUE] \in Pics /\ [w.pic EXCEPT !.on = TRUE].live = w.pic.live
      /\ [w.pic EXCEPT !.on = TRUE].job = w.pic.job
  BY <1>0 DEF Pics
<1>5. /\ [w.pic EXCEPT !.on = FALSE, !.shots = 0] \in Pics
      /\ [w.pic EXCEPT !.on = FALSE, !.shots = 0].live = w.pic.live
  BY <1>0 DEF Pics
<1>6. PICK p \in Pics : p = [w.pic EXCEPT !.on = TRUE] /\ p.live = w.pic.live /\ p.job = w.pic.job
  BY <1>4
<1>7. PICK q \in Pics : q = [w.pic EXCEPT !.on = FALSE, !.shots = 0] /\ q.live = w.pic.live
  BY <1>5
<1>8. /\ StartPostproc(w) = [w EXCEPT !.pic = p, !.cmds = n]
      /\ StopPostproc(w) = [w EXCEPT !.pic = q, !.cmds = m]
  BY <1>2, <1>3, <1>6, <1>7 DEF StartPostproc, StopPostproc, Worlds, Pics
<1> QED
  BY <1>6, <1>7, <1>8 DEF Kept, Worlds

LEMMA Pictured ==
  ASSUME NEW w \in Worlds, ~w.cam.vid, NEW r \in TakePicture(w)
  PROVE  /\ r \in Replies /\ r.answered /\ Kept(w, r.w) /\ r.w.state = w.state
         /\ SameSettings(w.cam, r.w.cam) /\ r.w.cam.hint = w.cam.hint /\ ~r.w.cam.vid
         /\ IF w.cam.zsl THEN r.w.cam = w.cam ELSE r.w.cam.pv = "none"
<1>0. w.cam \in Cams /\ w.pic \in Pics
  BY DEF Worlds
<1>1. PICK p \in Pics : p = [w.pic EXCEPT !.job = @ + 1, !.shots = 1] /\ p.live = w.pic.live
  <2>1. PICK j \in Nat, k \in Nat : j = w.pic.job + 1 /\ k = 1
    BY <1>0 DEF Pics
  <2>2. /\ [w.pic EXCEPT !.job = j, !.shots = k] \in Pics
        /\ [w.pic EXCEPT !.job = j, !.shots = k].live = w.pic.live
    BY <1>0 DEF Pics
  <2> QED
    BY <2>1, <2>2
<1> SUFFICES ASSUME NEW b \in BOOLEAN, NEW v, r = Reply(b, v)
             PROVE  /\ Kept(w, v) /\ v.state = w.state
                    /\ SameSettings(w.cam, v.cam) /\ v.cam.hint = w.cam.hint /\ ~v.cam.vid
                    /\ IF w.cam.zsl THEN v.cam = w.cam ELSE v.cam.pv = "none"
  <2>0. PICK b \in BOOLEAN : \E v : r = Reply(b, v)
    BY DEF TakePicture, Failing
  <2>1. PICK v : r = Reply(b, v)
    BY <2>0
  <2>2. /\ Kept(w, v) /\ v.state = w.state
        /\ SameSettings(w.cam, v.cam) /\ v.cam.hint = w.cam.hint /\ ~v.cam.vid
        /\ IF w.cam.zsl THEN v.cam = w.cam ELSE v.cam.pv = "none"
    BY <2>1
  <2>3. v \in Worlds
    BY <2>2 DEF Kept
  <2>4. r \in Replies /\ r.answered /\ r.w = v
    BY <2>1, <2>3, Replied
  <2> QED
    BY <2>2, <2>4
<1>2. \A x, y, c, d : Reply(x, c) = Reply(y, d) => c = d
  BY DEF Reply
<1>3. CASE w.cam.zsl
  <2>1. \/ v = w
        \/ v = [w EXCEPT !.pic.job = @ + 1, !.pic.shots = 1]
        \/ v = StopPostproc(StartPostproc(w))
    BY <1>2, <1>3 DEF TakePicture, Failing
  <2>2. CASE v = w
    BY <1>0, <1>3, <2>2 DEF Kept, SameSettings
  <2>3. CASE v = [w EXCEPT !.pic.job = @ + 1, !.pic.shots = 1]
    <3>1. v = [w EXCEPT !.pic = p]
      BY <1>1, <2>3 DEF Worlds, Pics
    <3> QED
      BY <1>1, <1>3, <3>1 DEF Kept, SameSettings, Worlds
  <2>4. CASE v = StopPostproc(StartPostproc(w))
    <3>1. PICK u \in Worlds : u = StartPostproc(w) /\ Kept(w, u) /\ u.state = w.state /\ u.cam = w.cam
      BY Postproc DEF Kept
    <3>2. Kept(u, v) /\ v.state = u.state /\ v.cam = u.cam
      BY <2>4, <3>1, Postproc
    <3> QED
      BY <1>3, <3>1, <3>2 DEF Kept, SameSettings
  <2> QED
    BY <2>1, <2>2, <2>3, <2>4
<1>4. CASE ~w.cam.zsl
  <2>1. PICK c \in Cams : /\ c = StopPreview(w.cam) /\ SameSettings(w.cam, c) /\ c.pv = "none"
                          /\ ~c.vid /\ c.hint = w.cam.hint
    BY <1>0, Unprepared
  <2>2. PICK u \in Worlds : /\ u = [w EXCEPT !.cam = c] /\ u.cam = c /\ u.state = w.state
                            /\ u.pic = w.pic /\ (u.up <=> w.up)
    <3>1. /\ [w EXCEPT !.cam = c] \in Worlds /\ [w EXCEPT !.cam = c].cam = c
          /\ [w EXCEPT !.cam = c].state = w.state /\ [w EXCEPT !.cam = c].pic = w.pic
          /\ ([w EXCEPT !.cam = c].up <=> w.up)
      BY DEF Worlds
    <3> QED
      BY <3>1
  <2>3. \/ v = [u EXCEPT !.cam.cap = TRUE, !.pic.job = @ + 1, !.pic.shots = 1]
        \/ v = u
        \/ v = StartPostproc(u)
    <3>1. TakePicture(w) =
             {Reply(TRUE, [u EXCEPT !.cam.cap = TRUE, !.pic.job = @ + 1, !.pic.shots = 1])}
               \cup Failing("capture", {Reply(FALSE, u), Reply(FALSE, StartPostproc(u))})
      BY <1>4, <2>1, <2>2, Zenon DEF TakePicture
    <3>2. \/ r = Reply(TRUE, [u EXCEPT !.cam.cap = TRUE, !.pic.job = @ + 1, !.pic.shots = 1])
          \/ r = Reply(FALSE, u)
          \/ r = Reply(FALSE, StartPostproc(u))
      BY <3>1, Zenon DEF Failing
    <3>3. r.w = v
      BY DEF Reply
    <3> QED
      BY <3>2, <3>3 DEF Reply
  <2>4. CASE v = u
    BY <1>4, <2>1, <2>2, <2>4 DEF Kept, SameSettings
  <2>5. CASE v = StartPostproc(u)
    <3>1. Kept(u, v) /\ v.state = u.state /\ v.cam = u.cam
      BY <2>5, Postproc
    <3> QED
      BY <1>4, <2>1, <2>2, <3>1 DEF Kept, SameSettings
  <2>6. CASE v = [u EXCEPT !.cam.cap = TRUE, !.pic.job = @ + 1, !.pic.shots = 1]
    <3>1. PICK d \in Cams : /\ d = [c EXCEPT !.cap = TRUE] /\ SameSettings(c, d) /\ d.pv = "none"
                            /\ ~d.vid /\ d.hint = c.hint
      <4>1. /\ [c EXCEPT !.cap = TRUE] \in Cams /\ SameSettings(c, [c EXCEPT !.cap = TRUE])
            /\ [c EXCEPT !.cap = TRUE].pv = "none" /\ ~[c EXCEPT !.cap = TRUE].vid
            /\ [c EXCEPT !.cap = TRUE].hint = c.hint
        BY <2>1 DEF Cams, SameSettings
      <4> QED
        BY <4>1
    <3>2. v = [u EXCEPT !.pic = p, !.cam = d]
      BY <1>1, <2>2, <2>6, <3>1 DEF Worlds, Pics, Cams
    <3>3. v \in Worlds /\ v.pic = p /\ v.cam = d /\ v.state = u.state /\ (v.up <=> u.up)
      BY <3>2 DEF Worlds
    <3> QED
      BY <1>1, <1>4, <2>1, <2>2, <3>1, <3>3 DEF Kept, SameSettings
  <2> QED
    BY <2>3, <2>4, <2>5, <2>6
<1> QED
  BY <1>3, <1>4

LEMMA PictureFromPreview ==
  ASSUME NEW w \in Worlds, Channels(w), w.state = "PREVIEWING", NEW r \in TakeFromPreview(w)
  PROVE  Post("TAKE_PICTURE", w, r)
<1>0. /\ w.cam \in Cams /\ ~w.cam.vid /\ w.pic.live # "take" /\ w.state \notin RecordingStates
      /\ "TAKE_PICTURE" \in Commands \ {"STOP_CAPTURE_CHANNEL"}
      /\ {"PREVIEWING", "PREVIEW_PIC_TAKING", "PIC_TAKING", "PREVIEW_STOPPED"} \subseteq States
  BY DEF Worlds, Channels, RecordingStates, Commands, States
<1> DEFINE Moved(o, s) == To([w EXCEPT !.cam = o.cam], s)
           Zsl(o)   == {IF x.ok THEN x ELSE Reply(FALSE, To(x.w, "PREVIEWING")) :
                          x \in TakePicture(Moved(o, "PREVIEW_PIC_TAKING"))}
           Again(x) == {Reply(FALSE, y.w) : y \in Lands(x.w, StartAgain(StopPreview(x.w.cam)),
                                                        "PREVIEWING", "PREVIEW_STOPPED")}
           Still(o) == UNION {IF x.ok THEN {x} ELSE Again(x) : x \in TakePicture(Moved(o, "PIC_TAKING"))}
<1>1. PICK o \in LeaveVideo(w.cam) : r \in IF o.cam.zsl THEN Zsl(o) ELSE Still(o)
  <2>1. \A o : [w EXCEPT !.cam = o.cam].cam = o.cam
    BY DEF Worlds
  <2> QED
    BY <2>1 DEF TakeFromPreview
<1>2. /\ o \in Outcomes /\ o.cam \in Cams /\ SameSettings(w.cam, o.cam) /\ ~o.cam.vid /\ ~o.cam.hint
      /\ o.cam.pv # "on" => w.cam.hint \/ w.cam.pv # "on"
  <2>1. /\ o \in Outcomes /\ SameSettings(w.cam, o.cam) /\ ~o.cam.vid /\ ~o.cam.hint
        /\ ~w.cam.hint => o = Outcome(TRUE, w.cam)
    BY <1>0, VideoLeft
  <2>2. ~w.cam.hint => o.cam = w.cam
    BY <1>0, <2>1, OutcomeFields
  <2> QED
    BY <2>1, <2>2 DEF Outcomes
<1>3. ASSUME NEW s \in {"PREVIEW_PIC_TAKING", "PIC_TAKING"}
      PROVE  /\ Kept(w, Moved(o, s)) /\ Moved(o, s).cam = o.cam /\ Moved(o, s).state = s
  BY <1>2 DEF To, Worlds, Kept, States
<1>4. ASSUME NEW b \in BOOLEAN, NEW v \in Worlds, Kept(w, v), SameSettings(w.cam, v.cam),
             ~v.cam.vid, ~v.cam.hint, v.state \in {"PREVIEWING", "PREVIEW_PIC_TAKING", "PIC_TAKING", "PREVIEW_STOPPED"},
             v.state \in {"PIC_TAKING", "PREVIEW_STOPPED"} => v.cam.pv = "none",
             v.state \in {"PREVIEWING", "PREVIEW_PIC_TAKING"} => v.cam.pv = "on" \/ v.cam.pv = o.cam.pv
      PROVE  Post("TAKE_PICTURE", w, Reply(b, v))
  <2>1. v.state \in PreviewStates /\ v.cam.pv # "on" => Lost(w) \/ w.cam.hint
    BY <1>2, <1>4 DEF Lost, PreviewStates, RecordingStates
  <2>2. Fits("TAKE_PICTURE", w, b, v.cam, v.state)
    BY <1>0, <1>4, <2>1 DEF Fits, Kept, SameSettings, RecordingStates
  <2> QED
    BY <1>0, <1>4, <2>2, ReplyPost DEF Kept
<1> HIDE DEF Moved
<1>5. ASSUME NEW s \in {"PREVIEW_PIC_TAKING", "PIC_TAKING"}, NEW x \in TakePicture(Moved(o, s))
      PROVE  /\ x \in Replies /\ x.answered /\ x.w \in Worlds /\ Kept(w, x.w) /\ x.w.state = s
             /\ SameSettings(w.cam, x.w.cam) /\ ~x.w.cam.hint /\ ~x.w.cam.vid
             /\ IF o.cam.zsl THEN x.w.cam = o.cam ELSE x.w.cam.pv = "none"
  <2>1. Moved(o, s) \in Worlds /\ ~Moved(o, s).cam.vid
    BY <1>2, <1>3 DEF Kept
  <2>2. /\ x \in Replies /\ x.answered /\ Kept(Moved(o, s), x.w) /\ x.w.state = Moved(o, s).state
        /\ SameSettings(Moved(o, s).cam, x.w.cam) /\ x.w.cam.hint = Moved(o, s).cam.hint /\ ~x.w.cam.vid
        /\ IF Moved(o, s).cam.zsl THEN x.w.cam = Moved(o, s).cam ELSE x.w.cam.pv = "none"
    BY <2>1, Pictured
  <2> QED
    BY <1>2, <1>3, <2>2 DEF Kept, SameSettings, Replies
<1>6. ASSUME NEW x \in Replies, x.answered
      PROVE  x = Reply(x.ok, x.w)
  BY <1>6 DEF Replies, Reply
<1>7. CASE o.cam.zsl
  <2>1. PICK x \in TakePicture(Moved(o, "PREVIEW_PIC_TAKING")) :
           r = IF x.ok THEN x ELSE Reply(FALSE, To(x.w, "PREVIEWING"))
    BY <1>1, <1>7
  <2>2. /\ x \in Replies /\ x.answered /\ x.w \in Worlds /\ Kept(w, x.w) /\ x.w.state = "PREVIEW_PIC_TAKING"
        /\ SameSettings(w.cam, x.w.cam) /\ ~x.w.cam.hint /\ ~x.w.cam.vid /\ x.w.cam = o.cam
    BY <1>5, <1>7
  <2>3. CASE x.ok
    <3>1. Post("TAKE_PICTURE", w, Reply(x.ok, x.w))
      BY <1>4, <2>2 DEF Replies
    <3> QED
      BY <1>6, <2>1, <2>2, <2>3, <3>1
  <2>4. CASE ~x.ok
    <3>1. /\ To(x.w, "PREVIEWING") \in Worlds /\ Kept(w, To(x.w, "PREVIEWING"))
          /\ To(x.w, "PREVIEWING").cam = x.w.cam /\ To(x.w, "PREVIEWING").state = "PREVIEWING"
      BY <1>0, <2>2 DEF To, Worlds, Kept
    <3>2. Post("TAKE_PICTURE", w, Reply(FALSE, To(x.w, "PREVIEWING")))
      BY <1>4, <2>2, <3>1
    <3> QED
      BY <2>1, <2>4, <3>2
  <2> QED
    BY <2>3, <2>4
<1>8. CASE ~o.cam.zsl
  <2>1. PICK x \in TakePicture(Moved(o, "PIC_TAKING")) : r \in IF x.ok THEN {x} ELSE Again(x)
    BY <1>1, <1>8
  <2>2. /\ x \in Replies /\ x.answered /\ x.w \in Worlds /\ Kept(w, x.w) /\ x.w.state = "PIC_TAKING"
        /\ SameSettings(w.cam, x.w.cam) /\ ~x.w.cam.hint /\ ~x.w.cam.vid /\ x.w.cam.pv = "none"
    BY <1>5, <1>8
  <2>3. CASE x.ok
    <3>1. Post("TAKE_PICTURE", w, Reply(x.ok, x.w))
      BY <1>4, <2>2 DEF Replies
    <3> QED
      BY <1>6, <2>1, <2>2, <2>3, <3>1
  <2>4. CASE ~x.ok
    <3>1. PICK c \in Cams : /\ c = StopPreview(x.w.cam) /\ SameSettings(w.cam, c)
                            /\ ~c.vid /\ ~c.hint
      <4>1. x.w.cam \in Cams
        BY <2>2 DEF Worlds
      <4> QED
        BY <2>2, <4>1, Unprepared DEF SameSettings
    <3>2. PICK y \in Lands(x.w, StartAgain(c), "PREVIEWING", "PREVIEW_STOPPED") : r = Reply(FALSE, y.w)
      BY <2>1, <2>4, <3>1
    <3>3. StartAgain(c) \in SUBSET Outcomes
      BY StartedAgain
    <3>4. PICK a \in StartAgain(c) :
             /\ y \in Replies /\ y.w.cam = a.cam /\ y.w.pic = x.w.pic /\ (y.w.up <=> x.w.up)
             /\ y.w.state = IF a.ok THEN "PREVIEWING" ELSE "PREVIEW_STOPPED"
      BY <1>0, <2>2, <3>2, <3>3, Landed
    <3>5. /\ SameSettings(c, a.cam) /\ a.cam.hint = c.hint
          /\ IF a.ok THEN a.cam.pv = "on" /\ a.cam.vid = c.vid
                     ELSE a.cam.pv = "none" /\ ~a.cam.vid
      BY StartedAgain
    <3>6. y.w \in Worlds
      BY <3>4 DEF Replies
    <3>7. /\ Kept(w, y.w) /\ SameSettings(w.cam, y.w.cam) /\ ~y.w.cam.vid /\ ~y.w.cam.hint
          /\ y.w.state = "PREVIEWING" => y.w.cam.pv = "on"
          /\ y.w.state = "PREVIEW_STOPPED" => y.w.cam.pv = "none"
          /\ y.w.state \in {"PREVIEWING", "PREVIEW_STOPPED"}
      BY <2>2, <3>1, <3>4, <3>5, <3>6 DEF Kept, SameSettings
    <3>8. Post("TAKE_PICTURE", w, Reply(FALSE, y.w))
      BY <1>4, <3>6, <3>7
    <3> QED
      BY <3>2, <3>8
  <2> QED
    BY <2>3, <2>4
<1> QED
  BY <1>7, <1>8

LEMMA PreviewingPost ==
  ASSUME NEW w \in Worlds, Channels(w), w.state = "PREVIEWING",
         NEW cmd \in Commands, NEW r \in Previewing(cmd, w)
  PROVE  Post(cmd, w, r)
<1>0. /\ w.cam \in Cams /\ ~w.cam.vid /\ w.pic.live # "take" /\ w.state \notin RecordingStates
      /\ {"PREVIEWING", "RECORDING", "PREVIEW_STOPPED"} \subseteq States
      /\ w.state \in PreviewStates /\ w.state \in States
  BY DEF Worlds, Channels, RecordingStates, PreviewStates, States
<1>1. PICK c \in Cams : /\ c = UnpreparePreview(w.cam) /\ c = StopPreview(w.cam) /\ SameSettings(w.cam, c)
                        /\ c.pv = "none" /\ ~c.vid /\ c.hint = w.cam.hint
  BY <1>0, Unprepared
<1>2. StopAllPreview(w) = [w EXCEPT !.cam = c]
  BY <1>1 DEF StopAllPreview
<1>3. CASE cmd = "SET_PARAMS_STOP"
  <2>1. r = Reply(TRUE, [w EXCEPT !.cam = c])
    BY <1>2, <1>3 DEF Previewing
  <2>2. Fits(cmd, w, TRUE, c, w.state)
    BY <1>0, <1>1, <1>3 DEF Fits, SameSettings, RecordingStates
  <2> QED
    BY <1>0, <1>3, <2>1, <2>2, MovedPost
<1>4. CASE cmd = "STOP_PREVIEW"
  <2>1. r = Reply(TRUE, To([w EXCEPT !.cam = c], "PREVIEW_STOPPED"))
    BY <1>2, <1>4 DEF Previewing
  <2>2. Fits(cmd, w, TRUE, c, "PREVIEW_STOPPED")
    BY <1>0, <1>1, <1>4 DEF Fits, SameSettings, RecordingStates, PreviewStates
  <2> QED
    BY <1>0, <1>4, <2>1, <2>2, MovedPost
<1>5. CASE cmd = "SET_PARAMS_RESTART"
  <2>1. PICK replies : /\ replies = Restart(w, "PREVIEWING", "PREVIEWING", "PREVIEW_STOPPED")
                       /\ r \in NoRestart(replies)
    BY <1>5 DEF Previewing
  <2>2. ASSUME NEW x \in replies
        PROVE  Post("SET_PARAMS_RESTART", w, x)
    <3>1. /\ x \in Replies /\ x.answered /\ (x.w.up <=> w.up) /\ x.w.pic = w.pic
          /\ SameSettings(w.cam, x.w.cam) /\ (x.w.cam.hint <=> w.cam.hint)
          /\ IF x.ok THEN x.w.state = "PREVIEWING" /\ x.w.cam.pv = "on" /\ (x.w.cam.vid <=> w.cam.vid)
                     ELSE x.w.state \in {"PREVIEWING", "PREVIEW_STOPPED"} /\ x.w.cam.pv = "none" /\ ~x.w.cam.vid
      BY <1>0, <2>1, Restarted
    <3>2. Fits(cmd, w, x.ok, x.w.cam, x.w.state)
      BY <1>0, <1>5, <3>1 DEF Fits, SameSettings, RecordingStates, Unlisted
    <3> QED
      BY <1>5, <3>1, <3>2, Fitting
  <2>3. Post("SET_PARAMS_RESTART", w, r)
    BY <2>1, <2>2, RestartCleared
  <2> QED
    BY <1>5, <2>3
<1>6. CASE cmd = "PRE_START_RECORDING"
  <2>1. r \in Lands(w, EnterVideo(w.cam), w.state, w.state)
    BY <1>6 DEF Previewing, OnCam
  <2>2. ASSUME NEW o \in EnterVideo(w.cam)
        PROVE  o \in Outcomes /\ Fits(cmd, w, o.ok, o.cam, w.state)
    <3>1. /\ o \in Outcomes /\ SameSettings(w.cam, o.cam) /\ ~o.cam.vid
          /\ o.ok => o.cam.pv = "on" \/ o.cam = w.cam
      BY <1>0, VideoEntered
    <3>2. o.cam.pv # "on" => ~o.ok \/ Lost(w)
      BY <1>0, <3>1 DEF Lost
    <3> QED
      BY <1>0, <1>6, <3>1, <3>2 DEF Fits, SameSettings, RecordingStates, Unlisted
  <2> QED
    BY <1>0, <1>6, <2>1, <2>2, LandedPost
<1>7. CASE cmd = "START_RECORDING"
  <2>1. r \in Lands(w, StartRecording(w.cam), "RECORDING", "PREVIEWING")
    BY <1>7 DEF Previewing
  <2>2. ASSUME NEW o \in StartRecording(w.cam)
        PROVE  o \in Outcomes /\ Fits(cmd, w, o.ok, o.cam, IF o.ok THEN "RECORDING" ELSE "PREVIEWING")
    <3>1. /\ o \in Outcomes /\ SameSettings(w.cam, o.cam) /\ o.cam.hint = w.cam.hint
          /\ o.cam.pv = w.cam.pv /\ (o.cam.vid <=> o.ok) /\ (o.ok => HasVideo(o.cam))
      BY <1>0, RecordingStarted
    <3>2. o.cam.pv # "on" => Lost(w)
      BY <1>0, <3>1 DEF Lost
    <3> QED
      BY <1>0, <1>7, <3>1, <3>2 DEF Fits, SameSettings, RecordingStates, Unlisted
  <2> QED
    BY <1>0, <1>7, <2>1, <2>2, LandedPost
<1>8. CASE cmd = "PREPARE_SNAPSHOT"
  <2>1. \/ r = Silent(To([w EXCEPT !.pic.prep = TRUE], "PREPARE_SNAPSHOT"))
        \/ r = Reply(FALSE, w)
    BY <1>8 DEF Previewing, Failing
  <2>2. CASE r = Reply(FALSE, w)
    BY <1>8, <2>2, Untouched
  <2>3. CASE r = Silent(To([w EXCEPT !.pic.prep = TRUE], "PREPARE_SNAPSHOT"))
    <3>1. PICK p \in Pics : p = [w.pic EXCEPT !.prep = TRUE] /\ p.live = w.pic.live
      <4>1. w.pic \in Pics
        BY DEF Worlds
      <4>2. [w.pic EXCEPT !.prep = TRUE] \in Pics /\ [w.pic EXCEPT !.prep = TRUE].live = w.pic.live
        BY <4>1 DEF Pics
      <4> QED
        BY <4>2
    <3>2. PICK v \in Worlds : /\ v = To([w EXCEPT !.pic.prep = TRUE], "PREPARE_SNAPSHOT") /\ v.cam = w.cam
                              /\ v.pic = p /\ v.state = "PREPARE_SNAPSHOT" /\ (v.up <=> w.up)
      <4>1. [w EXCEPT !.pic.prep = TRUE] = [w EXCEPT !.pic = p]
        BY <3>1 DEF Worlds, Pics
      <4>2. /\ To([w EXCEPT !.pic = p], "PREPARE_SNAPSHOT") \in Worlds
            /\ To([w EXCEPT !.pic = p], "PREPARE_SNAPSHOT").cam = w.cam
            /\ To([w EXCEPT !.pic = p], "PREPARE_SNAPSHOT").pic = p
            /\ To([w EXCEPT !.pic = p], "PREPARE_SNAPSHOT").state = "PREPARE_SNAPSHOT"
            /\ (To([w EXCEPT !.pic = p], "PREPARE_SNAPSHOT").up <=> w.up)
        BY DEF Worlds, To, States
      <4> QED
        BY <4>1, <4>2
    <3>3. r \in Replies /\ ~r.answered /\ r.w = v
      BY <2>3, <3>2, Replied
    <3>4. Channels(v)
      BY <1>0, <3>1, <3>2 DEF Channels, RecordingStates, HasVideo
    <3>5. Lost(v) => Lost(w)
      BY <1>0, <3>2 DEF Lost
    <3> QED
      BY <1>0, <1>8, <3>1, <3>2, <3>3, <3>4, <3>5 DEF Post
  <2> QED
    BY <2>1, <2>2, <2>3
<1>9. CASE cmd = "PRE_TAKE_PICTURE"
  <2>1. r \in Lands(w, LeaveVideo(w.cam), w.state, w.state)
    BY <1>9 DEF Previewing, OnCam
  <2>2. ASSUME NEW o \in LeaveVideo(w.cam)
        PROVE  o \in Outcomes /\ Fits(cmd, w, o.ok, o.cam, w.state)
    <3>1. /\ o \in Outcomes /\ SameSettings(w.cam, o.cam) /\ ~o.cam.vid /\ ~o.cam.hint
          /\ w.cam.hint => o.cam.pv = IF o.ok THEN "on" ELSE "none"
          /\ ~w.cam.hint => o = Outcome(TRUE, w.cam)
      BY <1>0, VideoLeft
    <3>2. ~w.cam.hint => o.cam = w.cam
      BY <1>0, <3>1, OutcomeFields
    <3>3. o.cam.pv # "on" => ~o.ok \/ Lost(w)
      BY <1>0, <3>1, <3>2 DEF Lost
    <3> QED
      BY <1>0, <1>9, <3>1, <3>3 DEF Fits, SameSettings, RecordingStates, Unlisted
  <2> QED
    BY <1>0, <1>9, <2>1, <2>2, LandedPost
<1>10. CASE cmd = "TAKE_PICTURE"
  <2>1. r \in TakeFromPreview(w)
    BY <1>10 DEF Previewing
  <2> QED
    BY <1>10, <2>1, PictureFromPreview
<1>11. CASE cmd \in {"START_PREVIEW", "PREPARE_PREVIEW", "CANCEL_PICTURE", "STOP_RECORDING"}
  <2>1. r = Reply(TRUE, w)
    BY <1>11 DEF Previewing
  <2> QED
    BY <1>11, <2>1, Untouched
<1>12. CASE cmd = "RELEASE_FRAME"
  BY <1>12, Silenced DEF Previewing
<1>13. CASE cmd \notin {"SET_PARAMS_STOP", "STOP_PREVIEW", "SET_PARAMS_RESTART", "PRE_START_RECORDING",
                        "START_RECORDING", "PREPARE_SNAPSHOT", "PRE_TAKE_PICTURE", "TAKE_PICTURE",
                        "START_PREVIEW", "PREPARE_PREVIEW", "CANCEL_PICTURE", "STOP_RECORDING",
                        "RELEASE_FRAME"}
  <2>1. r \in Common(cmd, w)
    BY <1>13 DEF Previewing
  <2> QED
    BY <2>1, CommonPost
<1> QED
  BY <1>3, <1>4, <1>5, <1>6, <1>7, <1>8, <1>9, <1>10, <1>11, <1>12, <1>13

(* A picture that is cancelled leaves the preview and its settings alone. *)
Near(w, v) ==
    /\ v \in Worlds /\ (v.up <=> w.up) /\ v.state = w.state /\ v.pic.live \in {w.pic.live, "cancel"}
    /\ SameChannels(w.cam, v.cam) /\ SameSettings(w.cam, v.cam)

LEMMA Uncaptured ==
  ASSUME NEW w \in Worlds
  PROVE  Near(w, [w EXCEPT !.cam.cap = FALSE])
<1>0. w.cam \in Cams
  BY DEF Worlds
<1>1. /\ [w.cam EXCEPT !.cap = FALSE] \in Cams
      /\ SameChannels(w.cam, [w.cam EXCEPT !.cap = FALSE]) /\ SameSettings(w.cam, [w.cam EXCEPT !.cap = FALSE])
  BY <1>0 DEF Cams, SameChannels, SameSettings
<1>2. PICK c \in Cams : c = [w.cam EXCEPT !.cap = FALSE] /\ SameChannels(w.cam, c) /\ SameSettings(w.cam, c)
  BY <1>1
<1>3. [w EXCEPT !.cam.cap = FALSE] = [w EXCEPT !.cam = c]
  BY <1>2, Reconfigured
<1> QED
  BY <1>2, <1>3 DEF Near, Worlds

LEMMA Lived ==
  ASSUME NEW w \in Worlds, NEW what \in {"take", "cancel"}
  PROVE  /\ Live(w, what) \in Worlds /\ (Live(w, what).up <=> w.up) /\ Live(w, what).state = w.state
         /\ Live(w, what).cam = w.cam /\ Live(w, what).pic.live = what
<1>0. w.pic \in Pics
  BY DEF Worlds
<1>1. [w.pic EXCEPT !.live = what] \in Pics /\ [w.pic EXCEPT !.live = what].live = what
  BY <1>0 DEF Pics
<1>2. PICK p \in Pics : p = [w.pic EXCEPT !.live = what] /\ p.live = what
  BY <1>1
<1>3. Live(w, what) = [w EXCEPT !.pic = p]
  BY <1>2 DEF Live, Worlds, Pics
<1> QED
  BY <1>2, <1>3 DEF Worlds

LEMMA Cancelled ==
  ASSUME NEW w \in Worlds
  PROVE  /\ Near(w, CancelPicture(w)) /\ Near(w, Live(w, "cancel")) /\ Near(w, CancelAny(w))
<1>1. Near(w, CancelPicture(w))
  <2>1. PICK v \in Worlds : v = StopPostproc(w) /\ Kept(w, v) /\ v.state = w.state /\ v.cam = w.cam
    BY Postproc DEF Kept
  <2>2. CancelPicture(w) = v \/ CancelPicture(w) = [v EXCEPT !.cam.cap = FALSE]
    BY <2>1 DEF CancelPicture
  <2>3. Near(v, v)
    BY DEF Near, SameChannels, SameSettings
  <2>4. Near(v, CancelPicture(w))
    BY <2>2, <2>3, Uncaptured
  <2> QED
    BY <2>1, <2>4 DEF Near, Kept
<1>2. Near(w, Live(w, "cancel"))
  BY Lived DEF Near, SameChannels, SameSettings
<1> QED
  BY <1>1, <1>2 DEF CancelAny

(* An answer that goes with another state, and with other channels. *)
LEMMA NearPost ==
  ASSUME NEW w \in Worlds, NEW cmd \in Commands \ {"STOP_CAPTURE_CHANNEL"}, NEW b \in BOOLEAN,
         NEW v \in Worlds, v.up <=> w.up, v.pic.live \in {w.pic.live, "cancel"},
         NEW s \in States, Fits(cmd, w, b, v.cam, s)
  PROVE  Post(cmd, w, Reply(b, To(v, s)))
<1>1. /\ To(v, s) \in Worlds /\ (To(v, s).up <=> v.up) /\ To(v, s).pic = v.pic
      /\ To(v, s).cam = v.cam /\ To(v, s).state = s
  BY DEF To, Worlds
<1> QED
  BY <1>1, ReplyPost

LEMMA NearFields ==
  ASSUME NEW w \in Worlds, NEW v, Near(w, v)
  PROVE  /\ v \in Worlds /\ v.cam.pv = w.cam.pv /\ v.cam.kind = w.cam.kind /\ (v.cam.vid <=> w.cam.vid)
         /\ (v.cam.hint <=> w.cam.hint) /\ (v.cam.restart <=> w.cam.restart)
BY DEF Near, SameChannels, SameSettings

LEMMA PicTakingPost ==
  ASSUME NEW w \in Worlds, Channels(w), w.state = "PIC_TAKING",
         NEW cmd \in Commands, NEW r \in PicTaking(cmd, w)
  PROVE  Post(cmd, w, r)
<1>0. /\ w.cam \in Cams /\ ~w.cam.vid /\ w.pic.live # "take" /\ w.state \notin RecordingStates
      /\ w.cam.pv = "none" /\ ~Lost(w) /\ "PREVIEW_STOPPED" \in States
  BY DEF Worlds, Channels, RecordingStates, PreviewStates, States, Lost
<1>1. CASE cmd \in {"STOP_PREVIEW", "CANCEL_PICTURE"}
  <2>1. r = Reply(TRUE, To(CancelPicture(w), "PREVIEW_STOPPED"))
    BY <1>1 DEF PicTaking
  <2>2. PICK v \in Worlds : v = CancelPicture(w) /\ Near(w, v)
    BY Cancelled DEF Near
  <2>3. Fits(cmd, w, TRUE, v.cam, "PREVIEW_STOPPED")
    BY <1>0, <1>1, <2>2, NearFields DEF Fits, RecordingStates, PreviewStates
  <2> QED
    BY <1>0, <1>1, <2>1, <2>2, <2>3, NearPost DEF Near
<1>2. CASE cmd = "SET_PARAMS_STOP"
  <2>1. r = Reply(TRUE, w)
    BY <1>2 DEF PicTaking
  <2> QED
    BY <1>2, <2>1, Untouched
<1>3. CASE cmd = "SET_PARAMS_RESTART"
  <2>1. PICK replies : replies = {Reply(TRUE, w)} /\ r \in NoRestart(replies)
    BY <1>3 DEF PicTaking
  <2>2. \A p \in replies : Post("SET_PARAMS_RESTART", w, p)
    BY <1>0, <1>3, <2>1, Untouched
  <2>3. Post("SET_PARAMS_RESTART", w, r)
    BY <2>1, <2>2, RestartCleared
  <2> QED
    BY <1>3, <2>3
<1>4. CASE cmd = "STOP_CAPTURE_CHANNEL"
  <2>1. PICK v \in Worlds : v = [w EXCEPT !.cam.cap = FALSE] /\ Near(w, v)
    BY Uncaptured DEF Near
  <2>2. r = Silent(v)
    BY <1>4, <2>1 DEF PicTaking
  <2>3. r \in Replies /\ ~r.answered /\ r.w = v
    BY <2>2, Replied
  <2>4. Channels(v) /\ ~Lost(v)
    <3>1. v.state = w.state /\ v.pic.live # "take"
      BY <1>0, <2>1 DEF Near
    <3> QED
      BY <1>0, <2>1, <3>1, NearFields DEF Channels, Lost, RecordingStates, PreviewStates
  <2>5. v.pic.live # "take"
    BY <1>0, <2>1 DEF Near
  <2>6. /\ (v.up <=> w.up) /\ (v.cam.restart <=> w.cam.restart) /\ (v.cam.hint <=> w.cam.hint)
        /\ v.state = w.state
    <3>1. (v.up <=> w.up) /\ v.state = w.state
      BY <2>1 DEF Near
    <3>2. (v.cam.restart <=> w.cam.restart) /\ (v.cam.hint <=> w.cam.hint)
      BY <2>1 DEF Near, SameChannels, SameSettings
    <3> QED
      BY <3>1, <3>2
  <2> QED
    BY <1>0, <1>4, <2>3, <2>4, <2>5, <2>6 DEF Post
<1>5. CASE cmd \notin {"STOP_PREVIEW", "CANCEL_PICTURE", "SET_PARAMS_STOP", "SET_PARAMS_RESTART",
                       "STOP_CAPTURE_CHANNEL"}
  <2>1. r \in Common(cmd, w)
    BY <1>5 DEF PicTaking
  <2> QED
    BY <2>1, CommonPost
<1> QED
  BY <1>1, <1>2, <1>3, <1>4, <1>5

(* While recording, a change of the parameters that needs a restart fails. *)
LEMMA RecordingParams ==
  ASSUME NEW w \in Worlds, Channels(w), NEW r \in SetParamsRecording(w)
  PROVE  Post("SET_PARAMS", w, r)
<1>1. PICK change \in BOOLEAN : r = Reply(~change, [w EXCEPT !.cam.restart = FALSE])
  BY DEF SetParamsRecording
<1>2. PICK b \in BOOLEAN : b = ~change
  OBVIOUS
<1>3. r = Reply(b, [w EXCEPT !.cam = [w.cam EXCEPT !.restart = FALSE]])
  BY <1>1, <1>2, Reconfigured
<1>4. [w.cam EXCEPT !.restart = FALSE] \in Cams /\ SameChannels(w.cam, [w.cam EXCEPT !.restart = FALSE])
  <2>1. w.cam \in Cams
    BY DEF Worlds
  <2> QED
    BY <2>1 DEF Cams, SameChannels
<1> QED
  BY <1>3, <1>4, Adjusted DEF Commands

(* The video channel stopped, with or without the live snapshot. *)
LEMMA VideoStopped ==
  ASSUME NEW w \in Worlds
  PROVE  LET v == StopRecording(w)
         IN  /\ v \in Worlds /\ (v.up <=> w.up) /\ v.pic = w.pic /\ v.state = w.state
             /\ v.cam.pv = w.cam.pv /\ ~v.cam.vid /\ (v.cam.hint <=> w.cam.hint)
             /\ (v.cam.restart <=> w.cam.restart)
<1>1. w.cam \in Cams
  BY DEF Worlds
<1>2. /\ [w.cam EXCEPT !.vid = FALSE] \in Cams /\ [w.cam EXCEPT !.vid = FALSE].pv = w.cam.pv
      /\ ~[w.cam EXCEPT !.vid = FALSE].vid
      /\ ([w.cam EXCEPT !.vid = FALSE].hint <=> w.cam.hint)
      /\ ([w.cam EXCEPT !.vid = FALSE].restart <=> w.cam.restart)
  BY <1>1 DEF Cams
<1>3. PICK c \in Cams : /\ c = [w.cam EXCEPT !.vid = FALSE] /\ c.pv = w.cam.pv
                        /\ ~c.vid /\ (c.hint <=> w.cam.hint) /\ (c.restart <=> w.cam.restart)
  BY <1>2
<1>4. StopRecording(w) = [w EXCEPT !.cam = c]
  BY <1>3, Reconfigured DEF StopRecording
<1>5. /\ [w EXCEPT !.cam = c] \in Worlds /\ ([w EXCEPT !.cam = c].up <=> w.up)
      /\ [w EXCEPT !.cam = c].pic = w.pic /\ [w EXCEPT !.cam = c].state = w.state
      /\ [w EXCEPT !.cam = c].cam = c
  BY DEF Worlds
<1> QED
  BY <1>3, <1>4, <1>5

LEMMA PreviewStoppedToo ==
  ASSUME NEW w \in Worlds
  PROVE  LET v == StopAllPreview(w)
         IN  /\ v \in Worlds /\ (v.up <=> w.up) /\ v.pic = w.pic /\ v.state = w.state
             /\ v.cam.pv = "none" /\ ~v.cam.vid /\ (v.cam.hint <=> w.cam.hint)
             /\ (v.cam.restart <=> w.cam.restart)
<1>1. PICK c \in Cams : /\ c = StopPreview(w.cam) /\ SameSettings(w.cam, c)
                        /\ c.pv = "none" /\ ~c.vid /\ c.hint = w.cam.hint
  BY Unprepared DEF Worlds
<1>2. /\ [w EXCEPT !.cam = c] \in Worlds /\ ([w EXCEPT !.cam = c].up <=> w.up)
      /\ [w EXCEPT !.cam = c].pic = w.pic /\ [w EXCEPT !.cam = c].state = w.state
      /\ [w EXCEPT !.cam = c].cam = c
  BY DEF Worlds
<1>3. StopAllPreview(w) = [w EXCEPT !.cam = c]
  BY <1>1 DEF StopAllPreview
<1> QED
  BY <1>1, <1>2, <1>3 DEF SameSettings

LEMMA RecordingPost ==
  ASSUME NEW w \in Worlds, Channels(w), w.state = "RECORDING",
         NEW cmd \in Commands, NEW r \in Recording(cmd, w)
  PROVE  Post(cmd, w, r)
<1>0. /\ w.cam \in Cams /\ w.cam.vid /\ HasVideo(w.cam) /\ w.pic.live # "take"
      /\ w.state \in PreviewStates
      /\ {"PREVIEWING", "PREVIEW_STOPPED", "VIDEO_PIC_TAKING"} \subseteq States
  BY DEF Worlds, Channels, RecordingStates, PreviewStates, States
<1>1. CASE cmd \in {"PREPARE_PREVIEW", "START_PREVIEW", "SET_PREVIEW_WINDOW", "PRE_START_RECORDING",
                    "START_RECORDING", "RELEASE_FRAME", "PREPARE_SNAPSHOT"}
  <2>1. r = Reply(TRUE, w)
    BY <1>1 DEF Recording
  <2> QED
    BY <1>1, <2>1, Untouched
<1>2. CASE cmd = "PRE_TAKE_PICTURE"
  <2>1. r \in Replies /\ r.answered /\ r.w = w
    <3>1. r = Reply(TRUE, w)
      BY <1>2 DEF Recording
    <3> QED
      BY <3>1, Replied
  <2> QED
    BY <1>0, <1>2, <2>1 DEF Post, RecordingStates
<1>3. CASE cmd = "SET_PARAMS"
  BY <1>3, RecordingParams DEF Recording
<1>4. CASE cmd = "TAKE_PICTURE"
  <2>1. PICK u \in Worlds : /\ u = Live(w, "take") /\ (u.up <=> w.up) /\ u.cam = w.cam
                            /\ u.pic.live = "take"
    BY Lived
  <2>2. PICK v \in Worlds : /\ v = To(u, "VIDEO_PIC_TAKING") /\ (v.up <=> w.up) /\ v.cam = w.cam
                            /\ v.state = "VIDEO_PIC_TAKING"
    <3>1. /\ To(u, "VIDEO_PIC_TAKING") \in Worlds /\ (To(u, "VIDEO_PIC_TAKING").up <=> w.up)
          /\ To(u, "VIDEO_PIC_TAKING").cam = w.cam
          /\ To(u, "VIDEO_PIC_TAKING").state = "VIDEO_PIC_TAKING"
      BY <1>0, <2>1 DEF To, Worlds
    <3> QED
      BY <3>1
  <2>3. r \in Replies /\ r.answered /\ r.w = v
    <3>1. r = Reply(TRUE, v)
      BY <1>4, <2>1, <2>2 DEF Recording
    <3> QED
      BY <3>1, Replied
  <2>4. Channels(v) /\ v.state \in RecordingStates /\ v.state # "PREPARE_SNAPSHOT"
    BY <1>0, <2>2 DEF Channels, RecordingStates
  <2>5. Lost(v) => Lost(w)
    BY <1>0, <2>2 DEF Lost
  <2> QED
    BY <1>4, <2>2, <2>3, <2>4, <2>5 DEF Post
<1>5. CASE cmd = "STOP_RECORDING"
  <2>1. PICK v \in Worlds : /\ v = StopRecording(w) /\ (v.up <=> w.up) /\ v.pic = w.pic
                            /\ v.cam.pv = w.cam.pv /\ ~v.cam.vid /\ (v.cam.hint <=> w.cam.hint)
                            /\ (v.cam.restart <=> w.cam.restart)
    BY VideoStopped
  <2>2. r = Reply(TRUE, To(v, "PREVIEWING"))
    BY <1>5, <2>1 DEF Recording
  <2>3. v.cam.pv # "on" => Lost(w)
    BY <1>0, <2>1 DEF Lost
  <2>4. Fits(cmd, w, TRUE, v.cam, "PREVIEWING")
    BY <1>0, <1>5, <2>1, <2>3 DEF Fits, RecordingStates, Unlisted
  <2> QED
    BY <1>0, <1>5, <2>1, <2>2, <2>4, NearPost
<1>6. CASE cmd = "STOP_PREVIEW"
  <2>1. PICK u \in Worlds : /\ u = StopRecording(w) /\ (u.up <=> w.up) /\ u.pic = w.pic
                            /\ (u.cam.hint <=> w.cam.hint) /\ (u.cam.restart <=> w.cam.restart)
    BY VideoStopped
  <2>2. PICK v \in Worlds : /\ v = StopAllPreview(u) /\ (v.up <=> u.up) /\ v.pic = u.pic
                            /\ v.cam.pv = "none" /\ ~v.cam.vid /\ (v.cam.hint <=> u.cam.hint)
                            /\ (v.cam.restart <=> u.cam.restart)
    BY PreviewStoppedToo
  <2>3. r = Reply(TRUE, To(v, "PREVIEW_STOPPED"))
    BY <1>6, <2>1, <2>2 DEF Recording
  <2>4. Fits(cmd, w, TRUE, v.cam, "PREVIEW_STOPPED")
    BY <1>0, <1>6, <2>1, <2>2 DEF Fits, RecordingStates, PreviewStates, Unlisted
  <2> QED
    BY <1>0, <1>6, <2>1, <2>2, <2>3, <2>4, NearPost
<1>7. CASE cmd \notin {"PREPARE_PREVIEW", "START_PREVIEW", "SET_PREVIEW_WINDOW", "PRE_START_RECORDING",
                       "START_RECORDING", "RELEASE_FRAME", "PREPARE_SNAPSHOT", "PRE_TAKE_PICTURE",
                       "SET_PARAMS", "TAKE_PICTURE", "STOP_RECORDING", "STOP_PREVIEW"}
  <2>1. r \in Common(cmd, w)
    BY <1>7 DEF Recording
  <2> QED
    BY <2>1, CommonPost
<1> QED
  BY <1>1, <1>2, <1>3, <1>4, <1>5, <1>6, <1>7

LEMMA VideoPicTakingPost ==
  ASSUME NEW w \in Worlds, Channels(w), w.state = "VIDEO_PIC_TAKING",
         NEW cmd \in Commands, NEW r \in VideoPicTaking(cmd, w)
  PROVE  Post(cmd, w, r)
<1>0. /\ w.cam \in Cams /\ w.cam.vid /\ HasVideo(w.cam) /\ w.state \in PreviewStates
      /\ {"PREVIEWING", "PREVIEW_STOPPED", "RECORDING"} \subseteq States
  BY DEF Worlds, Channels, RecordingStates, PreviewStates, States
<1>1. PICK l \in Worlds : /\ l = Live(w, "cancel") /\ (l.up <=> w.up) /\ l.cam = w.cam
                          /\ l.pic.live = "cancel"
  BY Lived
<1>2. PICK u \in Worlds : /\ u = StopRecording(l) /\ (u.up <=> w.up) /\ u.pic.live = "cancel"
                          /\ u.cam.pv = w.cam.pv /\ ~u.cam.vid /\ (u.cam.hint <=> w.cam.hint)
                          /\ (u.cam.restart <=> w.cam.restart)
  <2>1. PICK u \in Worlds : /\ u = StopRecording(l) /\ (u.up <=> l.up) /\ u.pic = l.pic
                            /\ u.cam.pv = l.cam.pv /\ ~u.cam.vid /\ (u.cam.hint <=> l.cam.hint)
                            /\ (u.cam.restart <=> l.cam.restart)
    BY VideoStopped
  <2> QED
    BY <1>1, <2>1
<1>3. CASE cmd = "SET_PARAMS"
  BY <1>3, RecordingParams DEF VideoPicTaking
<1>4. CASE cmd = "RELEASE_FRAME"
  <2>1. r = Reply(TRUE, w)
    BY <1>4 DEF VideoPicTaking
  <2> QED
    BY <1>4, <2>1, Untouched
<1>5. CASE cmd = "STOP_RECORDING"
  <2>1. PICK v \in Worlds : /\ v = To(u, "PREVIEWING") /\ (v.up <=> w.up) /\ v.cam = u.cam
                            /\ v.pic.live = "cancel" /\ v.state = "PREVIEWING"
    <3>1. /\ To(u, "PREVIEWING") \in Worlds /\ (To(u, "PREVIEWING").up <=> w.up)
          /\ To(u, "PREVIEWING").cam = u.cam /\ To(u, "PREVIEWING").pic.live = "cancel"
          /\ To(u, "PREVIEWING").state = "PREVIEWING"
      BY <1>0, <1>2 DEF To, Worlds
    <3> QED
      BY <3>1
  <2>2. r \in Replies /\ r.answered /\ r.w = v
    <3>1. r = Reply(TRUE, v)
      BY <1>1, <1>2, <1>5, <2>1 DEF VideoPicTaking
    <3> QED
      BY <3>1, Replied
  <2>3. Channels(v) /\ v.state # "PREPARE_SNAPSHOT"
    BY <1>2, <2>1 DEF Channels, RecordingStates
  <2>4. Lost(v) => Lost(w)
    BY <1>0, <1>2, <2>1 DEF Lost
  <2> QED
    BY <1>2, <1>5, <2>1, <2>2, <2>3, <2>4 DEF Post, Unlisted
<1>6. CASE cmd = "CANCEL_PICTURE"
  <2>1. PICK v \in Worlds : /\ v = To(l, "RECORDING") /\ (v.up <=> w.up) /\ v.cam = w.cam
                            /\ v.pic.live = "cancel" /\ v.state = "RECORDING"
    <3>1. /\ To(l, "RECORDING") \in Worlds /\ (To(l, "RECORDING").up <=> w.up)
          /\ To(l, "RECORDING").cam = w.cam /\ To(l, "RECORDING").pic.live = "cancel"
          /\ To(l, "RECORDING").state = "RECORDING"
      BY <1>0, <1>1 DEF To, Worlds
    <3> QED
      BY <3>1
  <2>2. r \in Replies /\ r.answered /\ r.w = v
    <3>1. r = Reply(TRUE, v)
      BY <1>1, <1>6, <2>1 DEF VideoPicTaking
    <3> QED
      BY <3>1, Replied
  <2>3. Channels(v) /\ v.state \in RecordingStates /\ v.state # "PREPARE_SNAPSHOT"
    BY <1>0, <2>1 DEF Channels, RecordingStates
  <2>4. Lost(v) => Lost(w)
    BY <1>0, <2>1 DEF Lost
  <2> QED
    BY <1>6, <2>1, <2>2, <2>3, <2>4 DEF Post
<1>7. CASE cmd = "STOP_PREVIEW"
  <2>1. PICK s \in Worlds : /\ s = StopAllPreview(u) /\ (s.up <=> w.up) /\ s.pic.live = "cancel"
                            /\ s.cam.pv = "none" /\ ~s.cam.vid /\ (s.cam.hint <=> w.cam.hint)
                            /\ (s.cam.restart <=> w.cam.restart)
    <3>1. PICK s \in Worlds : /\ s = StopAllPreview(u) /\ (s.up <=> u.up) /\ s.pic = u.pic
                              /\ s.cam.pv = "none" /\ ~s.cam.vid /\ (s.cam.hint <=> u.cam.hint)
                              /\ (s.cam.restart <=> u.cam.restart)
      BY PreviewStoppedToo
    <3> QED
      BY <1>2, <3>1
  <2>2. PICK v \in Worlds : /\ v = To(s, "PREVIEW_STOPPED") /\ (v.up <=> w.up) /\ v.cam = s.cam
                            /\ v.pic.live = "cancel" /\ v.state = "PREVIEW_STOPPED"
    <3>1. /\ To(s, "PREVIEW_STOPPED") \in Worlds /\ (To(s, "PREVIEW_STOPPED").up <=> w.up)
          /\ To(s, "PREVIEW_STOPPED").cam = s.cam /\ To(s, "PREVIEW_STOPPED").pic.live = "cancel"
          /\ To(s, "PREVIEW_STOPPED").state = "PREVIEW_STOPPED"
      BY <1>0, <2>1 DEF To, Worlds
    <3> QED
      BY <3>1
  <2>3. r \in Replies /\ r.answered /\ r.w = v
    <3>1. r = Reply(TRUE, v)
      BY <1>1, <1>2, <1>7, <2>1, <2>2 DEF VideoPicTaking
    <3> QED
      BY <3>1, Replied
  <2>4. Channels(v) /\ ~Lost(v) /\ v.state # "PREPARE_SNAPSHOT"
    BY <2>1, <2>2 DEF Channels, RecordingStates, PreviewStates, Lost
  <2> QED
    BY <1>7, <2>1, <2>2, <2>3, <2>4 DEF Post, Unlisted
<1>8. CASE cmd \notin {"SET_PARAMS", "RELEASE_FRAME", "STOP_RECORDING", "CANCEL_PICTURE", "STOP_PREVIEW"}
  <2>1. r \in Common(cmd, w)
    BY <1>8 DEF VideoPicTaking
  <2> QED
    BY <2>1, CommonPost
<1> QED
  BY <1>3, <1>4, <1>5, <1>6, <1>7, <1>8

LEMMA PreviewPicTakingPost ==
  ASSUME NEW w \in Worlds, Channels(w), w.state = "PREVIEW_PIC_TAKING",
         NEW cmd \in Commands, NEW r \in PreviewPicTaking(cmd, w)
  PROVE  Post(cmd, w, r)
<1>0. /\ w.cam \in Cams /\ ~w.cam.vid /\ w.pic.live # "take" /\ w.state \notin RecordingStates
      /\ w.state \in PreviewStates /\ w.state \in States
      /\ {"PREVIEWING", "PREVIEW_STOPPED", "PIC_TAKING", "VIDEO_PIC_TAKING", "PREVIEW_PIC_TAKING"} \subseteq States
  BY DEF Worlds, Channels, RecordingStates, PreviewStates, States
<1>1. CASE cmd = "SET_PARAMS_STOP"
  <2>1. PICK c \in Cams : /\ c = StopPreview(w.cam) /\ SameSettings(w.cam, c)
                          /\ c.pv = "none" /\ ~c.vid /\ c.hint = w.cam.hint
    BY <1>0, Unprepared
  <2>2. r = Reply(TRUE, [w EXCEPT !.cam = c])
    BY <1>1, <2>1 DEF PreviewPicTaking, StopAllPreview
  <2>3. Fits(cmd, w, TRUE, c, w.state)
    BY <1>0, <1>1, <2>1 DEF Fits, SameSettings, RecordingStates
  <2> QED
    BY <1>0, <1>1, <2>2, <2>3, MovedPost
<1>2. CASE cmd = "SET_PARAMS_RESTART"
  <2>1. PICK replies : /\ replies = Restart(w, "PREVIEW_PIC_TAKING", "PIC_TAKING", "PIC_TAKING")
                       /\ r \in NoRestart(replies)
    BY <1>2 DEF PreviewPicTaking
  <2>2. ASSUME NEW x \in replies
        PROVE  Post("SET_PARAMS_RESTART", w, x)
    <3>1. /\ x \in Replies /\ x.answered /\ (x.w.up <=> w.up) /\ x.w.pic = w.pic
          /\ SameSettings(w.cam, x.w.cam) /\ (x.w.cam.hint <=> w.cam.hint)
          /\ IF x.ok THEN x.w.state = "PREVIEW_PIC_TAKING" /\ x.w.cam.pv = "on" /\ (x.w.cam.vid <=> w.cam.vid)
                     ELSE x.w.state \in {"PIC_TAKING", "PIC_TAKING"} /\ x.w.cam.pv = "none" /\ ~x.w.cam.vid
      BY <1>0, <2>1, Restarted
    <3>2. Fits(cmd, w, x.ok, x.w.cam, x.w.state)
      BY <1>0, <1>2, <3>1 DEF Fits, SameSettings, RecordingStates, Unlisted
    <3> QED
      BY <1>2, <3>1, <3>2, Fitting
  <2>3. Post("SET_PARAMS_RESTART", w, r)
    BY <2>1, <2>2, RestartCleared
  <2> QED
    BY <1>2, <2>3
<1>3. CASE cmd = "RELEASE_FRAME"
  <2>1. r = Reply(TRUE, w)
    BY <1>3 DEF PreviewPicTaking
  <2> QED
    BY <1>3, <2>1, Untouched
<1>4. CASE cmd = "CANCEL_PICTURE"
  <2>1. PICK v \in Worlds : v = CancelAny(w) /\ Near(w, v)
    BY Cancelled DEF Near
  <2>2. r = Reply(TRUE, To(v, "PREVIEWING"))
    BY <1>4, <2>1 DEF PreviewPicTaking
  <2>3. v.cam.pv # "on" => Lost(w)
    BY <1>0, <2>1 DEF Lost, Near, SameChannels
  <2>4. Fits(cmd, w, TRUE, v.cam, "PREVIEWING")
    BY <1>0, <1>4, <2>1, <2>3, NearFields DEF Fits, RecordingStates, Unlisted
  <2>5. (v.up <=> w.up) /\ v.pic.live \in {w.pic.live, "cancel"}
    BY <2>1 DEF Near
  <2> QED
    BY <1>0, <1>4, <2>2, <2>4, <2>5, NearPost
<1>5. CASE cmd = "STOP_PREVIEW"
  <2>1. PICK v \in Worlds : v = CancelAny(w) /\ Near(w, v)
    BY Cancelled DEF Near
  <2>2. PICK c \in Cams : /\ c = UnpreparePreview(w.cam) /\ SameSettings(w.cam, c)
                          /\ c.pv = "none" /\ ~c.vid /\ c.hint = w.cam.hint
    BY <1>0, Unprepared
  <2>3. (v.up <=> w.up) /\ v.pic.live \in {w.pic.live, "cancel"}
    BY <2>1 DEF Near
  <2>4. PICK u \in Worlds : u = [v EXCEPT !.cam = c] /\ u.cam = c /\ u.pic = v.pic /\ (u.up <=> v.up)
    <3>1. /\ [v EXCEPT !.cam = c] \in Worlds /\ [v EXCEPT !.cam = c].cam = c
          /\ [v EXCEPT !.cam = c].pic = v.pic /\ ([v EXCEPT !.cam = c].up <=> v.up)
      BY DEF Worlds
    <3> QED
      BY <3>1
  <2>5. r = Reply(TRUE, To(u, "PREVIEW_STOPPED"))
    BY <1>5, <2>1, <2>2, <2>4 DEF PreviewPicTaking
  <2>6. Fits(cmd, w, TRUE, u.cam, "PREVIEW_STOPPED")
    BY <1>0, <1>5, <2>2, <2>4 DEF Fits, SameSettings, RecordingStates, PreviewStates, Unlisted
  <2> QED
    BY <1>0, <1>5, <2>3, <2>4, <2>5, <2>6, NearPost
<1>6. CASE cmd = "PRE_START_RECORDING" /\ ~w.cam.zsl
  <2>1. r \in Lands(w, EnterVideo(w.cam), w.state, w.state)
    BY <1>6 DEF PreviewPicTaking, OnCam
  <2>2. ASSUME NEW o \in EnterVideo(w.cam)
        PROVE  o \in Outcomes /\ Fits(cmd, w, o.ok, o.cam, w.state)
    <3>1. /\ o \in Outcomes /\ SameSettings(w.cam, o.cam) /\ ~o.cam.vid
          /\ o.ok => o.cam.pv = "on" \/ o.cam = w.cam
      BY <1>0, VideoEntered
    <3>2. o.cam.pv # "on" => ~o.ok \/ Lost(w)
      BY <1>0, <3>1 DEF Lost
    <3> QED
      BY <1>0, <1>6, <3>1, <3>2 DEF Fits, SameSettings, RecordingStates, Unlisted
  <2> QED
    BY <1>0, <1>6, <2>1, <2>2, LandedPost
<1>7. CASE cmd = "START_RECORDING" /\ ~w.cam.zsl
  <2>1. r \in Lands(w, StartRecording(w.cam), "VIDEO_PIC_TAKING", "PREVIEW_PIC_TAKING")
    BY <1>7 DEF PreviewPicTaking
  <2>2. ASSUME NEW o \in StartRecording(w.cam)
        PROVE  o \in Outcomes /\ Fits(cmd, w, o.ok, o.cam, IF o.ok THEN "VIDEO_PIC_TAKING" ELSE "PREVIEW_PIC_TAKING")
    <3>1. /\ o \in Outcomes /\ SameSettings(w.cam, o.cam) /\ o.cam.hint = w.cam.hint
          /\ o.cam.pv = w.cam.pv /\ (o.cam.vid <=> o.ok) /\ (o.ok => HasVideo(o.cam))
      BY <1>0, RecordingStarted
    <3>2. o.cam.pv # "on" => Lost(w)
      BY <1>0, <3>1 DEF Lost
    <3> QED
      BY <1>0, <1>7, <3>1, <3>2 DEF Fits, SameSettings, RecordingStates, Unlisted
  <2> QED
    BY <1>0, <1>7, <2>1, <2>2, LandedPost
<1>8. CASE /\ cmd \notin {"SET_PARAMS_STOP", "SET_PARAMS_RESTART", "RELEASE_FRAME", "CANCEL_PICTURE", "STOP_PREVIEW"}
           /\ cmd \in {"PRE_START_RECORDING", "START_RECORDING"} => w.cam.zsl
  <2>1. r \in Common(cmd, w)
    BY <1>8 DEF PreviewPicTaking
  <2> QED
    BY <2>1, CommonPost
<1> QED
  BY <1>1, <1>2, <1>3, <1>4, <1>5, <1>6, <1>7, <1>8

(* Whatever the state, a handler does what the invariant needs of it. *)
LEMMA HandlerPost ==
  ASSUME NEW w \in Worlds, Channels(w), NEW cmd \in Commands, NEW r \in HandlerOf(cmd, w)
  PROVE  Post(cmd, w, r)
<1>1. CASE w.state = "PREVIEW_STOPPED"
  BY <1>1, PreviewStoppedPost DEF HandlerOf
<1>2. CASE w.state = "PREVIEW_READY"
  BY <1>2, PreviewReadyPost DEF HandlerOf
<1>3. CASE w.state = "PREVIEWING"
  BY <1>3, PreviewingPost DEF HandlerOf
<1>4. CASE w.state = "PREPARE_SNAPSHOT"
  <2>1. r = IF cmd = "STOP_CAPTURE_CHANNEL" THEN Silent(w) ELSE Reply(FALSE, w)
    BY <1>4 DEF HandlerOf
  <2>2. CASE cmd = "STOP_CAPTURE_CHANNEL"
    BY <2>1, <2>2, Silenced
  <2>3. CASE cmd # "STOP_CAPTURE_CHANNEL"
    BY <2>1, <2>3, Untouched
  <2> QED
    BY <2>2, <2>3
<1>5. CASE w.state = "PIC_TAKING"
  BY <1>5, PicTakingPost DEF HandlerOf
<1>6. CASE w.state = "RECORDING"
  BY <1>6, RecordingPost DEF HandlerOf
<1>7. CASE w.state = "VIDEO_PIC_TAKING"
  BY <1>7, VideoPicTakingPost DEF HandlerOf
<1>8. CASE w.state = "PREVIEW_PIC_TAKING"
  BY <1>8, PreviewPicTakingPost DEF HandlerOf
<1> QED
  BY <1>1, <1>2, <1>3, <1>4, <1>5, <1>6, <1>7, <1>8 DEF Worlds, States

-----------------------------------------------------------------------------
(* The steps.  First the calls, and the initial state.                      *)

LEMMA CallHeads ==
  ASSUME NEW call \in DeviceCalls
  PROVE  /\ Head(call) \in Commands \ {"STOP_CAPTURE_CHANNEL"} /\ Tail(call) = After(Head(call))
         /\ Head(call) \notin {"SET_PARAMS_STOP", "SET_PARAMS_COMMIT", "SET_PARAMS_RESTART", "TAKE_PICTURE"}
<1>1. CASE call = SetParameters
  BY <1>1 DEF SetParameters, After, Commands
<1>2. CASE call = StartRecordings
  BY <1>2 DEF StartRecordings, After, Commands
<1>3. CASE call = Picture
  BY <1>3 DEF Picture, After, Commands
<1>4. CASE call = FlashPicture
  BY <1>4 DEF FlashPicture, After, Commands
<1>5. ASSUME NEW c \in SimpleCalls, call = <<c>>
      PROVE  /\ Head(call) \in Commands \ {"STOP_CAPTURE_CHANNEL"} /\ Tail(call) = After(Head(call))
             /\ Head(call) \notin {"SET_PARAMS_STOP", "SET_PARAMS_COMMIT", "SET_PARAMS_RESTART", "TAKE_PICTURE"}
  <2>1. Head(call) = c /\ Tail(call) = <<>>
    BY <1>5
  <2>2. After(c) = <<>>
    BY DEF SimpleCalls, After
  <2> QED
    BY <2>1, <2>2 DEF SimpleCalls, Commands
<1> QED
  BY <1>1, <1>2, <1>3, <1>4, <1>5 DEF DeviceCalls

LEMMA InitHalInv == Init => HalInv
<1> SUFFICES ASSUME Init PROVE HalInv
  OBVIOUS
<1> USE DEF Init
<1>1. HalTypes
  <2>1. apiQ \in Seq(Commands) /\ evtQ \in Seq(Events) /\ results \in Seq(Answers)
    OBVIOUS
  <2>2. caller = [todo |-> After(caller.wait), wait |-> caller.wait, woken |-> caller.woken]
    <3>1. After("none") = <<>>
      BY DEF After
    <3> QED
      BY <3>1
  <2>3. cam \in Cams /\ hist \in [told : BOOLEAN, up : BOOLEAN]
    BY DEF Cams
  <2>4. pic \in Pics
    BY DEF Pics
  <2>5. ntf \in [cmds : Notices, data : Nat, mode : {"off", "due", "done"}, sync : BOOLEAN]
    BY DEF Notices
  <2> QED
    BY <2>1, <2>2, <2>3, <2>4, <2>5 DEF HalTypes, States
<1>2. AnswerInv
  BY DEF AnswerInv, NoneQueued, NoneAnswered, Preparing
<1>3. WaitInv
  BY DEF WaitInv, NoneQueued
<1>4. Channels(World)
  BY DEF Channels, World, RecordingStates
<1>5. CallInv /\ LossInv
  BY DEF CallInv, LossInv, PreviewStates, RecordingStates
<1> QED
  BY <1>1, <1>2, <1>3, <1>4, <1>5 DEF HalInv

(* Steps beside the caller and the state machine. *)
LEMMA Beside ==
  ASSUME HalInv, UNCHANGED <<state, apiQ, caller, results, cam, hist>>, pic'.live \in {pic.live, "none"},
         \A i \in DOMAIN evtQ' : evtQ'[i] = "DAEMON_DIED" => ~hist.up
  PROVE  AnswerInv' /\ WaitInv' /\ Channels(World)' /\ CallInv' /\ LossInv'
<1> USE DEF HalInv
<1>1. AnswerInv'
  BY DEF AnswerInv, NoneQueued, NoneAnswered, Preparing, Own, Strays
<1>2. WaitInv'
  BY DEF WaitInv, NoneQueued, Own
<1>3. Channels(World)'
  BY DEF Channels, World, HasVideo
<1>4. CallInv'
  BY DEF CallInv, Succeeded
<1>5. LossInv'
  BY DEF LossInv, Restarting, Reported, Failed
<1> QED
  BY <1>1, <1>2, <1>3, <1>4, <1>5

LEMMA HereTyped ==
  ASSUME HalTypes
  PROVE  /\ World \in Worlds /\ World.state = state /\ World.cam = cam /\ World.pic = pic
         /\ World.cmds = ntf.cmds /\ (World.up <=> hist.up)
BY DEF HalTypes, World, Worlds

LEMMA BecomeTyped ==
  ASSUME HalTypes, NEW v \in Worlds, Become(v)
  PROVE  /\ state' = v.state /\ cam' = v.cam /\ pic' = v.pic
         /\ state' \in States /\ cam' \in Cams /\ pic' \in Pics
         /\ ntf' \in [cmds : Notices, data : Nat, mode : {"off", "due", "done"}, sync : BOOLEAN]
<1>1. state' = v.state /\ cam' = v.cam /\ pic' = v.pic
  BY DEF Become
<1>2. state' \in States /\ cam' \in Cams /\ pic' \in Pics
  BY <1>1 DEF Worlds
<1>3. ntf' = [ntf EXCEPT !.cmds = v.cmds] /\ v.cmds \in Notices
  BY DEF Become, Worlds
<1>4. ntf' \in [cmds : Notices, data : Nat, mode : {"off", "due", "done"}, sync : BOOLEAN]
  BY <1>3 DEF HalTypes
<1> QED
  BY <1>1, <1>2, <1>4

LEMMA DeferredStartStep == HalInv /\ DeferredStart => HalInv'
<1> SUFFICES ASSUME HalInv, DeferredStart PROVE HalInv'
  OBVIOUS
<1>0. HalTypes
  BY DEF HalInv
<1>1. PICK w \in {StartPostproc(World), World} : Become([w EXCEPT !.pic.job = @ - 1])
  BY DEF DeferredStart, Failing
<1>2. w \in Worlds /\ w.state = state /\ w.cam = cam /\ w.pic.live = pic.live /\ w.pic.job \in Nat /\ w.pic.job > 0
  <2>1. CASE w = World
    <3>1. pic.job \in Nat /\ pic.job > 0
      BY <1>0 DEF HalTypes, Pics, DeferredStart
    <3> QED
      BY <1>0, <2>1, <3>1, HereTyped
  <2>2. CASE w = StartPostproc(World)
    <3>1. Kept(World, w) /\ w.state = state /\ w.cam = cam
      BY <1>0, <2>2, HereTyped, Postproc
    <3>2. w.pic.job = pic.job
      BY <1>0, <2>2, HereTyped, Postproc
    <3>3. pic.job \in Nat /\ pic.job > 0
      BY <1>0 DEF HalTypes, Pics, DeferredStart
    <3> QED
      BY <1>0, <3>1, <3>2, <3>3, HereTyped DEF Kept
  <2> QED
    BY <1>1, <2>1, <2>2
<1>3. PICK p \in Pics : p = [w.pic EXCEPT !.job = @ - 1] /\ p.live = pic.live
  <2>1. w.pic \in Pics
    BY <1>2 DEF Worlds
  <2>2. PICK j \in Nat : j = w.pic.job - 1
    BY <1>2
  <2>3. [w.pic EXCEPT !.job = j] \in Pics /\ [w.pic EXCEPT !.job = j].live = w.pic.live
    BY <2>1 DEF Pics
  <2> QED
    BY <1>2, <2>2, <2>3
<1>4. PICK v \in Worlds : v = [w EXCEPT !.pic = p] /\ v.state = state /\ v.cam = cam /\ v.pic = p
  <2>1. /\ [w EXCEPT !.pic = p] \in Worlds /\ [w EXCEPT !.pic = p].state = w.state
        /\ [w EXCEPT !.pic = p].cam = w.cam /\ [w EXCEPT !.pic = p].pic = p
    BY <1>2 DEF Worlds
  <2> QED
    BY <1>2, <2>1
<1>5. Become(v)
  BY <1>1, <1>2, <1>3, <1>4 DEF Worlds, Pics
<1>6. HalTypes'
  BY <1>0, <1>5, BecomeTyped DEF HalTypes, DeferredStart
<1>7. UNCHANGED <<state, apiQ, caller, results, cam, hist>> /\ UNCHANGED evtQ /\ pic'.live = pic.live
  BY <1>0, <1>3, <1>4, <1>5, BecomeTyped DEF DeferredStart
<1>8. \A i \in DOMAIN evtQ' : evtQ'[i] = "DAEMON_DIED" => ~hist.up
  BY <1>7 DEF HalInv, AnswerInv
<1> QED
  BY <1>6, <1>7, <1>8, Beside DEF HalInv

LEMMA LiveCancelStep == HalInv /\ LiveCancel => HalInv'
<1> SUFFICES ASSUME HalInv, LiveCancel PROVE HalInv'
  OBVIOUS
<1>0. HalTypes
  BY DEF HalInv
<1>1. PICK w \in Worlds : w = StopPostproc(World) /\ w.state = state /\ w.cam = cam
  BY <1>0, HereTyped, Postproc DEF Kept
<1>2. PICK p \in Pics : p = [w.pic EXCEPT !.live = "none"] /\ p.live = "none"
  <2>1. w.pic \in Pics
    BY DEF Worlds
  <2>2. [w.pic EXCEPT !.live = "none"] \in Pics /\ [w.pic EXCEPT !.live = "none"].live = "none"
    BY <2>1 DEF Pics
  <2> QED
    BY <2>2
<1>3. PICK v \in Worlds : v = [w EXCEPT !.pic = p] /\ v.state = state /\ v.cam = cam /\ v.pic = p
  <2>1. /\ [w EXCEPT !.pic = p] \in Worlds /\ [w EXCEPT !.pic = p].state = w.state
        /\ [w EXCEPT !.pic = p].cam = w.cam /\ [w EXCEPT !.pic = p].pic = p
    BY DEF Worlds
  <2> QED
    BY <1>1, <2>1
<1>4. Become(v)
  BY <1>1, <1>2, <1>3 DEF LiveCancel, Worlds, Pics
<1>5. HalTypes'
  BY <1>0, <1>4, BecomeTyped DEF HalTypes, LiveCancel
<1>6. UNCHANGED <<state, apiQ, caller, results, cam, hist>> /\ UNCHANGED evtQ /\ pic'.live = "none"
  BY <1>0, <1>2, <1>3, <1>4, BecomeTyped DEF LiveCancel
<1>7. \A i \in DOMAIN evtQ' : evtQ'[i] = "DAEMON_DIED" => ~hist.up
  BY <1>6 DEF HalInv, AnswerInv
<1> QED
  BY <1>5, <1>6, <1>7, Beside DEF HalInv

LEMMA NotifyStep == HalInv /\ Notify => HalInv'
<1> SUFFICES ASSUME HalInv, Notify PROVE HalInv'
  OBVIOUS
<1>0. HalTypes
  BY DEF HalInv
<1>1. UNCHANGED <<state, apiQ, caller, results, cam, hist>> /\ UNCHANGED pic
  BY DEF Notify
<1>2. evtQ' = evtQ \/ evtQ' = Append(evtQ, "SNAPSHOT_DONE")
  BY DEF Notify
<1>3. evtQ' \in Seq(Events)
  <2>1. evtQ \in Seq(Events) /\ "SNAPSHOT_DONE" \in Events
    BY <1>0 DEF HalTypes, Events
  <2> QED
    BY <1>2, <2>1
<1>4. \A i \in DOMAIN evtQ' : evtQ'[i] = "DAEMON_DIED" => ~hist.up
  <2>1. evtQ \in Seq(Events)
    BY <1>0 DEF HalTypes
  <2> QED
    BY <1>2, <2>1 DEF HalInv, AnswerInv
<1>5. ntf' \in [cmds : Notices, data : Nat, mode : {"off", "due", "done"}, sync : BOOLEAN]
  <2>1. PICK q \in Notices : q = Tail(ntf.cmds)
    <3>1. ntf.cmds \in Seq({"START", "STOP", "NEXT"}) /\ ntf.cmds # <<>>
      BY <1>0 DEF HalTypes, Notify, Notices
    <3>2. Tail(ntf.cmds) \in Seq({"START", "STOP", "NEXT"})
      BY <3>1
    <3> QED
      BY <3>2 DEF Notices
  <2>2. PICK n \in [cmds : Notices, data : Nat, mode : {"off", "due", "done"}, sync : BOOLEAN] :
           n = [ntf EXCEPT !.cmds = q] /\ n.data = ntf.data
    <3>1. /\ [ntf EXCEPT !.cmds = q] \in [cmds : Notices, data : Nat, mode : {"off", "due", "done"}, sync : BOOLEAN]
          /\ [ntf EXCEPT !.cmds = q].data = ntf.data
      BY <1>0 DEF HalTypes
    <3> QED
      BY <3>1
  <2>3. ntf.data \in Nat /\ Head(ntf.cmds) \in {"START", "STOP", "NEXT"} /\ ntf.mode \in {"off", "due", "done"}
    BY <1>0 DEF HalTypes, Notify, Notices
  <2>4. PICK final \in BOOLEAN : final = (Head(ntf.cmds) = "NEXT" /\ ntf.data > 0 /\ ntf.mode = "due")
    OBVIOUS
  <2>5. \/ ntf' = [n EXCEPT !.mode = "due"]
        \/ ntf' = [n EXCEPT !.mode = "off", !.data = 0]
        \/ ntf' = n
        \/ /\ ntf.data > 0
           /\ ntf' = [n EXCEPT !.data = @ - 1, !.sync = final, !.mode = IF final THEN "done" ELSE @]
    <3> DEFINE cmd == Head(ntf.cmds)
    <3>1. ntf' = CASE cmd = "START" -> [n EXCEPT !.mode = "due"]
                   [] cmd = "STOP"  -> [n EXCEPT !.mode = "off", !.data = 0]
                   [] cmd = "NEXT" /\ ntf.data = 0 -> n
                   [] cmd = "NEXT" /\ ntf.data > 0 ->
                        [n EXCEPT !.data = @ - 1, !.sync = final, !.mode = IF final THEN "done" ELSE @]
      BY <2>1, <2>2, <2>4 DEF Notify
    <3>2. \/ cmd = "START" \/ cmd = "STOP" \/ (cmd = "NEXT" /\ ntf.data = 0) \/ (cmd = "NEXT" /\ ntf.data > 0)
      BY <2>3
    <3> HIDE DEF cmd
    <3> QED
      BY <3>1, <3>2
  <2>6. CASE /\ ntf.data > 0
             /\ ntf' = [n EXCEPT !.data = @ - 1, !.sync = final, !.mode = IF final THEN "done" ELSE @]
    <3>1. PICK d \in Nat : d = n.data - 1
      BY <2>2, <2>3, <2>6
    <3>2. PICK m \in {"off", "due", "done"} : m = IF final THEN "done" ELSE n.mode
      OBVIOUS
    <3>3. ntf' = [n EXCEPT !.data = d, !.sync = final, !.mode = m]
      BY <2>6, <3>1, <3>2
    <3> QED
      BY <3>3
  <2>7. CASE ntf' = n \/ ntf' = [n EXCEPT !.mode = "due"]
    BY <2>7
  <2>8. CASE ntf' = [n EXCEPT !.mode = "off", !.data = 0]
    BY <2>8
  <2> QED
    BY <2>5, <2>6, <2>7, <2>8
<1>6. HalTypes'
  BY <1>0, <1>1, <1>3, <1>5 DEF HalTypes
<1> QED
  BY <1>1, <1>4, <1>6, Beside DEF HalInv

LEMMA PrepDoneStep == HalInv /\ PrepDone => HalInv'
<1> SUFFICES ASSUME HalInv, PrepDone PROVE HalInv'
  OBVIOUS
<1>0. HalTypes
  BY DEF HalInv
<1>1. UNCHANGED <<state, apiQ, caller, results, cam, hist>> /\ UNCHANGED ntf
  BY DEF PrepDone
<1>2. evtQ' = Append(evtQ, "PREP_SNAPSHOT_DONE") /\ evtQ \in Seq(Events)
  BY <1>0 DEF PrepDone, HalTypes
<1>3. pic' \in Pics /\ pic'.live = pic.live
  <2>1. pic \in Pics /\ pic' = [pic EXCEPT !.prep = FALSE]
    BY <1>0 DEF HalTypes, PrepDone
  <2> QED
    BY <2>1 DEF Pics
<1>4. HalTypes'
  <2>1. evtQ' \in Seq(Events)
    BY <1>2 DEF Events
  <2> QED
    BY <1>0, <1>1, <1>3, <2>1 DEF HalTypes
<1>5. \A i \in DOMAIN evtQ' : evtQ'[i] = "DAEMON_DIED" => ~hist.up
  BY <1>2 DEF HalInv, AnswerInv
<1> QED
  BY <1>1, <1>3, <1>4, <1>5, Beside DEF HalInv

(* A command that another thread puts at the end of the queue. *)
LEMMA Intruding ==
  ASSUME HalInv, UNCHANGED <<state, caller, results, cam>>, pic'.live \in {pic.live, "none"},
         evtQ' = evtQ, hist'.up = hist.up, hist.told => hist'.told,
         NEW c \in {"STOP_CAPTURE_CHANNEL", "CANCEL_PICTURE"}, apiQ' = Append(apiQ, c),
         c = "CANCEL_PICTURE" => pic.live = "take" /\ "live" \in Faults
  PROVE  AnswerInv' /\ WaitInv' /\ Channels(World)' /\ CallInv' /\ LossInv'
<1> USE DEF HalInv
<1>0. apiQ \in Seq(Commands) /\ c \in Commands /\ ~Own(c)
  BY DEF HalTypes, Commands, Own
<1>1. /\ DOMAIN apiQ' = DOMAIN apiQ \cup {Len(apiQ) + 1} /\ apiQ'[Len(apiQ) + 1] = c
      /\ \A i \in DOMAIN apiQ : apiQ'[i] = apiQ[i]
  BY <1>0
<1>2. NoneQueued' <=> NoneQueued
  BY <1>0, <1>1 DEF NoneQueued, Own
<1>3. NoneAnswered' <=> NoneAnswered
  BY DEF NoneAnswered, Strays
<1>4. AnswerInv'
  <2>1. \A i \in DOMAIN apiQ' : apiQ'[i] = caller'.wait \/ ~Own(apiQ'[i])
    BY <1>0, <1>1 DEF AnswerInv
  <2>2. \A i, k \in DOMAIN apiQ' : Own(apiQ'[i]) /\ Own(apiQ'[k]) => i = k
    BY <1>0, <1>1 DEF AnswerInv
  <2>3. /\ \A i \in DOMAIN results' :
              results'[i].api \in Strays' \/ (results'[i].asked /\ results'[i].api = caller'.wait)
        /\ \A i, k \in DOMAIN results' : i = k \/ results'[i].api \in Strays' \/ results'[k].api \in Strays'
        /\ \A i \in DOMAIN evtQ' : evtQ'[i] = "DAEMON_DIED" => ~hist'.up
    <3>1. Strays' = Strays
      BY DEF Strays
    <3> QED
      BY <3>1 DEF AnswerInv
  <2>4. Preparing' <=> Preparing
    BY DEF Preparing
  <2>5. NoneQueued' \/ NoneAnswered'
    BY <1>2, <1>3 DEF AnswerInv
  <2>6. Preparing' => NoneQueued' /\ NoneAnswered' /\ caller'.wait = "PREPARE_SNAPSHOT"
    BY <1>2, <1>3, <2>4 DEF AnswerInv
  <2> QED
    BY <2>1, <2>2, <2>3, <2>5, <2>6 DEF AnswerInv
<1>5. WaitInv'
  <2>1. pic'.live # "take" \/ pic'.live = pic.live
    OBVIOUS
  <2> QED
    BY <1>1, <1>2, <2>1 DEF WaitInv
<1>6. Channels(World)'
  BY DEF Channels, World, HasVideo
<1>7. CallInv'
  BY DEF CallInv, Succeeded
<1>8. LossInv'
  BY <1>1 DEF LossInv, Restarting, Reported, Failed
<1> QED
  BY <1>4, <1>5, <1>6, <1>7, <1>8

LEMMA DeliverStep == HalInv /\ Deliver => HalInv'
<1> SUFFICES ASSUME HalInv, Deliver PROVE HalInv'
  OBVIOUS
<1>0. HalTypes
  BY DEF HalInv
<1>1. UNCHANGED <<state, evtQ, caller, results, cam, hist>>
  BY DEF Deliver
<1>2. apiQ' = apiQ \/ apiQ' = Append(apiQ, "STOP_CAPTURE_CHANNEL")
  BY DEF Deliver
<1>3. apiQ' \in Seq(Commands)
  <2>1. apiQ \in Seq(Commands) /\ "STOP_CAPTURE_CHANNEL" \in Commands
    BY <1>0 DEF HalTypes, Commands
  <2> QED
    BY <1>2, <2>1
<1>4. pic' \in Pics /\ pic'.live = pic.live
  <2>1. pic \in Pics /\ pic.shots > 0
    BY <1>0 DEF HalTypes, Deliver
  <2>2. PICK n \in Nat : n = pic.shots - 1
    BY <2>1 DEF Pics
  <2>3. pic' = [pic EXCEPT !.shots = n]
    BY <2>2 DEF Deliver
  <2> QED
    BY <2>1, <2>3 DEF Pics
<1>5. ntf' \in [cmds : Notices, data : Nat, mode : {"off", "due", "done"}, sync : BOOLEAN]
  <2>1. PICK q \in Notices : q = Append(ntf.cmds, "NEXT")
    <3>1. ntf.cmds \in Seq({"START", "STOP", "NEXT"})
      BY <1>0 DEF HalTypes, Notices
    <3>2. Append(ntf.cmds, "NEXT") \in Seq({"START", "STOP", "NEXT"})
      BY <3>1
    <3> QED
      BY <3>2 DEF Notices
  <2>2. PICK d \in Nat : d = ntf.data + 1
    BY <1>0 DEF HalTypes
  <2>3. ntf' = ntf \/ ntf' = [ntf EXCEPT !.cmds = q, !.data = d]
    BY <2>1, <2>2 DEF Deliver
  <2> QED
    BY <1>0, <2>3 DEF HalTypes
<1>6. HalTypes'
  BY <1>0, <1>1, <1>3, <1>4, <1>5 DEF HalTypes
<1>7. CASE apiQ' = apiQ
  <2>1. \A i \in DOMAIN evtQ' : evtQ'[i] = "DAEMON_DIED" => ~hist.up
    BY <1>1 DEF HalInv, AnswerInv
  <2> QED
    BY <1>1, <1>4, <1>6, <1>7, <2>1, Beside DEF HalInv
<1>8. CASE apiQ' = Append(apiQ, "STOP_CAPTURE_CHANNEL")
  <2>1. AnswerInv' /\ WaitInv' /\ Channels(World)' /\ CallInv' /\ LossInv'
    BY <1>1, <1>4, <1>8, Intruding
  <2> QED
    BY <1>6, <2>1 DEF HalInv
<1> QED
  BY <1>2, <1>7, <1>8

LEMMA LiveTakeStep == HalInv /\ LiveTake => HalInv'
<1> SUFFICES ASSUME HalInv, LiveTake PROVE HalInv'
  OBVIOUS
<1>0. HalTypes
  BY DEF HalInv
<1>1. UNCHANGED <<state, evtQ, caller, results, cam, ntf>> /\ pic.live = "take"
  BY DEF LiveTake
<1>2. HasVideo(cam)
  BY <1>0, <1>1, HereTyped DEF HalInv, Channels, RecordingStates
<1>3. pic' \in Pics /\ pic'.live = "none"
  <2>1. pic \in Pics
    BY <1>0 DEF HalTypes
  <2>2. PICK j \in Nat, k \in Nat : j = pic.job + 1 /\ k = 1
    BY <2>1 DEF Pics
  <2>3. pic' = [pic EXCEPT !.live = "none", !.job = j, !.shots = k] \/ pic' = [pic EXCEPT !.live = "none"]
    BY <2>2 DEF LiveTake
  <2> QED
    BY <2>1, <2>3 DEF Pics
<1>4. \/ UNCHANGED <<apiQ, hist>>
      \/ "live" \in Faults /\ apiQ' = Append(apiQ, "CANCEL_PICTURE") /\ hist' = [hist EXCEPT !.told = TRUE]
  BY <1>2 DEF LiveTake
<1>5. CASE UNCHANGED <<apiQ, hist>>
  <2>1. HalTypes'
    BY <1>0, <1>1, <1>3, <1>5 DEF HalTypes
  <2>2. \A i \in DOMAIN evtQ' : evtQ'[i] = "DAEMON_DIED" => ~hist.up
    BY <1>1 DEF HalInv, AnswerInv
  <2> QED
    BY <1>1, <1>3, <1>5, <2>1, <2>2, Beside DEF HalInv
<1>6. CASE "live" \in Faults /\ apiQ' = Append(apiQ, "CANCEL_PICTURE") /\ hist' = [hist EXCEPT !.told = TRUE]
  <2>1. hist' \in [told : BOOLEAN, up : BOOLEAN] /\ hist'.up = hist.up /\ hist'.told
    BY <1>0, <1>6 DEF HalTypes
  <2>2. apiQ' \in Seq(Commands)
    <3>1. apiQ \in Seq(Commands) /\ "CANCEL_PICTURE" \in Commands
      BY <1>0 DEF HalTypes, Commands
    <3> QED
      BY <1>6, <3>1
  <2>3. HalTypes'
    BY <1>0, <1>1, <1>3, <2>1, <2>2 DEF HalTypes
  <2>4. AnswerInv' /\ WaitInv' /\ Channels(World)' /\ CallInv' /\ LossInv'
    BY <1>1, <1>3, <1>6, <2>1, Intruding
  <2> QED
    BY <2>3, <2>4 DEF HalInv
<1> QED
  BY <1>4, <1>5, <1>6

LEMMA DaemonDiesStep == HalInv /\ DaemonDies => HalInv'
<1> SUFFICES ASSUME HalInv, DaemonDies PROVE HalInv'
  OBVIOUS
<1>0. HalTypes
  BY DEF HalInv
<1>1. UNCHANGED <<state, apiQ, caller, results, cam, pic, ntf>>
  BY DEF DaemonDies
<1>2. hist' \in [told : BOOLEAN, up : BOOLEAN] /\ (hist'.told <=> hist.told) /\ ~hist'.up
  BY <1>0 DEF HalTypes, DaemonDies
<1>3. evtQ' \in Seq(Events)
  <2>1. evtQ \in Seq(Events) /\ "DAEMON_DIED" \in Events
    BY <1>0 DEF HalTypes, Events
  <2> QED
    BY <2>1 DEF DaemonDies
<1>4. HalTypes'
  BY <1>0, <1>1, <1>2, <1>3 DEF HalTypes
<1>5. Strays \subseteq Strays'
  BY <1>2 DEF Strays
<1>6. NoneQueued' = NoneQueued /\ (NoneAnswered => NoneAnswered')
  BY <1>1, <1>5 DEF NoneQueued, NoneAnswered
<1>7. AnswerInv'
  BY <1>1, <1>2, <1>5, <1>6 DEF AnswerInv, HalInv, Preparing
<1>8. WaitInv'
  BY <1>1, <1>6 DEF WaitInv, HalInv
<1>9. Channels(World)'
  BY <1>1 DEF Channels, World, HasVideo, HalInv
<1>10. CallInv' /\ LossInv'
  BY <1>1, <1>2 DEF CallInv, LossInv, Succeeded, Restarting, Reported, Failed, HalInv
<1> QED
  BY <1>4, <1>7, <1>8, <1>9, <1>10 DEF HalInv

(* Between two calls nothing of the caller is under way. *)
LEMMA Idle ==
  ASSUME HalInv, caller.wait = "none"
  PROVE  /\ NoneQueued /\ NoneAnswered /\ ~Preparing
         /\ ~Restarting /\ ~Reported
<1> USE DEF HalInv
<1>1. apiQ \in Seq(Commands) /\ results \in Seq(Answers) /\ "none" \notin Commands
  BY DEF HalTypes, Commands
<1>2. \A i \in DOMAIN apiQ : apiQ[i] \in Commands
  BY <1>1
<1>3. \A i \in DOMAIN results : results[i].api \in Commands
  <2>1. \A i \in DOMAIN results : results[i] \in Answers
    BY <1>1
  <2> QED
    BY <2>1 DEF Answers
<1>4. NoneQueued /\ NoneAnswered
  BY <1>1, <1>2, <1>3 DEF NoneQueued, NoneAnswered, AnswerInv
<1>5. ~Preparing
  BY DEF AnswerInv
<1>6. ~Restarting /\ ~Reported
  BY <1>1, <1>3 DEF Restarting, Reported, Failed
<1> QED
  BY <1>4, <1>5, <1>6

LEMMA AskStep == ASSUME NEW call \in Calls PROVE HalInv /\ Ask(call) => HalInv'
<1> SUFFICES ASSUME HalInv, Ask(call) PROVE HalInv'
  OBVIOUS
<1>0. HalTypes
  BY DEF HalInv
<1>1. UNCHANGED <<state, evtQ, results, cam, pic, ntf, hist>> /\ hist.up /\ caller.wait = "none"
  BY DEF Ask
<1>2. PICK c \in Commands \ {"STOP_CAPTURE_CHANNEL"} :
         /\ c = Head(call) /\ Tail(call) = After(c)
         /\ c \notin {"SET_PARAMS_STOP", "SET_PARAMS_COMMIT", "SET_PARAMS_RESTART", "TAKE_PICTURE"}
  BY CallHeads, CallsAssumption
<1>3. caller' = [todo |-> After(c), wait |-> c, woken |-> FALSE] /\ apiQ' = Append(apiQ, c)
  BY <1>2 DEF Ask
<1>4. /\ apiQ \in Seq(Commands) /\ DOMAIN apiQ' = DOMAIN apiQ \cup {Len(apiQ) + 1}
      /\ apiQ'[Len(apiQ) + 1] = c /\ \A i \in DOMAIN apiQ : apiQ'[i] = apiQ[i] /\ ~Own(apiQ[i])
  <2>1. apiQ \in Seq(Commands)
    BY <1>0 DEF HalTypes
  <2> QED
    BY <1>1, <1>3, <2>1, Idle DEF NoneQueued
<1>5. HalTypes'
  <2>1. apiQ' \in Seq(Commands)
    BY <1>3, <1>4
  <2> QED
    BY <1>0, <1>1, <1>2, <1>3, <2>1 DEF HalTypes
<1>6. NoneAnswered' /\ ~Preparing' /\ Strays' = Strays
  BY <1>1, Idle DEF NoneAnswered, Preparing, Strays
<1>7. AnswerInv'
  <2>1. \A i \in DOMAIN apiQ' : apiQ'[i] = caller'.wait \/ ~Own(apiQ'[i])
    BY <1>3, <1>4
  <2>2. \A i, k \in DOMAIN apiQ' : Own(apiQ'[i]) /\ Own(apiQ'[k]) => i = k
    BY <1>4
  <2>3. \A i \in DOMAIN evtQ' : evtQ'[i] = "DAEMON_DIED" => ~hist'.up
    BY <1>1 DEF HalInv, AnswerInv
  <2> QED
    BY <1>6, <2>1, <2>2, <2>3 DEF AnswerInv, NoneAnswered
<1>8. \A i \in DOMAIN results' : results'[i].api \notin {"PREPARE_SNAPSHOT", "PRE_TAKE_PICTURE", "TAKE_PICTURE"}
  <2>1. Strays \subseteq {"CANCEL_PICTURE"}
    BY <1>1 DEF Strays
  <2> QED
    BY <1>1, <2>1, Idle DEF NoneAnswered
<1>9. WaitInv'
  BY <1>3, <1>8 DEF WaitInv
<1>10. Channels(World)'
  BY <1>1 DEF Channels, World, HasVideo, HalInv
<1>11. CallInv'
  BY <1>2, <1>3, <1>8 DEF CallInv, Succeeded
<1>12. LossInv'
  BY <1>1, Idle DEF LossInv, HalInv
<1> QED
  BY <1>5, <1>7, <1>9, <1>10, <1>11, <1>12 DEF HalInv

(* Taking an answer: the first one there is, out of the list.               *)
LEMMA Least ==
  ASSUME NEW T, T \subseteq Nat, T # {}
  PROVE  \E x \in T : \A y \in T : x <= y
<1>1. PICK R : R = OpToRel(<, Nat)
  OBVIOUS
<1>2. \A x, y \in Nat : x < y => <<x, y>> \in R
  BY <1>1 DEF OpToRel
<1>3. IsWellFoundedOn(R, Nat)
  BY <1>1, NatLessThanWellFounded
<1>4. PICK x \in T : \A y \in T : <<y, x>> \notin R
  BY <1>3, WFMin
<1>5. \A y \in T : ~(y < x)
  BY <1>2, <1>4
<1> QED
  BY <1>5

LEMMA AnswerRemoved ==
  ASSUME NEW q \in Seq(Answers), NEW i \in DOMAIN q
  PROVE  /\ RemoveAt(q, i) \in Seq(Answers)
         /\ \A k \in DOMAIN RemoveAt(q, i) : \E j \in DOMAIN q : j # i /\ RemoveAt(q, i)[k] = q[j]
<1> DEFINE a == SubSeq(q, 1, i - 1)
           b == SubSeq(q, i + 1, Len(q))
<1>1. i \in 1 .. Len(q) /\ Len(q) \in Nat
  OBVIOUS
<1>2. a \in Seq(Answers) /\ Len(a) = i - 1 /\ \A k \in 1 .. i - 1 : a[k] = q[k]
  BY <1>1
<1>3. b \in Seq(Answers) /\ Len(b) = Len(q) - i /\ \A k \in 1 .. Len(q) - i : b[k] = q[i + k]
  BY <1>1
<1> HIDE DEF a, b
<1>4. /\ a \o b \in Seq(Answers) /\ Len(a \o b) = Len(a) + Len(b)
      /\ \A k \in 1 .. Len(a) + Len(b) : (a \o b)[k] = IF k <= Len(a) THEN a[k] ELSE b[k - Len(a)]
  BY <1>2, <1>3, ConcatProperties
<1>5. Len(a) = i - 1 /\ Len(a) + Len(b) = Len(q) - 1
  BY <1>1, <1>2, <1>3
<1>6. ASSUME NEW k \in 1 .. Len(q) - 1
      PROVE  (a \o b)[k] = q[IF k < i THEN k ELSE k + 1]
  <2>1. CASE k < i
    BY <2>1, <1>1, <1>2, <1>4, <1>5
  <2>2. CASE ~(k < i)
    <3>1. k - (i - 1) \in 1 .. Len(q) - i /\ i + (k - (i - 1)) = k + 1 /\ ~(k <= i - 1)
      BY <2>2, <1>1
    <3>2. b[k - (i - 1)] = q[i + (k - (i - 1))]
      BY <3>1, <1>3
    <3>3. (a \o b)[k] = b[k - (i - 1)]
      BY <3>1, <1>4, <1>5
    <3> QED
      BY <2>2, <3>1, <3>2, <3>3
  <2> QED
    BY <2>1, <2>2
<1>7. RemoveAt(q, i) = a \o b
  BY DEF RemoveAt, a, b
<1>8. DOMAIN (a \o b) = 1 .. Len(q) - 1
  BY <1>4, <1>5
<1>9. \A k \in 1 .. Len(q) - 1 :
         (IF k < i THEN k ELSE k + 1) \in 1 .. Len(q) /\ (IF k < i THEN k ELSE k + 1) # i
  BY <1>1
<1>10. \A k \in DOMAIN (a \o b) : \E j \in DOMAIN q : j # i /\ (a \o b)[k] = q[j]
  <2> SUFFICES ASSUME NEW k \in 1 .. Len(q) - 1
               PROVE  \E j \in DOMAIN q : j # i /\ (a \o b)[k] = q[j]
    BY <1>8
  <2>1. PICK j \in 1 .. Len(q) : j = (IF k < i THEN k ELSE k + 1) /\ j # i
    BY <1>9
  <2>2. (a \o b)[k] = q[j]
    BY <1>6, <2>1
  <2> QED
    BY <2>1, <2>2
<1> QED
  BY <1>4, <1>7, <1>10

(* What comes after an answer: nothing, or the next command of the call. *)
LEMMA Onward ==
  ASSUME HalTypes, caller.wait # "none", NEW ok \in BOOLEAN, NEW rest, rest = Rest(ok)
  PROVE  \/ /\ rest = <<>>
            /\ ok => caller.wait # "SET_PARAMS_STOP" /\ ~(caller.wait = "SET_PARAMS_COMMIT" /\ cam.restart)
         \/ \E d \in Commands \ {"STOP_CAPTURE_CHANNEL"} :
              /\ rest # <<>> /\ Head(rest) = d /\ Tail(rest) = After(d)
              /\ d \notin {"SET_PARAMS", "PRE_START_RECORDING", "PREPARE_SNAPSHOT", "CANCEL_PICTURE"}
              /\ d = "SET_PARAMS_STOP" => cam.restart
              /\ caller.wait = "SET_PARAMS_STOP" => d = "SET_PARAMS_COMMIT"
              /\ caller.wait = "SET_PARAMS_COMMIT" => d = "SET_PARAMS_RESTART"
              /\ d = "PRE_TAKE_PICTURE" => caller.wait = "PREPARE_SNAPSHOT"
              /\ d = "TAKE_PICTURE" => ok /\ caller.wait = "PRE_TAKE_PICTURE"
<1> DEFINE Goes(d) ==
             /\ rest # <<>> /\ Head(rest) = d /\ Tail(rest) = After(d)
             /\ d \notin {"SET_PARAMS", "PRE_START_RECORDING", "PREPARE_SNAPSHOT", "CANCEL_PICTURE"}
             /\ d = "SET_PARAMS_STOP" => cam.restart
             /\ caller.wait = "SET_PARAMS_STOP" => d = "SET_PARAMS_COMMIT"
             /\ caller.wait = "SET_PARAMS_COMMIT" => d = "SET_PARAMS_RESTART"
             /\ d = "PRE_TAKE_PICTURE" => caller.wait = "PREPARE_SNAPSHOT"
             /\ d = "TAKE_PICTURE" => ok /\ caller.wait = "PRE_TAKE_PICTURE"
<1>0. caller.todo = After(caller.wait)
  BY DEF HalTypes
<1>1. CASE ~ok /\ caller.wait # "PREPARE_SNAPSHOT"
  BY <1>1 DEF Rest
<1>2. CASE ok \/ caller.wait = "PREPARE_SNAPSHOT"
  <2>1. rest = IF After(caller.wait) # <<>> /\ Skipped(Head(After(caller.wait)))
                 THEN Tail(After(caller.wait)) ELSE After(caller.wait)
    BY <1>0, <1>2 DEF Rest
  <2>2. CASE caller.wait = "SET_PARAMS"
    <3>1. After(caller.wait) = <<"SET_PARAMS_STOP", "SET_PARAMS_COMMIT", "SET_PARAMS_RESTART">>
      BY <2>2 DEF After
    <3>2. \/ rest = <<"SET_PARAMS_STOP", "SET_PARAMS_COMMIT", "SET_PARAMS_RESTART">> /\ cam.restart
          \/ rest = <<"SET_PARAMS_COMMIT", "SET_PARAMS_RESTART">>
      BY <2>1, <3>1 DEF Skipped
    <3>3. CASE rest = <<"SET_PARAMS_STOP", "SET_PARAMS_COMMIT", "SET_PARAMS_RESTART">> /\ cam.restart
      <4>1. Head(rest) = "SET_PARAMS_STOP" /\ Tail(rest) = <<"SET_PARAMS_COMMIT", "SET_PARAMS_RESTART">> /\ rest # <<>>
        BY <3>3
      <4>2. After("SET_PARAMS_STOP") = <<"SET_PARAMS_COMMIT", "SET_PARAMS_RESTART">>
        BY DEF After
      <4>3. Goes("SET_PARAMS_STOP")
        BY <1>2, <2>2, <3>3, <4>1, <4>2
      <4> QED
        BY <4>3 DEF Commands
    <3>4. CASE rest = <<"SET_PARAMS_COMMIT", "SET_PARAMS_RESTART">>
      <4>1. Head(rest) = "SET_PARAMS_COMMIT" /\ Tail(rest) = <<"SET_PARAMS_RESTART">> /\ rest # <<>>
        BY <3>4
      <4>2. After("SET_PARAMS_COMMIT") = <<"SET_PARAMS_RESTART">>
        BY DEF After
      <4>3. Goes("SET_PARAMS_COMMIT")
        BY <1>2, <2>2, <3>4, <4>1, <4>2
      <4> QED
        BY <4>3 DEF Commands
    <3> QED
      BY <3>2, <3>3, <3>4
  <2>3. CASE caller.wait = "SET_PARAMS_STOP"
    <3>1. After(caller.wait) = <<"SET_PARAMS_COMMIT", "SET_PARAMS_RESTART">>
      BY <2>3 DEF After
    <3>2. rest = <<"SET_PARAMS_COMMIT", "SET_PARAMS_RESTART">>
      BY <2>1, <3>1 DEF Skipped
    <3>3. CASE rest = <<"SET_PARAMS_COMMIT", "SET_PARAMS_RESTART">>
      <4>1. Head(rest) = "SET_PARAMS_COMMIT" /\ Tail(rest) = <<"SET_PARAMS_RESTART">> /\ rest # <<>>
        BY <3>3
      <4>2. After("SET_PARAMS_COMMIT") = <<"SET_PARAMS_RESTART">>
        BY DEF After
      <4>3. Goes("SET_PARAMS_COMMIT")
        BY <1>2, <2>3, <3>3, <4>1, <4>2
      <4> QED
        BY <4>3 DEF Commands
    <3> QED
      BY <3>2, <3>3
  <2>4. CASE caller.wait = "SET_PARAMS_COMMIT"
    <3>1. After(caller.wait) = <<"SET_PARAMS_RESTART">>
      BY <2>4 DEF After
    <3>2. \/ rest = <<"SET_PARAMS_RESTART">>
          \/ rest = <<>> /\ ~cam.restart
      BY <2>1, <3>1 DEF Skipped
    <3>3. CASE rest = <<"SET_PARAMS_RESTART">>
      <4>1. Head(rest) = "SET_PARAMS_RESTART" /\ Tail(rest) = <<>> /\ rest # <<>>
        BY <3>3
      <4>2. After("SET_PARAMS_RESTART") = <<>>
        BY DEF After
      <4>3. Goes("SET_PARAMS_RESTART")
        BY <1>2, <2>4, <3>3, <4>1, <4>2
      <4> QED
        BY <4>3 DEF Commands
    <3>4. CASE rest = <<>> /\ ~cam.restart
      BY <2>4, <3>4
    <3> QED
      BY <3>2, <3>3, <3>4
  <2>5. CASE caller.wait = "PRE_START_RECORDING"
    <3>1. After(caller.wait) = <<"START_RECORDING">>
      BY <2>5 DEF After
    <3>2. rest = <<"START_RECORDING">>
      BY <2>1, <3>1 DEF Skipped
    <3>3. CASE rest = <<"START_RECORDING">>
      <4>1. Head(rest) = "START_RECORDING" /\ Tail(rest) = <<>> /\ rest # <<>>
        BY <3>3
      <4>2. After("START_RECORDING") = <<>>
        BY DEF After
      <4>3. Goes("START_RECORDING")
        BY <1>2, <2>5, <3>3, <4>1, <4>2
      <4> QED
        BY <4>3 DEF Commands
    <3> QED
      BY <3>2, <3>3
  <2>6. CASE caller.wait = "PREPARE_SNAPSHOT"
    <3>1. After(caller.wait) = <<"PRE_TAKE_PICTURE", "TAKE_PICTURE">>
      BY <2>6 DEF After
    <3>2. rest = <<"PRE_TAKE_PICTURE", "TAKE_PICTURE">>
      BY <2>1, <3>1 DEF Skipped
    <3>3. CASE rest = <<"PRE_TAKE_PICTURE", "TAKE_PICTURE">>
      <4>1. Head(rest) = "PRE_TAKE_PICTURE" /\ Tail(rest) = <<"TAKE_PICTURE">> /\ rest # <<>>
        BY <3>3
      <4>2. After("PRE_TAKE_PICTURE") = <<"TAKE_PICTURE">>
        BY DEF After
      <4>3. Goes("PRE_TAKE_PICTURE")
        BY <1>2, <2>6, <3>3, <4>1, <4>2
      <4> QED
        BY <4>3 DEF Commands
    <3> QED
      BY <3>2, <3>3
  <2>7. CASE caller.wait = "PRE_TAKE_PICTURE"
    <3>1. After(caller.wait) = <<"TAKE_PICTURE">>
      BY <2>7 DEF After
    <3>2. rest = <<"TAKE_PICTURE">>
      BY <2>1, <3>1 DEF Skipped
    <3>3. CASE rest = <<"TAKE_PICTURE">>
      <4>1. Head(rest) = "TAKE_PICTURE" /\ Tail(rest) = <<>> /\ rest # <<>>
        BY <3>3
      <4>2. After("TAKE_PICTURE") = <<>>
        BY DEF After
      <4>3. Goes("TAKE_PICTURE")
        BY <1>2, <2>7, <3>3, <4>1, <4>2
      <4> QED
        BY <4>3 DEF Commands
    <3> QED
      BY <3>2, <3>3
  <2>8. CASE caller.wait \notin {"SET_PARAMS", "SET_PARAMS_STOP", "SET_PARAMS_COMMIT", "PRE_START_RECORDING",
                                 "PREPARE_SNAPSHOT", "PRE_TAKE_PICTURE"}
    <3>1. After(caller.wait) = <<>>
      BY <2>8 DEF After
    <3> QED
      BY <2>1, <2>8, <3>1
  <2> QED
    BY <2>2, <2>3, <2>4, <2>5, <2>6, <2>7, <2>8
<1> QED
  BY <1>1, <1>2

LEMMA TakeAnswerStep == HalInv /\ TakeAnswer => HalInv'
<1> SUFFICES ASSUME HalInv, TakeAnswer PROVE HalInv'
  OBVIOUS
<1>0. /\ HalTypes /\ AnswerInv /\ WaitInv /\ Channels(World) /\ CallInv /\ LossInv
      /\ caller.wait # "none" /\ caller.woken /\ Mine # {}
      /\ UNCHANGED <<state, evtQ, cam, pic, ntf>>
  BY DEF HalInv, TakeAnswer
<1>a. apiQ \in Seq(Commands) /\ results \in Seq(Answers) /\ caller.wait \in Commands
  BY <1>0 DEF HalTypes
<1>1. PICK i \in Mine : i = CHOOSE j \in Mine : \A k \in Mine : j <= k
  <2>1. Mine \subseteq Nat
    BY <1>a DEF Mine
  <2>2. \E j \in Mine : \A k \in Mine : j <= k
    BY <1>0, <2>1, Least
  <2> QED
    BY <2>2
<1>2. /\ i \in DOMAIN results /\ results[i].api = caller.wait /\ results[i] \in Answers
      /\ results[i].ok \in BOOLEAN
  <2>1. i \in DOMAIN results /\ results[i].api = caller.wait
    BY <1>1 DEF Mine
  <2>2. results[i] \in Answers
    BY <1>a, <2>1
  <2> QED
    BY <2>1, <2>2 DEF Answers
<1>b. PICK ok \in BOOLEAN : ok = results[i].ok
  BY <1>2
<1>3. PICK rest :
         /\ ok = results[i].ok /\ rest = Rest(ok)
         /\ results' = RemoveAt(results, i)
         /\ IF rest = <<>>
              THEN /\ caller' = [todo |-> <<>>, wait |-> "none", woken |-> FALSE]
                   /\ UNCHANGED apiQ
              ELSE /\ caller' = [todo |-> Tail(rest), wait |-> Head(rest), woken |-> FALSE]
                   /\ apiQ' = Append(apiQ, Head(rest))
         /\ hist' = [hist EXCEPT !.told = @ \/ ~ok]
  BY <1>1, <1>2, <1>b DEF TakeAnswer
<1>4. /\ results' \in Seq(Answers)
      /\ \A k \in DOMAIN results' : \E j \in DOMAIN results : j # i /\ results'[k] = results[j]
  BY <1>2, <1>3, <1>a, AnswerRemoved
<1>5. NoneQueued /\ ~Preparing
  <2>1. NoneQueued
    BY <1>0, <1>2 DEF WaitInv
  <2>2. ~Preparing
    BY <1>0, <1>2 DEF AnswerInv, Preparing, NoneAnswered, Strays
  <2> QED
    BY <2>1, <2>2
<1>6. \A j \in DOMAIN results : j # i => results[j].api \in Strays
  BY <1>0, <1>2 DEF AnswerInv
<1>7. /\ hist' \in [told : BOOLEAN, up : BOOLEAN] /\ (hist'.up <=> hist.up)
      /\ (hist'.told <=> hist.told \/ ~ok)
  BY <1>0, <1>3 DEF HalTypes
<1>8. Strays' = Strays /\ ~Preparing' /\ NoneAnswered'
  BY <1>0, <1>4, <1>5, <1>6, <1>7 DEF Strays, Preparing, NoneAnswered
<1>9. Channels(World)'
  BY <1>0 DEF Channels, World, HasVideo
<1>10. \A j \in DOMAIN evtQ' : evtQ'[j] = "DAEMON_DIED" => ~hist'.up
  BY <1>0, <1>7 DEF AnswerInv
<1>11. \/ /\ rest = <<>>
          /\ ok => caller.wait # "SET_PARAMS_STOP" /\ ~(caller.wait = "SET_PARAMS_COMMIT" /\ cam.restart)
       \/ \E d \in Commands \ {"STOP_CAPTURE_CHANNEL"} :
            /\ rest # <<>> /\ Head(rest) = d /\ Tail(rest) = After(d)
            /\ d \notin {"SET_PARAMS", "PRE_START_RECORDING", "PREPARE_SNAPSHOT", "CANCEL_PICTURE"}
            /\ d = "SET_PARAMS_STOP" => cam.restart
            /\ caller.wait = "SET_PARAMS_STOP" => d = "SET_PARAMS_COMMIT"
            /\ caller.wait = "SET_PARAMS_COMMIT" => d = "SET_PARAMS_RESTART"
            /\ d = "PRE_TAKE_PICTURE" => caller.wait = "PREPARE_SNAPSHOT"
            /\ d = "TAKE_PICTURE" => ok /\ caller.wait = "PRE_TAKE_PICTURE"
  BY <1>0, <1>3, Onward
<1>12. state \in PreviewStates => cam.pv = "on" \/ hist'.told \/ (Restarting /\ ok /\ caller.wait \in {"SET_PARAMS_STOP", "SET_PARAMS_COMMIT"})
  <2>1. ~(caller.wait = "SET_PARAMS_RESTART" /\ \E j \in DOMAIN apiQ : apiQ[j] = "SET_PARAMS_RESTART")
    BY <1>5 DEF NoneQueued, Own
  <2>2. ASSUME ok PROVE ~Reported
    <3>1. ASSUME Reported PROVE FALSE
      <4>1. PICK k \in DOMAIN results : results[k].api = caller.wait /\ ~results[k].ok
        BY <3>1 DEF Reported, Failed
      <4>2. caller.wait \notin Strays
        BY <3>1 DEF Reported, Strays
      <4>3. k = i
        BY <1>6, <4>1, <4>2
      <4> QED
        BY <1>3, <2>2, <4>1, <4>3
    <3> QED
      BY <3>1
  <2> QED
    BY <1>0, <1>7, <2>1, <2>2 DEF LossInv, Restarting
<1>13. CASE /\ rest = <<>>
            /\ ok => caller.wait # "SET_PARAMS_STOP" /\ ~(caller.wait = "SET_PARAMS_COMMIT" /\ cam.restart)
  <2>1. caller' = [todo |-> <<>>, wait |-> "none", woken |-> FALSE] /\ apiQ' = apiQ
    BY <1>3, <1>13
  <2>2. HalTypes'
    <3>1. After("none") = <<>>
      BY DEF After
    <3> QED
      BY <1>0, <1>4, <1>7, <2>1, <3>1 DEF HalTypes
  <2>3. NoneQueued'
    BY <1>5, <2>1 DEF NoneQueued
  <2>4. AnswerInv'
    BY <1>8, <1>10, <2>3 DEF AnswerInv, NoneAnswered, NoneQueued
  <2>5. WaitInv'
    BY <2>1, <2>3 DEF WaitInv
  <2>6. CallInv'
    BY <2>1 DEF CallInv
  <2>7. LossInv'
    BY <1>0, <1>12, <1>13 DEF LossInv, Restarting
  <2> QED
    BY <1>9, <2>2, <2>4, <2>5, <2>6, <2>7 DEF HalInv
<1>14. ASSUME NEW d \in Commands \ {"STOP_CAPTURE_CHANNEL"}, rest # <<>>, Head(rest) = d, Tail(rest) = After(d),
              d \notin {"SET_PARAMS", "PRE_START_RECORDING", "PREPARE_SNAPSHOT", "CANCEL_PICTURE"},
              d = "SET_PARAMS_STOP" => cam.restart,
              caller.wait = "SET_PARAMS_STOP" => d = "SET_PARAMS_COMMIT",
              caller.wait = "SET_PARAMS_COMMIT" => d = "SET_PARAMS_RESTART",
              d = "PRE_TAKE_PICTURE" => caller.wait = "PREPARE_SNAPSHOT",
              d = "TAKE_PICTURE" => ok /\ caller.wait = "PRE_TAKE_PICTURE"
       PROVE  HalInv'
  <2>1. caller' = [todo |-> After(d), wait |-> d, woken |-> FALSE] /\ apiQ' = Append(apiQ, d)
    BY <1>3, <1>14
  <2>2. /\ DOMAIN apiQ' = DOMAIN apiQ \cup {Len(apiQ) + 1} /\ apiQ'[Len(apiQ) + 1] = d
        /\ \A j \in DOMAIN apiQ : apiQ'[j] = apiQ[j] /\ ~Own(apiQ[j])
        /\ apiQ' \in Seq(Commands)
    BY <1>5, <1>a, <2>1 DEF NoneQueued
  <2>3. HalTypes'
    BY <1>0, <1>4, <1>7, <2>1, <2>2 DEF HalTypes
  <2>4. AnswerInv'
    <3>1. /\ \A j \in DOMAIN apiQ' : apiQ'[j] = caller'.wait \/ ~Own(apiQ'[j])
          /\ \A j, k \in DOMAIN apiQ' : Own(apiQ'[j]) /\ Own(apiQ'[k]) => j = k
      BY <2>1, <2>2
    <3> QED
      BY <1>8, <1>10, <3>1 DEF AnswerInv, NoneAnswered
  <2>5. WaitInv'
    <3>1. (\E k \in DOMAIN results' : results'[k].api = "TAKE_PICTURE")
             => \E k \in DOMAIN results : results[k].api = "TAKE_PICTURE"
      BY <1>4
    <3>2. d \in {"PRE_TAKE_PICTURE", "TAKE_PICTURE"} => caller.wait \in {"PREPARE_SNAPSHOT", "PRE_TAKE_PICTURE"}
      BY <1>14
    <3>3. (d \in {"PRE_TAKE_PICTURE", "TAKE_PICTURE"} /\ \E k \in DOMAIN results' : results'[k].api = "TAKE_PICTURE")
             => pic'.live # "take" /\ \A j \in DOMAIN apiQ' : apiQ'[j] # "CANCEL_PICTURE"
      BY <1>0, <1>14, <2>2, <3>1, <3>2 DEF WaitInv
    <3> QED
      BY <1>14, <2>1, <3>3 DEF WaitInv
  <2>6. CallInv'
    <3>1. ~Succeeded("PRE_TAKE_PICTURE")'
      <4>1. "PRE_TAKE_PICTURE" \notin Strays'
        BY DEF Strays
      <4> QED
        BY <1>8, <4>1 DEF Succeeded, NoneAnswered
    <3>2. d = "TAKE_PICTURE" => ~cam.hint \/ state \in RecordingStates
      BY <1>0, <1>2, <1>3, <1>14 DEF CallInv, Succeeded
    <3> QED
      BY <1>0, <1>14, <2>1, <3>1, <3>2 DEF CallInv, Succeeded
  <2>7. LossInv'
    <3>1. state \in PreviewStates => \/ cam.pv = "on" \/ hist'.told
                                     \/ d = "SET_PARAMS_COMMIT" /\ cam.restart
                                     \/ d = "SET_PARAMS_RESTART"
      BY <1>0, <1>12, <1>14 DEF CallInv
    <3>2. \E j \in DOMAIN apiQ' : apiQ'[j] = d
      BY <2>2
    <3> QED
      BY <1>0, <2>1, <3>1, <3>2 DEF LossInv, Restarting
  <2> QED
    BY <1>9, <2>3, <2>4, <2>5, <2>6, <2>7 DEF HalInv
<1> QED
  BY <1>11, <1>13, <1>14

(* An answer joins the list, and wakes the caller. *)
LEMMA Signalled ==
  ASSUME HalTypes, NEW b \in BOOLEAN, NEW cmd \in Commands, NEW ok \in BOOLEAN, NEW a,
         a = Answer(cmd, ok), Signal(IF b THEN <<a>> ELSE <<>>)
  PROVE  /\ a \in Answers /\ a.api = cmd /\ (a.ok <=> ok) /\ (a.asked <=> caller.wait = cmd)
         /\ results' \in Seq(Answers)
         /\ \A k \in DOMAIN results : k \in DOMAIN results' /\ results'[k] = results[k]
         /\ \A k \in DOMAIN results' : \/ k \in DOMAIN results /\ results'[k] = results[k]
                                       \/ b /\ results'[k] = a /\ k = Len(results) + 1
         /\ b => \E k \in DOMAIN results' : results'[k] = a
         /\ caller' = [caller EXCEPT !.woken = @ \/ b]
<1>0. results \in Seq(Answers) /\ (caller.wait = cmd) \in BOOLEAN
  BY DEF HalTypes
<1>1. a \in Answers /\ a.api = cmd /\ (a.ok <=> ok) /\ (a.asked <=> caller.wait = cmd)
  BY <1>0 DEF Answer, Answers
<1>2. CASE b
  <2>1. results' = results \o <<a>> /\ caller' = [caller EXCEPT !.woken = @ \/ <<a>> # <<>>]
    BY <1>2 DEF Signal
  <2>2. results' = Append(results, a)
    BY <1>0, <1>1, <2>1, AppendIsConcat
  <2>3. /\ results' \in Seq(Answers) /\ DOMAIN results' = DOMAIN results \cup {Len(results) + 1}
        /\ \A k \in DOMAIN results : results'[k] = results[k]
        /\ results'[Len(results) + 1] = a
    BY <1>0, <1>1, <2>2
  <2>4. caller' = [caller EXCEPT !.woken = @ \/ b]
    BY <1>2, <2>1
  <2> QED
    BY <1>1, <1>2, <2>3, <2>4
<1>3. CASE ~b
  <2>1. results' = results \o <<>> /\ caller' = [caller EXCEPT !.woken = @ \/ <<>> # <<>>]
    BY <1>3 DEF Signal
  <2>2. results' = results
    BY <1>0, <2>1, ConcatEmptySeq
  <2>3. caller' = [caller EXCEPT !.woken = @ \/ b]
    BY <1>3, <2>1
  <2> QED
    BY <1>0, <1>1, <1>3, <2>2, <2>3
<1> QED
  BY <1>2, <1>3

LEMMA HandleApiStep == HalInv /\ HandleApi => HalInv'
<1> SUFFICES ASSUME HalInv, HandleApi PROVE HalInv'
  OBVIOUS
<1>0. /\ HalTypes /\ AnswerInv /\ WaitInv /\ Channels(World) /\ CallInv /\ LossInv
      /\ apiQ # <<>> /\ apiQ' = Tail(apiQ) /\ evtQ' = evtQ
      /\ hist' = [hist EXCEPT !.told = @ /\ cam'.pv # "on"]
  BY DEF HalInv, HandleApi
<1>1. PICK cmd \in Commands : cmd = Head(apiQ) /\ cmd = apiQ[1] /\ 1 \in DOMAIN apiQ
  <2>1. apiQ \in Seq(Commands)
    BY <1>0 DEF HalTypes
  <2> QED
    BY <1>0, <2>1
<1>2. PICK r \in HandlerOf(cmd, World) :
         Become(r.w) /\ Signal(IF r.answered THEN <<Answer(cmd, r.ok)>> ELSE <<>>)
  BY <1>1 DEF HandleApi
<1>3. Post(cmd, World, r)
  BY <1>0, HereTyped, HandlerPost
<1>4. r \in Replies /\ r.w \in Worlds /\ r.ok \in BOOLEAN /\ r.answered \in BOOLEAN
  BY <1>3 DEF Post, Replies
<1>5. /\ state' = r.w.state /\ cam' = r.w.cam /\ pic' = r.w.pic
      /\ state' \in States /\ cam' \in Cams /\ pic' \in Pics
      /\ ntf' \in [cmds : Notices, data : Nat, mode : {"off", "due", "done"}, sync : BOOLEAN]
  BY <1>0, <1>2, <1>4, BecomeTyped
<1>6. PICK a \in Answers :
         /\ a.api = cmd /\ (a.ok <=> r.ok) /\ (a.asked <=> caller.wait = cmd)
         /\ results' \in Seq(Answers)
         /\ \A k \in DOMAIN results : k \in DOMAIN results' /\ results'[k] = results[k]
         /\ \A k \in DOMAIN results' : \/ k \in DOMAIN results /\ results'[k] = results[k]
                                       \/ r.answered /\ results'[k] = a /\ k = Len(results) + 1
         /\ r.answered => \E k \in DOMAIN results' : results'[k] = a
         /\ caller' = [caller EXCEPT !.woken = @ \/ r.answered]
  BY <1>0, <1>2, <1>4, Signalled
<1>7. /\ apiQ' \in Seq(Commands)
      /\ \A k \in DOMAIN apiQ' : k + 1 \in DOMAIN apiQ /\ k + 1 # 1 /\ apiQ'[k] = apiQ[k + 1]
      /\ \A k \in DOMAIN apiQ : k = 1 \/ (k - 1 \in DOMAIN apiQ' /\ apiQ'[k - 1] = apiQ[k])
  <2>1. apiQ \in Seq(Commands)
    BY <1>0 DEF HalTypes
  <2> QED
    BY <1>0, <2>1
<1>8. hist' \in [told : BOOLEAN, up : BOOLEAN] /\ (hist'.up <=> hist.up) /\ (hist'.told <=> hist.told /\ cam'.pv # "on")
  BY <1>0 DEF HalTypes
<1>9. caller'.wait = caller.wait /\ (caller'.woken <=> caller.woken \/ r.answered)
  BY <1>0, <1>6 DEF HalTypes
<1>10. HalTypes'
  BY <1>0, <1>4, <1>5, <1>6, <1>7, <1>8 DEF HalTypes
<1>11. Strays' = Strays
  BY <1>8 DEF Strays
<1>12. Own(cmd) => cmd = caller.wait /\ NoneAnswered /\ NoneQueued'
  <2>1. ASSUME Own(cmd) PROVE cmd = caller.wait /\ NoneAnswered
    BY <1>0, <1>1, <2>1 DEF AnswerInv, NoneQueued
  <2>2. ASSUME Own(cmd) PROVE NoneQueued'
    BY <1>0, <1>1, <1>7, <2>2 DEF AnswerInv, NoneQueued
  <2> QED
    BY <2>1, <2>2
<1>13. r.answered /\ ~Own(cmd) => cmd = "CANCEL_PICTURE" /\ cmd \in Strays
  BY <1>3 DEF Post, Own, Strays
<1>14. ~Own(cmd) => cmd \in {"CANCEL_PICTURE", "STOP_CAPTURE_CHANNEL"}
  BY DEF Own
<1>15. NoneQueued => NoneQueued'
  BY <1>7 DEF NoneQueued
<1>16. NoneAnswered /\ (r.answered => cmd \in Strays) => NoneAnswered'
  BY <1>6, <1>11 DEF NoneAnswered
<1>17. Channels(World)'
  BY <1>3, <1>5 DEF Post, Channels, World, HasVideo
<1>18. AnswerInv'
  <2>1. \A i \in DOMAIN apiQ' : apiQ'[i] = caller'.wait \/ ~Own(apiQ'[i])
    BY <1>0, <1>7, <1>9 DEF AnswerInv
  <2>2. \A i, k \in DOMAIN apiQ' : Own(apiQ'[i]) /\ Own(apiQ'[k]) => i = k
    <3> SUFFICES ASSUME NEW i \in DOMAIN apiQ', NEW k \in DOMAIN apiQ', Own(apiQ'[i]), Own(apiQ'[k])
                 PROVE  i = k
      OBVIOUS
    <3>1. i + 1 = k + 1
      BY <1>0, <1>7 DEF AnswerInv
    <3>2. i \in Nat /\ k \in Nat
      BY <1>7
    <3> QED
      BY <3>1, <3>2
  <2>3. \A i \in DOMAIN results' :
           results'[i].api \in Strays' \/ (results'[i].asked /\ results'[i].api = caller'.wait)
    BY <1>0, <1>6, <1>9, <1>11, <1>12, <1>13 DEF AnswerInv
  <2>4. \A i, k \in DOMAIN results' : i = k \/ results'[i].api \in Strays' \/ results'[k].api \in Strays'
    <3>1. CASE r.answered /\ Own(cmd)
      BY <1>6, <1>11, <1>12, <3>1 DEF NoneAnswered
    <3>2. CASE ~(r.answered /\ Own(cmd))
      BY <1>0, <1>6, <1>11, <1>13, <3>2 DEF AnswerInv
    <3> QED
      BY <3>1, <3>2
  <2>5. NoneQueued' \/ NoneAnswered'
    BY <1>0, <1>12, <1>13, <1>15, <1>16 DEF AnswerInv
  <2>6. Preparing' => NoneQueued' /\ NoneAnswered' /\ caller'.wait = "PREPARE_SNAPSHOT"
    <3> SUFFICES ASSUME Preparing' PROVE NoneQueued' /\ NoneAnswered' /\ caller'.wait = "PREPARE_SNAPSHOT"
      OBVIOUS
    <3>1. \/ Preparing
          \/ cmd = "PREPARE_SNAPSHOT" /\ ~r.answered
      BY <1>0, <1>3, <1>5, <1>8, HereTyped DEF Post, Preparing
    <3>2. CASE Preparing
      <4>1. NoneQueued /\ NoneAnswered /\ caller.wait = "PREPARE_SNAPSHOT"
        BY <1>0, <3>2 DEF AnswerInv
      <4>2. ~Own(cmd)
        BY <1>1, <4>1 DEF NoneQueued
      <4> QED
        BY <1>9, <1>13, <1>15, <1>16, <4>1, <4>2
    <3>3. CASE cmd = "PREPARE_SNAPSHOT" /\ ~r.answered
      BY <1>9, <1>12, <1>16, <3>3 DEF Own
    <3> QED
      BY <3>1, <3>2, <3>3
  <2>7. \A i \in DOMAIN evtQ' : evtQ'[i] = "DAEMON_DIED" => ~hist'.up
    BY <1>0, <1>8 DEF AnswerInv
  <2> QED
    BY <2>1, <2>2, <2>3, <2>4, <2>5, <2>6, <2>7 DEF AnswerInv
<1>19. CallInv'
  <2>1. caller.wait = "SET_PARAMS_STOP" => cam'.restart
    <3>1. caller.wait = "SET_PARAMS_STOP" => cmd \notin {"SET_PARAMS", "SET_PARAMS_RESTART"}
      BY <1>12, <1>14
    <3> QED
      BY <1>0, <1>3, <1>5, <3>1, HereTyped DEF CallInv, Post
  <2>2. ASSUME ~cam.hint \/ state \in RecordingStates,
               cmd \in Unlisted \cup {"PRE_TAKE_PICTURE", "STOP_CAPTURE_CHANNEL"}
        PROVE  ~cam'.hint \/ state' \in RecordingStates
    <3>1. cmd # "PRE_START_RECORDING"
      BY <2>2 DEF Unlisted
    <3>2. CASE ~cam.hint
      <4>1. ~r.w.cam.hint
        BY <1>0, <1>3, <3>1, <3>2, HereTyped DEF Post
      <4> QED
        BY <1>5, <4>1
    <3>3. CASE state \in RecordingStates
      <4>1. r.w.state \in RecordingStates
        BY <1>0, <1>3, <2>2, <3>3, HereTyped DEF Post
      <4> QED
        BY <1>5, <4>1
    <3> QED
      BY <2>2, <3>2, <3>3
  <2>3. caller.wait \in {"TAKE_PICTURE", "PRE_TAKE_PICTURE"}
           => cmd \in Unlisted \cup {"PRE_TAKE_PICTURE", "STOP_CAPTURE_CHANNEL"}
    BY <1>12, <1>14 DEF Unlisted
  <2>4. caller.wait = "TAKE_PICTURE" => ~cam'.hint \/ state' \in RecordingStates
    BY <1>0, <2>2, <2>3 DEF CallInv
  <2>5. caller.wait = "PRE_TAKE_PICTURE" /\ Succeeded("PRE_TAKE_PICTURE")' => ~cam'.hint \/ state' \in RecordingStates
    <3> SUFFICES ASSUME caller.wait = "PRE_TAKE_PICTURE", Succeeded("PRE_TAKE_PICTURE")'
                 PROVE  ~cam'.hint \/ state' \in RecordingStates
      OBVIOUS
    <3>1. Succeeded("PRE_TAKE_PICTURE") \/ (cmd = "PRE_TAKE_PICTURE" /\ r.ok)
      BY <1>6 DEF Succeeded
    <3>2. CASE Succeeded("PRE_TAKE_PICTURE")
      BY <1>0, <2>2, <2>3, <3>2 DEF CallInv
    <3>3. CASE cmd = "PRE_TAKE_PICTURE" /\ r.ok
      <4>1. ~r.w.cam.hint \/ r.w.state \in RecordingStates
        BY <1>3, <3>3 DEF Post
      <4> QED
        BY <1>5, <4>1
    <3> QED
      BY <3>1, <3>2, <3>3
  <2> QED
    BY <1>9, <2>1, <2>4, <2>5 DEF CallInv
<1>20. LossInv'
  <2> SUFFICES ASSUME state' \in PreviewStates, cam'.pv # "on", ~hist'.told
               PROVE  Restarting' \/ Reported'
    BY DEF LossInv
  <2>1. Lost(r.w) /\ ~hist.told
    BY <1>5, <1>8 DEF Lost
  <2>2. \/ r.answered /\ ~r.ok /\ cmd \notin Unlisted
        \/ cmd = "SET_PARAMS_STOP"
        \/ Lost(World) /\ cmd # "SET_PARAMS_RESTART"
        \/ cmd = "TAKE_PICTURE" /\ cam.hint /\ state = "PREVIEWING"
    BY <1>0, <1>3, <2>1, HereTyped DEF Post
  <2>3. CASE r.answered /\ ~r.ok /\ cmd \notin Unlisted
    <3>1. cmd = caller.wait
      BY <1>12, <1>13, <2>3 DEF Unlisted
    <3>2. \E k \in DOMAIN results' : results'[k].api = cmd /\ ~results'[k].ok
      BY <1>6, <2>3
    <3> QED
      BY <1>9, <2>3, <3>1, <3>2 DEF Reported, Failed, Unlisted
  <2>4. CASE cmd = "SET_PARAMS_STOP"
    BY <1>9, <1>12, <2>4 DEF Own, Restarting
  <2>5. CASE Lost(World) /\ cmd # "SET_PARAMS_RESTART"
    <3>1. Restarting \/ Reported
      BY <1>0, <2>1, <2>5, HereTyped DEF LossInv, Lost
    <3>2. ASSUME Reported PROVE Reported'
      BY <1>6, <1>9, <3>2 DEF Reported, Failed
    <3>3. ASSUME Restarting PROVE Restarting'
      <4>1. CASE caller.wait = "SET_PARAMS_STOP"
        BY <1>9, <4>1 DEF Restarting
      <4>2. CASE caller.wait = "SET_PARAMS_COMMIT" /\ cam.restart
        <5>1. cmd \notin {"SET_PARAMS", "SET_PARAMS_RESTART"}
          BY <1>12, <1>14, <4>2
        <5>2. cam'.restart
          BY <1>0, <1>3, <1>5, <4>2, <5>1, HereTyped DEF Post
        <5> QED
          BY <1>9, <4>2, <5>2 DEF Restarting
      <4>3. CASE caller.wait = "SET_PARAMS_RESTART" /\ \E i \in DOMAIN apiQ : apiQ[i] = "SET_PARAMS_RESTART"
        <5>1. PICK i \in DOMAIN apiQ : apiQ[i] = "SET_PARAMS_RESTART"
          BY <4>3
        <5>2. i # 1
          BY <1>1, <2>5, <5>1
        <5> QED
          BY <1>7, <1>9, <4>3, <5>1, <5>2 DEF Restarting
      <4> QED
        BY <3>3, <4>1, <4>2, <4>3 DEF Restarting
    <3> QED
      BY <3>1, <3>2, <3>3
  <2>6. CASE cmd = "TAKE_PICTURE" /\ cam.hint /\ state = "PREVIEWING"
    <3>1. caller.wait = "TAKE_PICTURE"
      BY <1>12, <2>6 DEF Own
    <3> QED
      BY <1>0, <2>6, <3>1 DEF CallInv, RecordingStates
  <2> QED
    BY <2>2, <2>3, <2>4, <2>5, <2>6
<1>21. WaitInv'
  <2>1. ASSUME caller'.woken, ~NoneQueued'
        PROVE  \A i \in DOMAIN results' : results'[i].api # caller'.wait
    <3>1. ~NoneQueued /\ ~Own(cmd)
      BY <1>12, <1>15, <2>1
    <3>2. NoneAnswered
      BY <1>0, <3>1 DEF AnswerInv
    <3>3. PICK j \in DOMAIN apiQ : Own(apiQ[j]) /\ apiQ[j] = caller.wait
      BY <1>0, <3>1 DEF AnswerInv, NoneQueued
    <3>4. CASE ~r.answered
      BY <1>0, <1>6, <1>9, <2>1, <3>1, <3>4 DEF WaitInv
    <3>5. CASE r.answered
      <4>1. cmd = "CANCEL_PICTURE" /\ "live" \in Faults
        BY <1>13, <3>1, <3>5 DEF Own
      <4>2. caller.wait # "CANCEL_PICTURE"
        BY <3>3, <4>1 DEF Own
      <4>3. \A i \in DOMAIN results : results[i].api # caller.wait
        <5> SUFFICES ASSUME NEW i \in DOMAIN results, results[i].api = caller.wait PROVE FALSE
          OBVIOUS
        <5>1. caller.wait \in {"PREPARE_SNAPSHOT", "TAKE_PICTURE"}
          BY <3>2, <4>2 DEF NoneAnswered, Strays
        <5> QED
          BY <1>0, <1>1, <3>1, <4>1, <5>1 DEF WaitInv
      <4> QED
        BY <1>6, <1>9, <4>1, <4>2, <4>3
    <3> QED
      BY <3>4, <3>5
  <2>2. ASSUME caller'.wait = "PREPARE_SNAPSHOT", ~NoneQueued'
        PROVE  \A i \in DOMAIN results' : results'[i].api # "PREPARE_SNAPSHOT"
    <3>1. ~NoneQueued /\ ~Own(cmd)
      BY <1>12, <1>15, <2>2
    <3>2. \A i \in DOMAIN results : results[i].api # "PREPARE_SNAPSHOT"
      BY <1>0, <1>9, <2>2, <3>1 DEF WaitInv
    <3> QED
      BY <1>6, <1>13, <3>1, <3>2
  <2>3. ASSUME \/ caller'.wait \in {"PREPARE_SNAPSHOT", "PRE_TAKE_PICTURE"}
               \/ caller'.wait = "TAKE_PICTURE" /\ ~NoneQueued',
               \E i \in DOMAIN results' : results'[i].api = "TAKE_PICTURE"
        PROVE  pic'.live # "take" /\ \A i \in DOMAIN apiQ' : apiQ'[i] # "CANCEL_PICTURE"
    <3>1. cmd # "TAKE_PICTURE"
      BY <1>9, <1>12, <2>3 DEF Own
    <3>2. \E i \in DOMAIN results : results[i].api = "TAKE_PICTURE"
      BY <1>6, <2>3, <3>1
    <3>3. \/ caller.wait \in {"PREPARE_SNAPSHOT", "PRE_TAKE_PICTURE"}
          \/ caller.wait = "TAKE_PICTURE" /\ ~NoneQueued
      BY <1>9, <1>15, <2>3
    <3>4. pic.live # "take" /\ \A i \in DOMAIN apiQ : apiQ[i] # "CANCEL_PICTURE"
      BY <1>0, <3>2, <3>3 DEF WaitInv
    <3>5. pic'.live # "take"
      BY <1>0, <1>3, <1>5, <3>1, <3>4, HereTyped DEF Post
    <3> QED
      BY <1>7, <3>4, <3>5
  <2> QED
    BY <2>1, <2>2, <2>3 DEF WaitInv
<1> QED
  BY <1>10, <1>17, <1>18, <1>19, <1>20, <1>21 DEF HalInv

(* The report of a finished picture changes the state, and nothing of the   *)
(* preview and its settings.                                                *)
LEMMA PictureDone ==
  ASSUME NEW w \in Worlds, Channels(w), NEW v, v = SnapshotDone(w)
  PROVE  /\ v \in Worlds /\ (v.up <=> w.up) /\ v.pic.live \in {w.pic.live, "cancel"}
         /\ v.cam.pv = w.cam.pv /\ v.cam.kind = w.cam.kind /\ (v.cam.vid <=> w.cam.vid)
         /\ (v.cam.hint <=> w.cam.hint) /\ (v.cam.restart <=> w.cam.restart)
         /\ v.pic.live = "take" => v.state = "VIDEO_PIC_TAKING"
         /\ v.state \in RecordingStates <=> w.state \in RecordingStates
         /\ v.state \in PreviewStates <=> w.state \in PreviewStates
         /\ v.state = "PREPARE_SNAPSHOT" <=> w.state = "PREPARE_SNAPSHOT"
         /\ v.state \in {"PREVIEW_STOPPED", "PIC_TAKING"} <=> w.state \in {"PREVIEW_STOPPED", "PIC_TAKING"}
<1>1. CASE w.state \in {"PIC_TAKING", "VIDEO_PIC_TAKING", "PREVIEW_PIC_TAKING"}
  <2>1. PICK u \in {CancelPicture(w), Live(w, "cancel"), CancelAny(w)},
             s \in {"PREVIEW_STOPPED", "RECORDING", "PREVIEWING"} :
           /\ v = To(u, s)
           /\ \/ w.state = "PIC_TAKING" /\ s = "PREVIEW_STOPPED"
              \/ w.state = "VIDEO_PIC_TAKING" /\ s = "RECORDING" /\ u = Live(w, "cancel")
              \/ w.state = "PREVIEW_PIC_TAKING" /\ s = "PREVIEWING"
    BY <1>1 DEF SnapshotDone
  <2>2. Near(w, u)
    BY <2>1, Cancelled
  <2>3. /\ u \in Worlds /\ u.cam.pv = w.cam.pv /\ u.cam.kind = w.cam.kind /\ (u.cam.vid <=> w.cam.vid)
        /\ (u.cam.hint <=> w.cam.hint) /\ (u.cam.restart <=> w.cam.restart)
    BY <2>2, NearFields
  <2>4. (u.up <=> w.up) /\ u.pic.live \in {w.pic.live, "cancel"}
    BY <2>2 DEF Near
  <2>5. s \in States
    BY <2>1 DEF States
  <2>6. v \in Worlds /\ (v.up <=> u.up) /\ v.pic = u.pic /\ v.cam = u.cam /\ v.state = s
    BY <2>1, <2>3, <2>5 DEF To, Worlds
  <2>7. v.pic.live # "take"
    <3>1. CASE w.state = "VIDEO_PIC_TAKING"
      BY <2>1, <2>6, <3>1, Lived
    <3>2. CASE w.state # "VIDEO_PIC_TAKING"
      BY <2>4, <2>6, <3>2 DEF Channels
    <3> QED
      BY <3>1, <3>2
  <2>8. /\ v.state \in RecordingStates <=> w.state \in RecordingStates
        /\ v.state \in PreviewStates <=> w.state \in PreviewStates
        /\ v.state = "PREPARE_SNAPSHOT" <=> w.state = "PREPARE_SNAPSHOT"
        /\ v.state \in {"PREVIEW_STOPPED", "PIC_TAKING"} <=> w.state \in {"PREVIEW_STOPPED", "PIC_TAKING"}
    BY <2>1, <2>6 DEF RecordingStates, PreviewStates
  <2> QED
    BY <2>3, <2>4, <2>6, <2>7, <2>8
<1>2. CASE w.state \notin {"PIC_TAKING", "VIDEO_PIC_TAKING", "PREVIEW_PIC_TAKING"}
  <2>1. v = w
    BY <1>2 DEF SnapshotDone
  <2> QED
    BY <2>1 DEF Channels
<1> QED
  BY <1>1, <1>2

LEMMA HandleSnapshotDoneStep == HalInv /\ HandleSnapshotDone => HalInv'
<1> SUFFICES ASSUME HalInv, HandleSnapshotDone PROVE HalInv'
  OBVIOUS
<1>0. HalTypes /\ AnswerInv /\ WaitInv /\ Channels(World) /\ CallInv /\ LossInv
  BY DEF HalInv
<1>1. UNCHANGED <<apiQ, caller, results, hist>>
  BY DEF HandleSnapshotDone
<1>2. PICK w : /\ w = SnapshotDone(World) /\ state' = w.state /\ cam' = w.cam /\ pic' = w.pic
               /\ ntf' = [ntf EXCEPT !.cmds = w.cmds, !.sync = FALSE]
  BY DEF HandleSnapshotDone
<1>3. /\ World \in Worlds /\ World.state = state /\ World.cam = cam /\ World.pic = pic
      /\ (World.up <=> hist.up)
  BY <1>0, HereTyped
<1>4. /\ w \in Worlds /\ w.pic.live \in {pic.live, "cancel"}
      /\ w.cam.pv = cam.pv /\ w.cam.kind = cam.kind /\ (w.cam.vid <=> cam.vid)
      /\ (w.cam.hint <=> cam.hint) /\ (w.cam.restart <=> cam.restart)
  BY <1>0, <1>2, <1>3, PictureDone
<1>5. /\ w.pic.live = "take" => w.state = "VIDEO_PIC_TAKING"
      /\ w.state \in RecordingStates <=> state \in RecordingStates
      /\ w.state \in PreviewStates <=> state \in PreviewStates
      /\ w.state = "PREPARE_SNAPSHOT" <=> state = "PREPARE_SNAPSHOT"
      /\ w.state \in {"PREVIEW_STOPPED", "PIC_TAKING"} <=> state \in {"PREVIEW_STOPPED", "PIC_TAKING"}
  BY <1>0, <1>2, <1>3, PictureDone
<1>6. evtQ' \in Seq(Events) /\ \A i \in DOMAIN evtQ' : evtQ'[i] = "DAEMON_DIED" => ~hist.up
  <2>1. evtQ \in Seq(Events) /\ evtQ # <<>> /\ evtQ' = Tail(evtQ)
    BY <1>0 DEF HalTypes, HandleSnapshotDone
  <2>2. \A i \in DOMAIN evtQ' : i + 1 \in DOMAIN evtQ /\ evtQ'[i] = evtQ[i + 1]
    BY <2>1
  <2> QED
    BY <1>0, <2>1, <2>2 DEF AnswerInv
<1>7. HalTypes'
  <2>1. state' \in States /\ cam' \in Cams /\ pic' \in Pics /\ w.cmds \in Notices
    BY <1>2, <1>4 DEF Worlds
  <2>2. ntf' \in [cmds : Notices, data : Nat, mode : {"off", "due", "done"}, sync : BOOLEAN]
    BY <1>0, <1>2, <2>1 DEF HalTypes
  <2> QED
    BY <1>0, <1>1, <1>6, <2>1, <2>2 DEF HalTypes
<1>8. Strays' = Strays /\ NoneQueued' = NoneQueued /\ NoneAnswered' = NoneAnswered /\ Preparing' = Preparing
  BY <1>1, <1>2, <1>5 DEF Strays, NoneQueued, NoneAnswered, Preparing
<1>9. AnswerInv'
  BY <1>0, <1>1, <1>6, <1>8 DEF AnswerInv
<1>10. WaitInv'
  BY <1>0, <1>1, <1>2, <1>4, <1>8 DEF WaitInv
<1>11. Channels(World)'
  <2>1. World'.state = w.state /\ World'.cam = w.cam /\ World'.pic = w.pic
    BY <1>2 DEF World
  <2>2. w.state \in {"PREVIEW_STOPPED", "PIC_TAKING"} => w.cam.pv = "none"
    BY <1>0, <1>3, <1>4, <1>5 DEF Channels
  <2>3. (w.state \in RecordingStates <=> w.cam.vid) /\ (w.cam.vid => HasVideo(w.cam))
    BY <1>0, <1>3, <1>4, <1>5 DEF Channels, HasVideo
  <2> QED
    BY <1>5, <2>1, <2>2, <2>3 DEF Channels
<1>12. CallInv'
  <2>1. \A c : Succeeded(c)' = Succeeded(c)
    BY <1>1 DEF Succeeded
  <2> QED
    BY <1>0, <1>1, <1>2, <1>4, <1>5, <2>1 DEF CallInv
<1>13. LossInv'
  BY <1>0, <1>1, <1>2, <1>4, <1>5 DEF LossInv, Restarting, Reported, Failed
<1> QED
  BY <1>7, <1>9, <1>10, <1>11, <1>12, <1>13 DEF HalInv

LEMMA EventsLeft ==
  ASSUME HalInv, evtQ # <<>>, evtQ' = Tail(evtQ)
  PROVE  /\ evtQ' \in Seq(Events)
         /\ \A i \in DOMAIN evtQ' : evtQ'[i] = "DAEMON_DIED" => ~hist.up
<1>1. evtQ \in Seq(Events)
  BY DEF HalInv, HalTypes
<1>2. \A i \in DOMAIN evtQ' : i + 1 \in DOMAIN evtQ /\ evtQ'[i] = evtQ[i + 1]
  BY <1>1
<1> QED
  BY <1>1, <1>2 DEF HalInv, AnswerInv

LEMMA HandlePrepDoneStep == HalInv /\ HandlePrepDone => HalInv'
<1> SUFFICES ASSUME HalInv, HandlePrepDone PROVE HalInv'
  OBVIOUS
<1>0. HalTypes /\ AnswerInv /\ WaitInv /\ Channels(World) /\ CallInv /\ LossInv
  BY DEF HalInv
<1>1. UNCHANGED <<apiQ, cam, pic, ntf, hist>> /\ apiQ = <<>>
  BY DEF HandlePrepDone
<1>2. evtQ' \in Seq(Events) /\ \A i \in DOMAIN evtQ' : evtQ'[i] = "DAEMON_DIED" => ~hist.up
  BY EventsLeft DEF HandlePrepDone
<1>3. CASE state # "PREPARE_SNAPSHOT"
  <2>1. UNCHANGED <<state, results, caller>>
    BY <1>3 DEF HandlePrepDone
  <2>2. HalTypes'
    BY <1>0, <1>1, <1>2, <2>1 DEF HalTypes
  <2> QED
    BY <1>1, <1>2, <2>1, <2>2, Beside DEF HalInv
<1>4. CASE state = "PREPARE_SNAPSHOT"
  <2>0. PICK yes \in BOOLEAN : yes
    OBVIOUS
  <2>1. PICK a : yes /\ a = Answer("PREPARE_SNAPSHOT", yes)
    BY <2>0
  <2>2. state' = "PREVIEWING" /\ Signal(IF yes THEN <<a>> ELSE <<>>)
    <3>1. a = Answer("PREPARE_SNAPSHOT", TRUE)
      BY <2>1 DEF Answer
    <3> QED
      BY <1>4, <2>1, <3>1 DEF HandlePrepDone, Signal
  <2>3. "PREPARE_SNAPSHOT" \in Commands /\ "PREVIEWING" \in States
    BY DEF Commands, States
  <2>4. /\ a.api = "PREPARE_SNAPSHOT" /\ (a.asked <=> caller.wait = "PREPARE_SNAPSHOT")
        /\ results' \in Seq(Answers)
        /\ \A k \in DOMAIN results : k \in DOMAIN results' /\ results'[k] = results[k]
        /\ \A k \in DOMAIN results' : \/ k \in DOMAIN results /\ results'[k] = results[k]
                                      \/ yes /\ results'[k] = a /\ k = Len(results) + 1
        /\ caller' = [caller EXCEPT !.woken = @ \/ yes]
    <3>1. a = Answer("PREPARE_SNAPSHOT", yes) /\ Signal(IF yes THEN <<a>> ELSE <<>>)
      BY <2>1, <2>2
    <3> QED
      BY <1>0, <2>3, <3>1, Signalled
  <2>5. caller'.wait = caller.wait /\ HalTypes'
    BY <1>0, <1>1, <1>2, <2>2, <2>3, <2>4 DEF HalTypes
  <2>6. Strays' = Strays /\ NoneQueued' /\ ~Preparing'
    BY <1>1, <2>2 DEF Strays, NoneQueued, Preparing
  <2>7. a.api \in Strays \/ (NoneAnswered /\ a.asked /\ a.api = caller.wait)
    BY <1>0, <1>4, <2>4 DEF AnswerInv, Preparing, Strays
  <2>8. AnswerInv'
    <3>1. \A i \in DOMAIN results' :
             results'[i].api \in Strays' \/ (results'[i].asked /\ results'[i].api = caller'.wait)
      BY <1>0, <2>4, <2>5, <2>6, <2>7 DEF AnswerInv
    <3>2. \A i, k \in DOMAIN results' : i = k \/ results'[i].api \in Strays' \/ results'[k].api \in Strays'
      BY <1>0, <2>4, <2>6, <2>7 DEF AnswerInv, NoneAnswered
    <3> QED
      BY <1>1, <1>2, <2>6, <3>1, <3>2 DEF AnswerInv
  <2>9. WaitInv'
    BY <1>0, <1>1, <2>4, <2>5, <2>6 DEF WaitInv
  <2>10. Channels(World)'
    BY <1>0, <1>1, <1>4, <2>2 DEF Channels, World, HasVideo, RecordingStates
  <2>11. CallInv'
    <3>1. Succeeded("PRE_TAKE_PICTURE")' => Succeeded("PRE_TAKE_PICTURE")
      BY <2>4 DEF Succeeded
    <3> QED
      BY <1>0, <1>1, <1>4, <2>5, <3>1 DEF CallInv, RecordingStates
  <2>12. LossInv'
    <3>1. Reported => Reported'
      BY <2>4, <2>5 DEF Reported, Failed
    <3> QED
      BY <1>0, <1>1, <1>4, <2>5, <3>1 DEF LossInv, Restarting, PreviewStates
  <2> QED
    BY <2>5, <2>8, <2>9, <2>10, <2>11, <2>12 DEF HalInv
<1> QED
  BY <1>3, <1>4

LEMMA HandleDaemonDiedStep == HalInv /\ HandleDaemonDied => HalInv'
<1> SUFFICES ASSUME HalInv, HandleDaemonDied PROVE HalInv'
  OBVIOUS
<1>0. HalTypes /\ AnswerInv /\ WaitInv /\ Channels(World) /\ CallInv /\ LossInv
  BY DEF HalInv
<1>1. UNCHANGED <<state, apiQ, cam, pic, ntf>> /\ apiQ = <<>> /\ hist' = [hist EXCEPT !.told = TRUE]
  BY DEF HandleDaemonDied
<1>2. evtQ' \in Seq(Events) /\ (\A i \in DOMAIN evtQ' : evtQ'[i] = "DAEMON_DIED" => ~hist.up)
  BY EventsLeft DEF HandleDaemonDied
<1>3. ~hist.up
  <2>1. 1 \in DOMAIN evtQ /\ evtQ[1] = "DAEMON_DIED"
    BY <1>0 DEF HandleDaemonDied, HalTypes
  <2> QED
    BY <1>0, <2>1 DEF AnswerInv
<1>4. hist' \in [told : BOOLEAN, up : BOOLEAN] /\ hist'.told /\ (hist'.up <=> hist.up)
  BY <1>0, <1>1 DEF HalTypes
<1>5. /\ results' \in Seq(Answers) /\ caller'.wait = caller.wait
      /\ \A k \in DOMAIN results' : \/ k \in DOMAIN results /\ results'[k] = results[k]
                                    \/ /\ results'[k].api \in {"PREPARE_SNAPSHOT", "TAKE_PICTURE"}
                                       /\ state \in {"PREPARE_SNAPSHOT", "PIC_TAKING", "PREVIEW_PIC_TAKING"}
      /\ caller' = [todo |-> After(caller'.wait), wait |-> caller'.wait, woken |-> caller'.woken]
      /\ caller'.woken \in BOOLEAN
  <2>1. CASE state \in {"PREPARE_SNAPSHOT", "PIC_TAKING", "PREVIEW_PIC_TAKING"}
    <3>1. PICK a, b : a = Answer("PREPARE_SNAPSHOT", TRUE) /\ b = Answer("TAKE_PICTURE", TRUE)
      OBVIOUS
    <3>2. {"PREPARE_SNAPSHOT", "TAKE_PICTURE"} \subseteq Commands
      BY DEF Commands
    <3>3. a \in Answers /\ b \in Answers /\ a.api = "PREPARE_SNAPSHOT" /\ b.api = "TAKE_PICTURE"
      BY <3>1, <3>2 DEF Answer, Answers
    <3>4. results' = results \o <<a, b>> /\ caller' = [caller EXCEPT !.woken = @ \/ <<a, b>> # <<>>]
      BY <2>1, <3>1 DEF HandleDaemonDied, Signal
    <3>5. results \in Seq(Answers) /\ <<a, b>> \in Seq(Answers) /\ Len(<<a, b>>) = 2
      BY <1>0, <3>3 DEF HalTypes
    <3>6. /\ results' \in Seq(Answers) /\ Len(results') = Len(results) + 2
          /\ \A k \in 1..Len(results') : results'[k] = IF k <= Len(results) THEN results[k]
                                                       ELSE <<a, b>>[k - Len(results)]
      BY <3>4, <3>5, ConcatProperties
    <3>7. \A k \in DOMAIN results' : \/ k \in DOMAIN results /\ results'[k] = results[k]
                                     \/ results'[k] \in {a, b}
      BY <3>5, <3>6
    <3>8. caller' = [caller EXCEPT !.woken = TRUE]
      BY <3>4
    <3>9. \A k \in DOMAIN results' : \/ k \in DOMAIN results /\ results'[k] = results[k]
                                     \/ /\ results'[k].api \in {"PREPARE_SNAPSHOT", "TAKE_PICTURE"}
                                        /\ state \in {"PREPARE_SNAPSHOT", "PIC_TAKING", "PREVIEW_PIC_TAKING"}
      BY <2>1, <3>3, <3>7
    <3>10. /\ caller'.wait = caller.wait /\ caller'.woken \in BOOLEAN
           /\ caller' = [todo |-> After(caller'.wait), wait |-> caller'.wait, woken |-> caller'.woken]
      <4>1. PICK rest, c, woken : caller = [todo |-> rest, wait |-> c, woken |-> woken] /\ rest = After(c)
        BY <1>0 DEF HalTypes
      <4>2. caller' = [todo |-> rest, wait |-> c, woken |-> TRUE]
        BY <3>8, <4>1
      <4>3. caller.wait = c /\ caller'.wait = c /\ caller'.woken = TRUE
        BY <4>1, <4>2
      <4> QED
        BY <4>1, <4>2, <4>3
    <3> QED
      BY <3>6, <3>9, <3>10
  <2>2. CASE state \notin {"PREPARE_SNAPSHOT", "PIC_TAKING", "PREVIEW_PIC_TAKING"}
    BY <1>0, <2>2 DEF HandleDaemonDied, HalTypes
  <2> QED
    BY <2>1, <2>2
<1>6. HalTypes'
  BY <1>0, <1>1, <1>2, <1>4, <1>5 DEF HalTypes
<1>7. Strays' = Strays /\ {"PREPARE_SNAPSHOT", "TAKE_PICTURE"} \subseteq Strays /\ NoneQueued' /\ ~Preparing'
  BY <1>1, <1>3, <1>4 DEF Strays, NoneQueued, Preparing
<1>8. AnswerInv'
  <2>1. \A i \in DOMAIN results' :
           results'[i].api \in Strays' \/ (results'[i].asked /\ results'[i].api = caller'.wait)
    BY <1>0, <1>5, <1>7 DEF AnswerInv
  <2>2. \A i, k \in DOMAIN results' : i = k \/ results'[i].api \in Strays' \/ results'[k].api \in Strays'
    BY <1>0, <1>5, <1>7 DEF AnswerInv
  <2> QED
    BY <1>1, <1>2, <1>4, <1>7, <2>1, <2>2 DEF AnswerInv
<1>9. WaitInv'
  <2>1. state \in {"PREPARE_SNAPSHOT", "PIC_TAKING", "PREVIEW_PIC_TAKING"} => pic.live # "take"
    BY <1>0 DEF Channels, World
  <2> QED
    BY <1>0, <1>1, <1>5, <1>7, <2>1 DEF WaitInv
<1>10. Channels(World)'
  BY <1>0, <1>1 DEF Channels, World, HasVideo
<1>11. CallInv'
  <2>1. Succeeded("PRE_TAKE_PICTURE")' => Succeeded("PRE_TAKE_PICTURE")
    BY <1>5 DEF Succeeded
  <2> QED
    BY <1>0, <1>1, <1>5, <2>1 DEF CallInv
<1>12. LossInv'
  BY <1>4 DEF LossInv
<1> QED
  BY <1>6, <1>8, <1>9, <1>10, <1>11, <1>12 DEF HalInv

-----------------------------------------------------------------------------
(* The theorems.                                                            *)

LEMMA NextHalInv == HalInv /\ [Next]_vars => HalInv'
<1> SUFFICES ASSUME HalInv, [Next]_vars PROVE HalInv'
  OBVIOUS
<1>1. CASE \E call \in Calls : Ask(call)
  BY <1>1, AskStep
<1>2. CASE TakeAnswer
  BY <1>2, TakeAnswerStep
<1>3. CASE HandleApi
  BY <1>3, HandleApiStep
<1>4. CASE HandleEvt
  BY <1>4, HandleSnapshotDoneStep, HandlePrepDoneStep, HandleDaemonDiedStep DEF HandleEvt
<1>5. CASE DeferredStart
  BY <1>5, DeferredStartStep
<1>6. CASE LiveTake
  BY <1>6, LiveTakeStep
<1>7. CASE LiveCancel
  BY <1>7, LiveCancelStep
<1>8. CASE Deliver
  BY <1>8, DeliverStep
<1>9. CASE Notify
  BY <1>9, NotifyStep
<1>10. CASE PrepDone
  BY <1>10, PrepDoneStep
<1>11. CASE DaemonDies
  BY <1>11, DaemonDiesStep
<1>12. CASE UNCHANGED vars
  <2>1. UNCHANGED <<state, apiQ, caller, results, cam, hist>> /\ UNCHANGED <<pic, evtQ, ntf>>
    BY <1>12 DEF vars
  <2>2. \A i \in DOMAIN evtQ' : evtQ'[i] = "DAEMON_DIED" => ~hist.up
    BY <2>1 DEF HalInv, AnswerInv
  <2>3. HalTypes'
    BY <2>1 DEF HalInv, HalTypes
  <2> QED
    BY <2>1, <2>2, <2>3, Beside DEF HalInv
<1> QED
  BY <1>1, <1>2, <1>3, <1>4, <1>5, <1>6, <1>7, <1>8, <1>9, <1>10, <1>11, <1>12 DEF Next

(* In every state that the state machine, its caller and the threads beside *)
(* it reach, whatever fails and whatever is called: the types, and where    *)
(* the caller's command or answer is, which channels belong to the state,   *)
(* and who will report or restart a preview that does not run.              *)
THEOREM HalInvariance == Spec => []HalInv
<1>1. Init => HalInv
  BY InitHalInv
<1>2. HalInv /\ [Next]_vars => HalInv'
  BY NextHalInv
<1> QED
  BY <1>1, <1>2, PTL DEF Spec

(* waitAPIResult, which knows an answer by its command only, is never left  *)
(* with an answer to another call, but for those a failed live snapshot and *)
(* the daemon's death put into the list.                                    *)
THEOREM AnswersAwaitedAlways == Spec => []AnswersAwaited
<1>1. HalInv => AnswersAwaited
  BY DEF HalInv, AnswerInv, AnswersAwaited, Strays
<1> QED
  BY <1>1, HalInvariance, PTL

(* Whichever handler left the state, and after whichever failure of the     *)
(* camera stack: nothing streams in PREVIEW_STOPPED, and video is recorded  *)
(* in the recording states and in no other.                                 *)
THEOREM StateMatchesChannelsAlways == Spec => []StateMatchesChannels
<1>1. HalInv => StateMatchesChannels
  BY DEF HalInv, Channels, World, StateMatchesChannels
<1> QED
  BY <1>1, HalInvariance, PTL

(* Between two calls, a state that promises preview has it, or the caller   *)
(* was told of the failure that took it away.                               *)
THEOREM NoSilentLossAlways == Spec => []NoSilentLoss
<1>1. HalInv => NoSilentLoss
  BY Idle DEF HalInv, LossInv, NoSilentLoss
<1> QED
  BY <1>1, HalInvariance, PTL
=============================================================================
