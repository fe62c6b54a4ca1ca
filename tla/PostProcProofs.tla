--------------------------- MODULE PostProcProofs ---------------------------
(* Proofs about PostProc: a stop leaves nothing behind, the encoder never   *)
(* reads a frame that was given back, and every superbuf is freed and given *)
(* back once.  A frame is only safe because exactly one queue or thread has *)
(* it, and the threads only agree on that because the state machine stops   *)
(* and starts them in phases.                                               *)
EXTENDS PostProc, SequenceTheorems, FiniteSetTheorems, TLAPS

-----------------------------------------------------------------------------
(* Types.                                                                   *)

Frames  == Nat \X Nat
Jobs    == [src : Frames, base : Frames, count : Nat, rel : BOOLEAN, id : Nat]
WorkPcs == {"encode", "note", "reprocess", "daemon", "capture"}
StopPcs == {"abort", "release", "ongoingPPQ", "inputJpegQ", "inputPPQ", "stopped"}

PostTypes ==
    /\ q \in [Queues -> Seq(Jobs)] /\ on \in [Queues -> BOOLEAN]
    /\ cmds \in Seq({"START", "DO", "STOP"}) /\ active \in BOOLEAN
    /\ proc \in [pc : {"idle"} \cup WorkPcs \cup StopPcs, job : Jobs]
    /\ sm \in {"idle", "wait", "join", "close"}
    /\ def \in {"none", "start", "wait", "session", "done", "failed"}
    /\ cap \in [pc : {"idle", "wait", "send"}, frame : Frames]
    /\ pp \in [pc : {"idle", "wait", "job", "send"}, frame : Frames, job : Jobs]
    /\ mode \in Modes /\ taking \in BOOLEAN
    /\ first \in Nat /\ next \in Nat /\ left \in Nat /\ sessions \in Nat
    /\ stopCap \in BOOLEAN /\ evts \in Seq([id : Nat, pic : Nat]) /\ daemon \in Seq(Frames)
    /\ enc \subseteq [id : Nat, src : Frames] /\ lastId \in Nat
    /\ received \subseteq Frames /\ heap \subseteq Frames /\ back \subseteq Frames
    /\ twice \in BOOLEAN /\ dangling \in BOOLEAN

-----------------------------------------------------------------------------
(* The invariant.                                                           *)

(* The phases of a picture: which threads may be at work in which of them,  *)
(* and which commands may be queued.                                        *)
PhaseInv ==
    /\ taking <=> def # "none"
    /\ sm # "idle" => def \in {"done", "failed"}
    /\ \A i \in DOMAIN cmds : cmds[i] = "STOP" => i = 1 /\ sm = "wait" /\ proc.pc \notin StopPcs
    /\ sm = "wait" => proc.pc \in StopPcs \/ (cmds # <<>> /\ cmds[1] = "STOP")
    /\ proc.pc \in StopPcs => sm = "wait" /\ ~active
    /\ proc.pc \in WorkPcs => active
    /\ \A i \in DOMAIN cmds : cmds[i] = "START" => def = "wait"
    /\ \A i, j \in DOMAIN cmds : cmds[i] = "START" /\ cmds[j] = "START" => i = j
    /\ active => def \in {"session", "done"} /\ sm \in {"idle", "wait"}
    /\ def \in {"session", "done"} /\ ~active => proc.pc \in StopPcs \/ sm \in {"join", "close"}
    /\ daemon # <<>> \/ pp.pc # "idle" => def \in {"session", "done"} /\ sm # "close"
    /\ def = "none" => cap.pc = "idle" /\ left = 0
    /\ cap.pc = "send" => def \in {"session", "done"}

(* A stop empties the queues one by one; they are inactive then, and stay   *)
(* empty.                                                                   *)
PPFlushed == proc.pc \in {"inputJpegQ", "inputPPQ", "stopped"}
Flushed   == PPFlushed \/ sm \in {"join", "close"}
QueueInv ==
    /\ on["ongoingJpegQ"] /\ \A n \in Queues : ~on[n] => q[n] = <<>>
    /\ active => \A n \in Queues : on[n]
    /\ def \in {"session", "done"} /\ ~Flushed => on["ongoingPPQ"]
    /\ ~active /\ proc.pc \notin StopPcs => \A n \in Queues : q[n] = <<>>
    /\ proc.pc = "ongoingPPQ" \/ PPFlushed => q["ongoingJpegQ"] = <<>>
    /\ PPFlushed => ~on["ongoingPPQ"]
    /\ proc.pc \in {"inputPPQ", "stopped"} => ~on["inputJpegQ"]
    /\ proc.pc = "stopped" => ~on["inputPPQ"]
    /\ sm \in {"join", "close"} => \A n \in Queues \ {"ongoingJpegQ"} : ~on[n]

(* What the encoder works on is in ongoingJpegQ, under the id that it was   *)
(* given, or is about to be noted there.  Ids are given once.               *)
OJ       == q["ongoingJpegQ"]
Encoding == proc.pc \in {"encode", "note"}
EncOwned ==
    /\ \A e \in enc : e.id \in 1 .. lastId
                      /\ \/ \E i \in DOMAIN OJ : OJ[i].id = e.id /\ OJ[i].src = e.src
                         \/ proc.pc = "note" /\ e.id = lastId /\ e.src = proc.job.src
    /\ \A d, e \in enc : d.id = e.id => d = e
EventIds ==
    \A i \in DOMAIN evts : evts[i].id \in 1 .. lastId /\ \A e \in enc : e.id # evts[i].id
LastJob ==
    /\ Encoding => Len(OJ) > 0 /\ proc.job = OJ[Len(OJ)] /\ proc.job.id = 0
    /\ proc.pc = "note" => lastId > 0 /\ \A i \in DOMAIN OJ : OJ[i].id # lastId
JobIds ==
    /\ \A i \in DOMAIN OJ : OJ[i].id \in 0 .. lastId /\ (OJ[i].id = 0 => Encoding /\ i = Len(OJ))
    /\ \A i, j \in DOMAIN OJ : OJ[i].id = OJ[j].id => i = j
Unnumbered ==
    /\ \A n \in Queues \ {"ongoingJpegQ"} : \A i \in DOMAIN q[n] : q[n][i].id = 0
    /\ pp.job.id = 0
EncInv == EncOwned /\ EventIds /\ LastJob /\ JobIds /\ Unnumbered

-----------------------------------------------------------------------------
(* Sequences of jobs.                                                       *)

LEMMA RemovedAt ==
  ASSUME NEW s \in Seq(Jobs), NEW i \in DOMAIN s
  PROVE  /\ RemoveAt(s, i) \in Seq(Jobs) /\ Len(RemoveAt(s, i)) = Len(s) - 1
         /\ \A k \in 1 .. Len(s) - 1 : RemoveAt(s, i)[k] = s[IF k < i THEN k ELSE k + 1]
<1> DEFINE a == SubSeq(s, 1, i - 1)
           b == SubSeq(s, i + 1, Len(s))
<1>1. i \in 1 .. Len(s) /\ Len(s) \in Nat
  OBVIOUS
<1>2. a \in Seq(Jobs) /\ Len(a) = i - 1 /\ \A k \in 1 .. i - 1 : a[k] = s[k]
  BY <1>1
<1>3. b \in Seq(Jobs) /\ Len(b) = Len(s) - i /\ \A k \in 1 .. Len(s) - i : b[k] = s[i + k]
  BY <1>1
<1> HIDE DEF a, b
<1>4. /\ a \o b \in Seq(Jobs) /\ Len(a \o b) = Len(a) + Len(b)
      /\ \A k \in 1 .. Len(a) + Len(b) : (a \o b)[k] = IF k <= Len(a) THEN a[k] ELSE b[k - Len(a)]
  BY <1>2, <1>3, ConcatProperties
<1>5. Len(a) = i - 1 /\ Len(a) + Len(b) = Len(s) - 1
  BY <1>1, <1>2, <1>3
<1>6. ASSUME NEW k \in 1 .. Len(s) - 1
      PROVE  (a \o b)[k] = s[IF k < i THEN k ELSE k + 1]
  <2>1. CASE k < i
    BY <2>1, <1>1, <1>2, <1>4, <1>5
  <2>2. CASE ~(k < i)
    <3>1. k - (i - 1) \in 1 .. Len(s) - i /\ i + (k - (i - 1)) = k + 1 /\ ~(k <= i - 1)
      BY <2>2, <1>1
    <3>2. b[k - (i - 1)] = s[i + (k - (i - 1))]
      BY <3>1, <1>3
    <3>3. (a \o b)[k] = b[k - (i - 1)]
      BY <3>1, <1>4, <1>5
    <3> QED
      BY <2>2, <3>1, <3>2, <3>3
  <2> QED
    BY <2>1, <2>2
<1>7. RemoveAt(s, i) = a \o b
  BY DEF RemoveAt, a, b
<1> QED
  BY <1>4, <1>5, <1>6, <1>7

LEMMA FrontOf ==
  ASSUME NEW s \in Seq(Jobs), s # <<>>
  PROVE  /\ Front(s) \in Seq(Jobs) /\ Len(Front(s)) = Len(s) - 1
         /\ \A k \in 1 .. Len(s) - 1 : Front(s)[k] = s[k]
<1>1. Front(s) = SubSeq(s, 1, Len(s) - 1) /\ Len(s) \in Nat \ {0}
  BY EmptySeq DEF Front
<1>2. PICK m \in Nat : m = Len(s) - 1
  BY <1>1
<1>3. SubSeq(s, 1, m) \in Seq(Jobs) /\ Len(SubSeq(s, 1, m)) = m
      /\ \A k \in 1 .. m : SubSeq(s, 1, m)[k] = s[k]
  BY <1>1, <1>2
<1> QED
  BY <1>1, <1>2, <1>3

LEMMA NoJobTyped == NoJob \in Jobs /\ NoFrame \in Frames
BY DEF NoJob, NoFrame, Jobs, Frames

LEMMA FramesTyped ==
  ASSUME NEW n, NEW job \in Jobs
  PROVE  FramesOf(job) \subseteq Frames /\ Returns(n, job) \subseteq Frames
BY DEF FramesOf, Returns, PPReturns, JpegReturns, Jobs

(* An entry of the queues is replaced. *)
LEMMA QueueSet ==
  ASSUME PostTypes, NEW n \in Queues, NEW s \in Seq(Jobs)
  PROVE  [q EXCEPT ![n] = s] \in [Queues -> Seq(Jobs)]
BY DEF PostTypes

LEMMA JobsOfQueue ==
  ASSUME PostTypes, NEW n \in Queues
  PROVE  /\ q[n] \in Seq(Jobs) /\ Len(q[n]) \in Nat /\ DOMAIN q[n] = 1 .. Len(q[n])
         /\ \A i \in DOMAIN q[n] : q[n][i] \in Jobs
         /\ q[n] # <<>> => /\ Head(q[n]) \in Jobs /\ Head(q[n]) = q[n][1]
                           /\ Tail(q[n]) \in Seq(Jobs) /\ 1 \in DOMAIN q[n]
                           /\ Len(Tail(q[n])) = Len(q[n]) - 1
                           /\ \A i \in 1 .. Len(q[n]) - 1 : Tail(q[n])[i] = q[n][i + 1]
<1>1. q[n] \in Seq(Jobs)
  BY DEF PostTypes
<1> QED
  BY <1>1, HeadTailProperties, EmptySeq

LEMMA Appended ==
  ASSUME NEW s \in Seq(Jobs), NEW job \in Jobs
  PROVE  /\ Append(s, job) \in Seq(Jobs) /\ Len(Append(s, job)) = Len(s) + 1
         /\ \A i \in 1 .. Len(s) : Append(s, job)[i] = s[i]
         /\ Append(s, job)[Len(s) + 1] = job
BY AppendProperties

LEMMA JobTyped ==
  ASSUME PostTypes, NEW s \in Frames
  PROVE  /\ Job(s) \in Jobs /\ Job(s).id = 0 /\ Job(s).src = s /\ Job(s).count = 0
         /\ Job(s).base = IF mode.passes > 0 THEN s ELSE NoFrame
         /\ Job(s).rel = (mode.passes > 0 /\ mode.regular)
         /\ Input \in Queues
BY PostProcAssumption DEF PostTypes, Job, NoJob, NoFrame, Frames, Jobs, Input, Queues

LEMMA CommandTaken ==
  ASSUME PostTypes, NEW c, Command(c)
  PROVE  /\ proc.pc = "idle" /\ cmds # <<>> /\ cmds[1] = c
         /\ cmds' \in Seq({"START", "DO", "STOP"}) /\ Len(cmds') = Len(cmds) - 1
         /\ \A i \in 1 .. Len(cmds) - 1 : cmds'[i] = cmds[i + 1]
BY HeadTailProperties DEF PostTypes, Command, At

LEMMA CommandSent ==
  ASSUME PostTypes, NEW c \in {"START", "DO", "STOP"}, Send(c)
  PROVE  /\ cmds' \in Seq({"START", "DO", "STOP"}) /\ Len(cmds') = Len(cmds) + 1
         /\ \A i \in 1 .. Len(cmds) : cmds'[i] = cmds[i]
         /\ cmds'[Len(cmds) + 1] = c
BY AppendProperties DEF PostTypes, Send

(* The thread goes on, with a job or without. *)
LEMMA ProcSet ==
  ASSUME NEW pc \in {"idle"} \cup WorkPcs \cup StopPcs, NEW job \in Jobs
  PROVE  [pc |-> pc, job |-> job] \in [pc : {"idle"} \cup WorkPcs \cup StopPcs, job : Jobs]
OBVIOUS

LEMMA Freed ==
  ASSUME PostTypes, NEW frees, NEW returns, returns \subseteq Frames, GiveBack(frees, returns)
  PROVE  /\ received' \subseteq Frames /\ heap' \subseteq Frames /\ back' \subseteq Frames
         /\ twice' \in BOOLEAN
BY DEF PostTypes, GiveBack

LEMMA FreedAll ==
  ASSUME PostTypes, NEW n \in Queues, ReleaseAll(n)
  PROVE  /\ received' \subseteq Frames /\ heap' \subseteq Frames /\ back' \subseteq Frames
         /\ twice' \in BOOLEAN
<1>1. \A job \in ToSet(q[n]) : job \in Jobs
  BY JobsOfQueue DEF ToSet
<1>2. \A job \in ToSet(q[n]) : Returns(n, job) \subseteq Frames
  BY <1>1, FramesTyped
<1>3. UNION {Returns(n, job) : job \in ToSet(q[n])} \subseteq Frames
  BY <1>2
<1> QED
  BY <1>3, Freed DEF ReleaseAll

(* What an event of the encoder does to the queue. *)
LEMMA EventEffect ==
  ASSUME JpegEvent
  PROVE  \/ NoneReleased /\ q' = q
         \/ \E i \in DOMAIN OJ : /\ OJ[i].id = Head(evts).id /\ taking
                                 /\ Release("ongoingJpegQ", OJ[i])
                                 /\ q' = [q EXCEPT !["ongoingJpegQ"] = RemoveAt(@, i)]
<1>1. CASE taking /\ Done(Head(evts).id) # {}
  <2> DEFINE i == CHOOSE j \in Done(Head(evts).id) : TRUE
  <2>1. i \in Done(Head(evts).id)
    BY <1>1
  <2>2. i \in DOMAIN OJ /\ OJ[i].id = Head(evts).id
    BY <2>1 DEF Done, OJ
  <2>3. FlushDone(Head(evts).id)
    BY <1>1 DEF JpegEvent
  <2>4. Release("ongoingJpegQ", OJ[i]) /\ q' = [q EXCEPT !["ongoingJpegQ"] = RemoveAt(@, i)]
    BY <1>1, <2>3 DEF FlushDone, OJ
  <2> QED
    BY <1>1, <2>2, <2>4
<1> QED
  BY <1>1 DEF JpegEvent, FlushDone

(* A queue is flushed once, and is inactive then. *)
LEMMA FlushTyped ==
  ASSUME PostTypes, NEW n \in Queues, Flush(n)
  PROVE  /\ q' \in [Queues -> Seq(Jobs)] /\ on' \in [Queues -> BOOLEAN]
         /\ received' \subseteq Frames /\ heap' \subseteq Frames /\ back' \subseteq Frames
         /\ twice' \in BOOLEAN
<1>1. CASE on[n]
  <2>1. [q EXCEPT ![n] = <<>>] \in [Queues -> Seq(Jobs)]
    BY QueueSet, EmptySeq
  <2> QED
    BY <1>1, <2>1, FreedAll DEF Flush, PostTypes
<1>2. CASE ~on[n]
  BY <1>2 DEF Flush, NoneReleased, PostTypes, frameVars, queueVars
<1> QED
  BY <1>1, <1>2

(* The job that is started, noted or freed is the last of its queue. *)
LEMMA Occupied ==
  ASSUME PostTypes, EncInv, Encoding
  PROVE  OJ # <<>>
<1>1. Len(OJ) > 0
  BY DEF EncInv, LastJob
<1> QED
  BY <1>1, EmptySeq

LEMMA TypesKept ==
  ASSUME PostTypes, EncInv, [Next]_vars
  PROVE  PostTypes'
<1> USE DEF queueVars, threadVars, takeVars, eventVars, frameVars
<1>1. CASE \E m \in Modes : TakePicture(m)
  BY <1>1, PostProcAssumption DEF TakePicture, PostTypes
<1>2. CASE DefStart
  <2>1. cmds' \in Seq({"START", "DO", "STOP"})
    BY <1>2, CommandSent DEF DefStart, PostTypes
  <2> QED
    BY <1>2, <2>1 DEF DefStart, PostTypes
<1>3. CASE DefSession
  BY <1>3 DEF DefSession, PostTypes
<1>4. CASE CapFrame
  <2>1. <<next, 0>> \in Frames /\ next + 1 \in Nat /\ left - 1 \in Nat
    BY <1>4 DEF CapFrame, PostTypes, Frames
  <2>2. cap' \in [pc : {"idle", "wait", "send"}, frame : Frames]
    BY <1>4, <2>1 DEF CapFrame
  <2>3. received' \subseteq Frames /\ heap' \subseteq Frames
    BY <1>4, <2>1 DEF CapFrame, Receive, PostTypes
  <2> QED
    BY <1>4, <2>1, <2>2, <2>3 DEF CapFrame, Receive, PostTypes
<1>5. CASE ProcessData
  <2>1. cap.frame \in Frames /\ Input \in Queues /\ Job(cap.frame) \in Jobs
    BY JobTyped DEF PostTypes
  <2>2. cap' \in [pc : {"idle", "wait", "send"}, frame : Frames]
    <3>1. cap' = [cap EXCEPT !.pc = "send"] \/ cap' = [pc |-> "idle", frame |-> NoFrame]
      BY <1>5 DEF ProcessData, CapIdle
    <3>2. [cap EXCEPT !.pc = "send"] \in [pc : {"idle", "wait", "send"}, frame : Frames]
      BY DEF PostTypes
    <3> QED
      BY <3>1, <3>2, NoJobTyped
  <2>3. q' \in [Queues -> Seq(Jobs)]
    <3>1. Append(q[Input], Job(cap.frame)) \in Seq(Jobs)
      BY <2>1, JobsOfQueue, Appended
    <3> QED
      BY <1>5, <2>1, <3>1, QueueSet DEF ProcessData, Put, PostTypes
  <2>4. /\ received' \subseteq Frames /\ heap' \subseteq Frames /\ back' \subseteq Frames
        /\ twice' \in BOOLEAN
    BY <1>5, <2>1, Freed DEF ProcessData, NoneReleased, PostTypes
  <2> QED
    BY <1>5, <2>2, <2>3, <2>4 DEF ProcessData, Put, PostTypes
<1>6. CASE CapSend
  <2>1. cmds' \in Seq({"START", "DO", "STOP"})
    BY <1>6, CommandSent DEF CapSend
  <2> QED
    BY <1>6, <2>1, NoJobTyped DEF CapSend, CapIdle, PostTypes
<1>7. CASE CapRefused
  <2>1. /\ received' \subseteq Frames /\ heap' \subseteq Frames /\ back' \subseteq Frames
        /\ twice' \in BOOLEAN
    BY <1>7, Freed DEF CapRefused, PostTypes
  <2> QED
    BY <1>7, <2>1, NoJobTyped DEF CapRefused, CapIdle, PostTypes
<1>8. CASE StartData
  <2>1. cmds' \in Seq({"START", "DO", "STOP"})
    BY <1>8, CommandTaken DEF StartData
  <2> QED
    BY <1>8, <2>1 DEF StartData, PostTypes
<1>9. CASE NextJpegJob
  <2>1. cmds' \in Seq({"START", "DO", "STOP"})
    BY <1>9, CommandTaken DEF NextJpegJob
  <2>2. CASE Has("inputJpegQ")
    <3>1. Head(q["inputJpegQ"]) \in Jobs /\ Tail(q["inputJpegQ"]) \in Seq(Jobs)
      BY <2>2, JobsOfQueue DEF Has, Queues
    <3>2. Append(q["ongoingJpegQ"], Head(q["inputJpegQ"])) \in Seq(Jobs)
      BY <3>1, JobsOfQueue, Appended DEF Queues
    <3>3. q' \in [Queues -> Seq(Jobs)]
      BY <1>9, <2>2, <3>1, <3>2, ZenonT(60) DEF NextJpegJob, PostTypes, Queues
    <3>4. proc' \in [pc : {"idle"} \cup WorkPcs \cup StopPcs, job : Jobs]
      BY <1>9, <2>2, <3>1, ProcSet DEF NextJpegJob, WorkPcs
    <3> QED
      BY <1>9, <2>1, <3>3, <3>4 DEF NextJpegJob, PostTypes
  <2>3. CASE ~Has("inputJpegQ")
    <3>1. proc' \in [pc : {"idle"} \cup WorkPcs \cup StopPcs, job : Jobs]
      BY <1>9, <2>3, ProcSet, NoJobTyped DEF NextJpegJob, GoTo, WorkPcs
    <3> QED
      BY <1>9, <2>1, <2>3, <3>1 DEF NextJpegJob, PostTypes
  <2> QED
    BY <2>2, <2>3
<1>10. CASE StartJob
  <2>1. proc.job \in Jobs /\ proc.job.src \in Frames
    BY DEF PostTypes, Jobs
  <2>2. proc' \in [pc : {"idle"} \cup WorkPcs \cup StopPcs, job : Jobs]
    BY <1>10, <2>1, ProcSet, NoJobTyped DEF StartJob, GoTo, WorkPcs, PostTypes
  <2>3. lastId' \in Nat /\ enc' \subseteq [id : Nat, src : Frames]
    BY <1>10, <2>1 DEF StartJob, PostTypes
  <2>4. q' \in [Queues -> Seq(Jobs)]
    <3>1. CASE q' = q
      BY <3>1 DEF PostTypes
    <3>2. CASE q' = [q EXCEPT !["ongoingJpegQ"] = Front(@)] /\ q["ongoingJpegQ"] # <<>>
      BY <3>2, FrontOf, JobsOfQueue, QueueSet DEF Queues
    <3> QED
      BY <1>10, <3>1, <3>2, Occupied DEF StartJob, At, Encoding, OJ
  <2>5. /\ received' \subseteq Frames /\ heap' \subseteq Frames /\ back' \subseteq Frames
        /\ twice' \in BOOLEAN
    BY <1>10, <2>1, FramesTyped, Freed DEF StartJob, Release, NoneReleased, PostTypes
  <2> QED
    BY <1>10, <2>2, <2>3, <2>4, <2>5 DEF StartJob, PostTypes
<1>11. CASE NoteJobId
  <2>1. proc' \in [pc : {"idle"} \cup WorkPcs \cup StopPcs, job : Jobs]
    BY <1>11, ProcSet, NoJobTyped DEF NoteJobId, GoTo, WorkPcs
  <2> DEFINE noted == [i \in DOMAIN OJ |-> IF OJ[i] = proc.job THEN [OJ[i] EXCEPT !.id = lastId]
                                                             ELSE OJ[i]]
  <2>2. DOMAIN OJ = 1 .. Len(OJ) /\ Len(OJ) \in Nat /\ \A i \in DOMAIN OJ : OJ[i] \in Jobs
    BY JobsOfQueue DEF OJ, Queues
  <2>3. \A i \in DOMAIN OJ : noted[i] \in Jobs
    BY <2>2 DEF PostTypes, Jobs
  <2>4. noted \in Seq(Jobs)
    BY <2>2, <2>3
  <2>5. q' = [q EXCEPT !["ongoingJpegQ"] = noted]
    BY <1>11 DEF NoteJobId, OJ
  <2> HIDE DEF noted
  <2>6. q' \in [Queues -> Seq(Jobs)]
    BY <2>4, <2>5, QueueSet DEF Queues
  <2> QED
    BY <1>11, <2>1, <2>6 DEF NoteJobId, PostTypes
<1>12. CASE NextPPJob
  <2>1. CASE ~Has("inputPPQ") \/ MustWait(Head(q["inputPPQ"]))
    <3>1. q' = q /\ proc' = [pc |-> "capture", job |-> NoJob]
      BY <1>12, <2>1 DEF NextPPJob, GoTo
    <3>2. proc' \in [pc : {"idle"} \cup WorkPcs \cup StopPcs, job : Jobs]
      BY <3>1, ProcSet, NoJobTyped DEF WorkPcs
    <3> QED
      BY <1>12, <3>1, <3>2 DEF NextPPJob, PostTypes
  <2>2. CASE ~(~Has("inputPPQ") \/ MustWait(Head(q["inputPPQ"])))
    <3> DEFINE job == [Head(q["inputPPQ"]) EXCEPT !.count = @ + 1]
    <3>1. Head(q["inputPPQ"]) \in Jobs /\ Tail(q["inputPPQ"]) \in Seq(Jobs)
      BY <2>2, JobsOfQueue DEF Queues, Has
    <3>2. job \in Jobs
      <4>1. PICK h \in Jobs : h = Head(q["inputPPQ"])
        BY <3>1
      <4>2. [h EXCEPT !.count = @ + 1] \in Jobs
        BY DEF Jobs
      <4> QED
        BY <4>1, <4>2
    <3>3. /\ q' = [q EXCEPT !["inputPPQ"] = Tail(@), !["ongoingPPQ"] = Append(@, job)]
          /\ proc' = [pc |-> "daemon", job |-> job]
      BY <1>12, <2>2 DEF NextPPJob
    <3> HIDE DEF job
    <3>4. Append(q["ongoingPPQ"], job) \in Seq(Jobs)
      BY <3>2, JobsOfQueue, Appended DEF Queues
    <3>5. q' \in [Queues -> Seq(Jobs)]
      BY <3>1, <3>3, <3>4 DEF PostTypes, Queues
    <3>6. proc' \in [pc : {"idle"} \cup WorkPcs \cup StopPcs, job : Jobs]
      BY <3>2, <3>3, ProcSet DEF WorkPcs
    <3> QED
      BY <1>12, <3>5, <3>6 DEF NextPPJob, PostTypes
  <2> QED
    BY <2>1, <2>2
<1>13. CASE Reprocess
  <2>1. proc.job \in Jobs /\ <<proc.job.src[1], proc.job.count>> \in Frames
    BY DEF PostTypes, Jobs, Frames
  <2>2. proc' \in [pc : {"idle"} \cup WorkPcs \cup StopPcs, job : Jobs]
    BY <1>13, ProcSet, NoJobTyped DEF Reprocess, GoTo, WorkPcs
  <2>3. daemon' \in Seq(Frames)
    <3>1. Append(daemon, <<proc.job.src[1], proc.job.count>>) \in Seq(Frames) /\ daemon \in Seq(Frames)
      BY <2>1, AppendProperties DEF PostTypes
    <3> QED
      BY <1>13, <3>1 DEF Reprocess
  <2>4. /\ received' \subseteq Frames /\ heap' \subseteq Frames /\ back' \subseteq Frames
        /\ twice' \in BOOLEAN
    BY <1>13, <2>1, FramesTyped, Freed DEF Reprocess, Release, NoneReleased, PostTypes
  <2> QED
    <3>1. dangling' \in BOOLEAN
      BY <1>13 DEF Reprocess, PostTypes
    <3> QED
      BY <1>13, <2>2, <2>3, <2>4, <3>1 DEF Reprocess, PostTypes
<1>14. CASE StopCapture
  <2>1. proc' \in [pc : {"idle"} \cup WorkPcs \cup StopPcs, job : Jobs]
    BY <1>14, ProcSet, NoJobTyped DEF StopCapture, GoTo
  <2>2. stopCap' \in BOOLEAN
    BY <1>14 DEF StopCapture
  <2> QED
    BY <1>14, <2>1, <2>2 DEF StopCapture, PostTypes
<1>15. CASE DropJob
  <2>1. cmds' \in Seq({"START", "DO", "STOP"})
    BY <1>15, CommandTaken DEF DropJob
  <2>2. q' \in [Queues -> Seq(Jobs)] /\ on' \in [Queues -> BOOLEAN]
    <3>1. CASE Has("inputJpegQ") /\ Pop("inputJpegQ")
      BY <3>1, JobsOfQueue, QueueSet DEF Has, Pop, Queues, PostTypes
    <3>2. CASE Flush("inputPPQ")
      BY <3>2, FlushTyped DEF Queues
    <3> QED
      BY <1>15, <3>1, <3>2 DEF DropJob
  <2>3. /\ received' \subseteq Frames /\ heap' \subseteq Frames /\ back' \subseteq Frames
        /\ twice' \in BOOLEAN
    <3>1. CASE Has("inputJpegQ") /\ Release("inputJpegQ", Head(q["inputJpegQ"]))
      BY <3>1, JobsOfQueue, FramesTyped, Freed DEF Has, Release, Queues
    <3>2. CASE Flush("inputPPQ")
      BY <3>2, FlushTyped DEF Queues
    <3> QED
      BY <1>15, <3>1, <3>2 DEF DropJob
  <2> QED
    BY <1>15, <2>1, <2>2, <2>3 DEF DropJob, PostTypes
<1>16. CASE StopData
  <2>1. cmds' \in Seq({"START", "DO", "STOP"})
    BY <1>16, CommandTaken DEF StopData
  <2>2. proc' \in [pc : {"idle"} \cup WorkPcs \cup StopPcs, job : Jobs]
    BY <1>16, ProcSet, NoJobTyped DEF StopData, GoTo, StopPcs
  <2> QED
    <3>1. active' \in BOOLEAN
      BY <1>16 DEF StopData
    <3> QED
      BY <1>16, <2>1, <2>2, <3>1 DEF StopData, PostTypes
<1>17. CASE AbortJob
  <2>1. CASE Has("ongoingJpegQ")
    <3>1. Head(q["ongoingJpegQ"]) \in Jobs /\ Tail(q["ongoingJpegQ"]) \in Seq(Jobs)
      BY <2>1, JobsOfQueue DEF Has, Queues
    <3>2. proc' \in [pc : {"idle"} \cup WorkPcs \cup StopPcs, job : Jobs]
      BY <1>17, <2>1, <3>1, ProcSet DEF AbortJob, StopPcs
    <3>3. q' \in [Queues -> Seq(Jobs)]
      BY <1>17, <2>1, <3>1, QueueSet DEF AbortJob, Pop, Queues
    <3> QED
      BY <1>17, <2>1, <3>2, <3>3 DEF AbortJob, Pop, PostTypes
  <2>2. CASE ~Has("ongoingJpegQ")
    <3>1. proc' \in [pc : {"idle"} \cup WorkPcs \cup StopPcs, job : Jobs]
      BY <1>17, <2>2, ProcSet, NoJobTyped DEF AbortJob, GoTo, StopPcs
    <3> QED
      BY <1>17, <2>2, <3>1 DEF AbortJob, PostTypes
  <2> QED
    BY <2>1, <2>2
<1>18. CASE ReleaseJob
  <2>1. proc' \in [pc : {"idle"} \cup WorkPcs \cup StopPcs, job : Jobs]
    BY <1>18, ProcSet, NoJobTyped DEF ReleaseJob, GoTo, StopPcs
  <2>2. /\ received' \subseteq Frames /\ heap' \subseteq Frames /\ back' \subseteq Frames
        /\ twice' \in BOOLEAN
    BY <1>18, FramesTyped, Freed DEF ReleaseJob, Release, PostTypes
  <2> QED
    BY <1>18, <2>1, <2>2 DEF ReleaseJob, PostTypes
<1>19. CASE \/ FlushQueue("ongoingPPQ", "inputJpegQ") \/ FlushQueue("inputJpegQ", "inputPPQ") \/ FlushQueue("inputPPQ", "stopped")
  <2>1. PICK n \in Queues, then \in StopPcs : FlushQueue(n, then)
    BY <1>19 DEF Queues, StopPcs
  <2>2. proc' \in [pc : {"idle"} \cup WorkPcs \cup StopPcs, job : Jobs]
    BY <2>1, ProcSet, NoJobTyped DEF FlushQueue, GoTo
  <2>3. /\ q' \in [Queues -> Seq(Jobs)] /\ on' \in [Queues -> BOOLEAN]
        /\ received' \subseteq Frames /\ heap' \subseteq Frames /\ back' \subseteq Frames
        /\ twice' \in BOOLEAN
    BY <2>1, FlushTyped DEF FlushQueue
  <2> QED
    BY <2>1, <2>2, <2>3 DEF FlushQueue, PostTypes
<1>20. CASE StopDone
  <2>1. proc' \in [pc : {"idle"} \cup WorkPcs \cup StopPcs, job : Jobs]
    BY <1>20, ProcSet, NoJobTyped DEF StopDone, GoTo
  <2> QED
    BY <1>20, <2>1 DEF StopDone, PostTypes
<1>21. CASE PPFrame
  <2>1. Head(daemon) \in Frames /\ daemon' \in Seq(Frames)
    BY <1>21, HeadTailProperties DEF PPFrame, PostTypes
  <2>2. pp' \in [pc : {"idle", "wait", "job", "send"}, frame : Frames, job : Jobs]
    BY <1>21, <2>1, NoJobTyped DEF PPFrame
  <2> QED
    BY <1>21, <2>1, <2>2 DEF PPFrame, Receive, PostTypes
<1>22. CASE TakePPJob
  <2>1. CASE Has("ongoingPPQ")
    <3>1. Head(q["ongoingPPQ"]) \in Jobs /\ Tail(q["ongoingPPQ"]) \in Seq(Jobs)
      BY <2>1, JobsOfQueue DEF Has, Queues
    <3>2. pp' \in [pc : {"idle", "wait", "job", "send"}, frame : Frames, job : Jobs]
      BY <1>22, <2>1, <3>1 DEF TakePPJob, PostTypes
    <3>3. q' \in [Queues -> Seq(Jobs)]
      BY <1>22, <2>1, <3>1, QueueSet DEF TakePPJob, Pop, Queues
    <3> QED
      BY <1>22, <2>1, <3>2, <3>3 DEF TakePPJob, Pop, NoneReleased, PostTypes
  <2>2. CASE ~Has("ongoingPPQ")
    BY <1>22, <2>2, NoJobTyped DEF TakePPJob, PPIdle, PostTypes
  <2> QED
    BY <2>1, <2>2
<1>23. CASE ProcessPPData
  <2> DEFINE job == [pp.job EXCEPT !.src = pp.frame]
             to  == IF pp.job.count < mode.passes THEN "inputPPQ" ELSE "inputJpegQ"
  <2>1. job \in Jobs /\ to \in Queues /\ PassDone(pp.job) \subseteq Frames
    BY DEF PostTypes, Jobs, Queues, PassDone
  <2>2. \/ /\ Put(to, job) /\ GiveBack(PassDone(pp.job), PassDone(pp.job))
           /\ pp' = [pp EXCEPT !.pc = "send", !.job = NoJob]
        \/ /\ PPIdle /\ UNCHANGED queueVars
           /\ GiveBack(PassDone(pp.job) \cup FramesOf(job), PassDone(pp.job) \cup Returns(to, job))
    BY <1>23 DEF ProcessPPData
  <2> HIDE DEF job, to
  <2>3. pp' \in [pc : {"idle", "wait", "job", "send"}, frame : Frames, job : Jobs]
    <3>1. \/ pp' = [pp EXCEPT !.pc = "send", !.job = NoJob]
          \/ pp' = [pc |-> "idle", frame |-> NoFrame, job |-> NoJob]
      BY <2>2 DEF PPIdle
    <3>2. [pp EXCEPT !.pc = "send", !.job = NoJob]
             \in [pc : {"idle", "wait", "job", "send"}, frame : Frames, job : Jobs]
      BY NoJobTyped DEF PostTypes
    <3>3. [pc |-> "idle", frame |-> NoFrame, job |-> NoJob]
             \in [pc : {"idle", "wait", "job", "send"}, frame : Frames, job : Jobs]
      BY NoJobTyped
    <3> QED
      BY <3>1, <3>2, <3>3 DEF PostTypes
  <2>4. q' \in [Queues -> Seq(Jobs)] /\ on' = on
    <3>1. Append(q[to], job) \in Seq(Jobs)
      BY <2>1, JobsOfQueue, Appended
    <3> QED
      <4>1. on' = on /\ (q' = q \/ q' = [q EXCEPT ![to] = Append(q[to], job)])
        BY <2>2 DEF Put
      <4>2. [q EXCEPT ![to] = Append(q[to], job)] \in [Queues -> Seq(Jobs)]
        BY <2>1, <3>1, QueueSet
      <4>3. q \in [Queues -> Seq(Jobs)]
        BY DEF PostTypes
      <4> QED
        BY <4>1, <4>2, <4>3
  <2>5. /\ received' \subseteq Frames /\ heap' \subseteq Frames /\ back' \subseteq Frames
        /\ twice' \in BOOLEAN
    <3>1. PassDone(pp.job) \cup Returns(to, job) \subseteq Frames
      BY <2>1, FramesTyped
    <3> QED
      BY <2>1, <2>2, <3>1, Freed
  <2> QED
    BY <1>23, <2>3, <2>4, <2>5 DEF ProcessPPData, PostTypes
<1>24. CASE PPSend
  <2>1. cmds' \in Seq({"START", "DO", "STOP"})
    BY <1>24, CommandSent DEF PPSend
  <2> QED
    BY <1>24, <2>1, NoJobTyped DEF PPSend, PPIdle, PostTypes
<1>25. CASE EncodeDone
  <2>1. PICK e \in enc : enc' = enc \ {e} /\ evts' = Append(evts, [id |-> e.id, pic |-> e.src[1]])
    BY <1>25 DEF EncodeDone
  <2>2. [id |-> e.id, pic |-> e.src[1]] \in [id : Nat, pic : Nat]
    BY DEF PostTypes, Frames
  <2>3. evts' \in Seq([id : Nat, pic : Nat])
    BY <2>1, <2>2, AppendProperties DEF PostTypes
  <2> QED
    BY <1>25, <2>1, <2>3 DEF EncodeDone, PostTypes
<1>26. CASE JpegEvent
  <2>1. evts' \in Seq([id : Nat, pic : Nat])
    BY <1>26, HeadTailProperties DEF JpegEvent, PostTypes
  <2>2. cmds' \in Seq({"START", "DO", "STOP"})
    <3>1. <<"DO">> \in Seq({"START", "DO", "STOP"}) /\ <<"DO", "DO">> \in Seq({"START", "DO", "STOP"})
      OBVIOUS
    <3> QED
      <4>1. cmds \in Seq({"START", "DO", "STOP"})
        BY DEF PostTypes
      <4>2. \/ cmds' = cmds \/ cmds' = cmds \o <<"DO">> \/ cmds' = cmds \o <<"DO", "DO">>
        BY <1>26 DEF JpegEvent
      <4> QED
        BY <3>1, <4>1, <4>2, ConcatProperties
  <2>3. CASE NoneReleased /\ q' = q
    BY <1>26, <2>1, <2>2, <2>3, SMTT(40) DEF JpegEvent, NoneReleased, PostTypes
  <2>4. CASE \E i \in DOMAIN OJ : Release("ongoingJpegQ", OJ[i])
                                  /\ q' = [q EXCEPT !["ongoingJpegQ"] = RemoveAt(@, i)]
    <3>1. PICK i \in DOMAIN OJ : /\ Release("ongoingJpegQ", OJ[i])
                                 /\ q' = [q EXCEPT !["ongoingJpegQ"] = RemoveAt(@, i)]
      BY <2>4
    <3>2. OJ \in Seq(Jobs) /\ OJ[i] \in Jobs
      BY JobsOfQueue DEF OJ, Queues
    <3>3. q' \in [Queues -> Seq(Jobs)]
      BY <3>1, <3>2, RemovedAt, QueueSet DEF OJ, Queues
    <3>4. /\ received' \subseteq Frames /\ heap' \subseteq Frames /\ back' \subseteq Frames
          /\ twice' \in BOOLEAN
      BY <3>1, <3>2, FramesTyped, Freed DEF Release
    <3> QED
      BY <1>26, <2>1, <2>2, <3>3, <3>4 DEF JpegEvent, PostTypes
  <2> QED
    BY <1>26, <2>3, <2>4, EventEffect
<1>27. CASE StopCaptureChannel
  <2>1. left' = left \/ left' = 0
    BY <1>27 DEF StopCaptureChannel
  <2>2. left' \in Nat
    BY <2>1 DEF PostTypes
  <2>3. stopCap' \in BOOLEAN
    BY <1>27 DEF StopCaptureChannel
  <2> QED
    BY <1>27, <2>2, <2>3 DEF StopCaptureChannel, PostTypes
<1>28. CASE CancelPicture
  <2>1. cmds' \in Seq({"START", "DO", "STOP"})
    <3>1. <<"STOP">> \in Seq({"START", "DO", "STOP"})
      OBVIOUS
    <3> QED
      BY <1>28, <3>1, ConcatProperties DEF CancelPicture, PostTypes
  <2> QED
    BY <1>28, <2>1 DEF CancelPicture, PostTypes
<1>29. CASE JoinPP
  <2>1. daemon' \in Seq(Frames)
    BY <1>29, EmptySeq DEF JoinPP
  <2> QED
    BY <1>29, <2>1 DEF JoinPP, PostTypes
<1>30. CASE JoinCapture
  BY <1>30 DEF JoinCapture, PostTypes
<1>31. CASE UNCHANGED vars
  BY <1>31 DEF vars, PostTypes
<1> QED
  BY <1>1, <1>2, <1>3, <1>4, <1>5, <1>6, <1>7, <1>8, <1>9, <1>10, <1>11, <1>12, <1>13, <1>14, <1>15, <1>16, <1>17, <1>18, <1>19, <1>20, <1>21, <1>22, <1>23, <1>24, <1>25, <1>26, <1>27, <1>28, <1>29, <1>30, <1>31
     DEF Next, Deferred, Capture, DataProcess, PostCapture, Stopping

(* Records are updated field by field. *)
LEMMA ThreadRecords ==
  ASSUME PostTypes
  PROVE  /\ proc = [pc |-> proc.pc, job |-> proc.job] /\ proc.job \in Jobs
         /\ proc.pc \in {"idle"} \cup WorkPcs \cup StopPcs
         /\ cap = [pc |-> cap.pc, frame |-> cap.frame] /\ cap.frame \in Frames
         /\ cap.pc \in {"idle", "wait", "send"}
         /\ pp = [pc |-> pp.pc, frame |-> pp.frame, job |-> pp.job]
         /\ pp.pc \in {"idle", "wait", "job", "send"} /\ pp.frame \in Frames /\ pp.job \in Jobs
BY DEF PostTypes

(* The commands after an event, and after a cancel. *)
LEMMA CommandsAdded ==
  ASSUME PostTypes, JpegEvent
  PROVE  /\ Len(cmds) \in Nat /\ Len(cmds') \in Nat /\ Len(cmds') >= Len(cmds)
         /\ DOMAIN cmds = 1 .. Len(cmds) /\ DOMAIN cmds' = 1 .. Len(cmds')
         /\ \A i \in 1 .. Len(cmds) : cmds'[i] = cmds[i]
         /\ \A i \in 1 .. Len(cmds') : i \notin 1 .. Len(cmds) => cmds'[i] = "DO"
         /\ cmds # <<>> => 1 \in 1 .. Len(cmds) /\ cmds' # <<>>
<1>1. cmds \in Seq({"START", "DO", "STOP"})
  BY DEF PostTypes
<1>2. /\ <<"DO">> \in Seq({"START", "DO", "STOP"}) /\ Len(<<"DO">>) = 1
      /\ <<"DO", "DO">> \in Seq({"START", "DO", "STOP"}) /\ Len(<<"DO", "DO">>) = 2
      /\ <<"DO">>[1] = "DO" /\ <<"DO", "DO">>[1] = "DO" /\ <<"DO", "DO">>[2] = "DO"
  OBVIOUS
<1>3. CASE cmds' = cmds
  BY <1>1, <1>3, EmptySeq
<1>4. CASE cmds' = cmds \o <<"DO">>
  BY <1>1, <1>2, <1>4, ConcatProperties, EmptySeq
<1>5. CASE cmds' = cmds \o <<"DO", "DO">>
  BY <1>1, <1>2, <1>5, ConcatProperties, EmptySeq
<1> QED
  BY <1>3, <1>4, <1>5 DEF JpegEvent

LEMMA StopQueued ==
  ASSUME PostTypes, CancelPicture
  PROVE  /\ Len(cmds) \in Nat /\ Len(cmds') = Len(cmds) + 1 /\ cmds' # <<>>
         /\ DOMAIN cmds = 1 .. Len(cmds) /\ DOMAIN cmds' = 1 .. Len(cmds')
         /\ cmds'[1] = "STOP"
         /\ \A i \in 1 .. Len(cmds) : cmds'[i + 1] = cmds[i]
<1>1. cmds \in Seq({"START", "DO", "STOP"})
  BY DEF PostTypes
<1>2. /\ <<"STOP">> \in Seq({"START", "DO", "STOP"}) /\ Len(<<"STOP">>) = 1
      /\ <<"STOP">>[1] = "STOP"
  OBVIOUS
<1>3. cmds' = <<"STOP">> \o cmds
  BY DEF CancelPicture
<1> QED
  BY <1>1, <1>2, <1>3, ConcatProperties

LEMMA PhaseKept ==
  ASSUME PostTypes, PhaseInv, [Next]_vars
  PROVE  PhaseInv'
<1> USE DEF queueVars, threadVars, takeVars, eventVars, frameVars
<1>0. /\ proc = [pc |-> proc.pc, job |-> proc.job] /\ cap = [pc |-> cap.pc, frame |-> cap.frame]
      /\ pp = [pc |-> pp.pc, frame |-> pp.frame, job |-> pp.job]
      /\ proc.pc \in {"idle"} \cup WorkPcs \cup StopPcs
  BY ThreadRecords
<1>1. CASE \E m \in Modes : TakePicture(m)
  BY <1>1, <1>0 DEF TakePicture, PhaseInv, WorkPcs, StopPcs
<1>2. CASE DefStart
  <2>1. CASE Send("START") /\ def' = "wait"
    <3>1. /\ Len(cmds) \in Nat /\ Len(cmds') = Len(cmds) + 1 /\ cmds' # <<>>
          /\ DOMAIN cmds = 1 .. Len(cmds) /\ DOMAIN cmds' = 1 .. Len(cmds')
          /\ \A i \in 1 .. Len(cmds) : cmds'[i] = cmds[i]
          /\ cmds'[Len(cmds) + 1] = "START"
      BY <1>2, <2>1, CommandSent DEF DefStart, PostTypes
    <3> QED
      BY <1>2, <2>1, <1>0, <3>1 DEF DefStart, PhaseInv, WorkPcs, StopPcs
  <2>2. CASE cmds' = cmds /\ def' = "failed"
    BY <1>2, <1>0, <2>2 DEF DefStart, PhaseInv, WorkPcs, StopPcs
  <2> QED
    BY <1>2, <2>1, <2>2 DEF DefStart
<1>3. CASE DefSession
  BY <1>3, <1>0 DEF DefSession, PhaseInv, WorkPcs, StopPcs
<1>4. CASE CapFrame
  BY <1>4, <1>0 DEF CapFrame, PhaseInv, WorkPcs, StopPcs
<1>5. CASE ProcessData
  BY <1>5, <1>0 DEF ProcessData, CapIdle, PhaseInv, WorkPcs, StopPcs
<1>6. CASE CapSend
  <2>1. /\ Len(cmds) \in Nat /\ Len(cmds') = Len(cmds) + 1 /\ cmds' # <<>>
        /\ DOMAIN cmds = 1 .. Len(cmds) /\ DOMAIN cmds' = 1 .. Len(cmds')
        /\ \A i \in 1 .. Len(cmds) : cmds'[i] = cmds[i]
        /\ cmds'[Len(cmds) + 1] = "DO"
    BY <1>6, CommandSent DEF CapSend, PostTypes
  <2> QED
    BY <1>6, <1>0, <2>1 DEF CapSend, CapIdle, PhaseInv, WorkPcs, StopPcs
<1>7. CASE CapRefused
  BY <1>7, <1>0 DEF CapRefused, CapIdle, PhaseInv, WorkPcs, StopPcs
<1>8. CASE StartData
  <2>1. /\ Len(cmds) \in Nat /\ Len(cmds') = Len(cmds) - 1 /\ Len(cmds) > 0
        /\ DOMAIN cmds = 1 .. Len(cmds) /\ DOMAIN cmds' = 1 .. Len(cmds')
        /\ \A i \in 1 .. Len(cmds) - 1 : cmds'[i] = cmds[i + 1]
        /\ proc.pc = "idle" /\ cmds[1] = "START"
    BY <1>8, CommandTaken DEF StartData, PostTypes
  <2> QED
    BY <1>8, <1>0, <2>1 DEF StartData, PhaseInv, WorkPcs, StopPcs
<1>9. CASE NextJpegJob
  <2>1. /\ Len(cmds) \in Nat /\ Len(cmds') = Len(cmds) - 1 /\ Len(cmds) > 0
        /\ DOMAIN cmds = 1 .. Len(cmds) /\ DOMAIN cmds' = 1 .. Len(cmds')
        /\ \A i \in 1 .. Len(cmds) - 1 : cmds'[i] = cmds[i + 1]
        /\ proc.pc = "idle" /\ cmds[1] = "DO"
    BY <1>9, CommandTaken DEF NextJpegJob, PostTypes
  <2>2. proc'.pc \in {"encode", "reprocess"}
    BY <1>9 DEF NextJpegJob, GoTo
  <2> QED
    BY <1>9, <1>0, <2>1, <2>2 DEF NextJpegJob, GoTo, PhaseInv, WorkPcs, StopPcs
<1>10. CASE StartJob
  BY <1>10, <1>0 DEF StartJob, At, GoTo, PhaseInv, WorkPcs, StopPcs
<1>11. CASE NoteJobId
  BY <1>11, <1>0 DEF NoteJobId, At, GoTo, PhaseInv, WorkPcs, StopPcs
<1>12. CASE NextPPJob
  BY <1>12, <1>0 DEF NextPPJob, At, GoTo, PhaseInv, WorkPcs, StopPcs
<1>13. CASE Reprocess
  BY <1>13, <1>0 DEF Reprocess, At, GoTo, PhaseInv, WorkPcs, StopPcs
<1>14. CASE StopCapture
  BY <1>14, <1>0 DEF StopCapture, At, GoTo, PhaseInv, WorkPcs, StopPcs
<1>15. CASE DropJob
  <2>1. /\ Len(cmds) \in Nat /\ Len(cmds') = Len(cmds) - 1 /\ Len(cmds) > 0
        /\ DOMAIN cmds = 1 .. Len(cmds) /\ DOMAIN cmds' = 1 .. Len(cmds')
        /\ \A i \in 1 .. Len(cmds) - 1 : cmds'[i] = cmds[i + 1]
        /\ proc.pc = "idle" /\ cmds[1] = "DO"
    BY <1>15, CommandTaken DEF DropJob, PostTypes
  <2> QED
    BY <1>15, <1>0, <2>1 DEF DropJob, PhaseInv, WorkPcs, StopPcs
<1>16. CASE StopData
  <2>1. /\ Len(cmds) \in Nat /\ Len(cmds') = Len(cmds) - 1 /\ Len(cmds) > 0
        /\ DOMAIN cmds = 1 .. Len(cmds) /\ DOMAIN cmds' = 1 .. Len(cmds')
        /\ \A i \in 1 .. Len(cmds) - 1 : cmds'[i] = cmds[i + 1]
        /\ proc.pc = "idle" /\ cmds[1] = "STOP"
    BY <1>16, CommandTaken DEF StopData, PostTypes
  <2> QED
    BY <1>16, <1>0, <2>1 DEF StopData, GoTo, PhaseInv, WorkPcs, StopPcs
<1>17. CASE AbortJob
  BY <1>17, <1>0 DEF AbortJob, At, GoTo, PhaseInv, WorkPcs, StopPcs
<1>18. CASE ReleaseJob
  BY <1>18, <1>0 DEF ReleaseJob, At, GoTo, PhaseInv, WorkPcs, StopPcs
<1>19. CASE \/ FlushQueue("ongoingPPQ", "inputJpegQ") \/ FlushQueue("inputJpegQ", "inputPPQ") \/ FlushQueue("inputPPQ", "stopped")
  <2>1. proc.pc \in StopPcs /\ proc'.pc \in StopPcs
    BY <1>19 DEF FlushQueue, At, GoTo, StopPcs
  <2> QED
    BY <1>19, <1>0, <2>1 DEF FlushQueue, PhaseInv, WorkPcs, StopPcs
<1>20. CASE StopDone
  BY <1>20, <1>0 DEF StopDone, At, GoTo, PhaseInv, WorkPcs, StopPcs
<1>21. CASE PPFrame
  BY <1>21, <1>0 DEF PPFrame, PhaseInv, WorkPcs, StopPcs
<1>22. CASE TakePPJob
  BY <1>22, <1>0 DEF TakePPJob, PPIdle, PhaseInv, WorkPcs, StopPcs
<1>23. CASE ProcessPPData
  BY <1>23, <1>0 DEF ProcessPPData, PPIdle, PhaseInv, WorkPcs, StopPcs
<1>24. CASE PPSend
  <2>1. /\ Len(cmds) \in Nat /\ Len(cmds') = Len(cmds) + 1 /\ cmds' # <<>>
        /\ DOMAIN cmds = 1 .. Len(cmds) /\ DOMAIN cmds' = 1 .. Len(cmds')
        /\ \A i \in 1 .. Len(cmds) : cmds'[i] = cmds[i]
        /\ cmds'[Len(cmds) + 1] = "DO"
    BY <1>24, CommandSent DEF PPSend, PostTypes
  <2> QED
    BY <1>24, <1>0, <2>1, SMTT(40) DEF PPSend, PPIdle, PhaseInv, WorkPcs, StopPcs
<1>25. CASE EncodeDone
  BY <1>25, <1>0 DEF EncodeDone, PhaseInv, WorkPcs, StopPcs
<1>26. CASE JpegEvent
  BY <1>26, <1>0, CommandsAdded, ZenonT(60) DEF JpegEvent, PhaseInv, WorkPcs, StopPcs
<1>27. CASE StopCaptureChannel
  BY <1>27, <1>0 DEF StopCaptureChannel, PhaseInv, WorkPcs, StopPcs
<1>28. CASE CancelPicture
  BY <1>28, <1>0, StopQueued DEF CancelPicture, PhaseInv, WorkPcs, StopPcs
<1>29. CASE JoinPP
  BY <1>29, <1>0 DEF JoinPP, PhaseInv, WorkPcs, StopPcs
<1>30. CASE JoinCapture
  BY <1>30, <1>0 DEF JoinCapture, PhaseInv, WorkPcs, StopPcs
<1>31. CASE UNCHANGED vars
  BY <1>31 DEF vars, PhaseInv
<1> QED
  BY <1>1, <1>2, <1>3, <1>4, <1>5, <1>6, <1>7, <1>8, <1>9, <1>10, <1>11, <1>12, <1>13, <1>14, <1>15, <1>16, <1>17, <1>18, <1>19, <1>20, <1>21, <1>22, <1>23, <1>24, <1>25, <1>26, <1>27, <1>28, <1>29, <1>30, <1>31
     DEF Next, Deferred, Capture, DataProcess, PostCapture, Stopping

LEMMA QueueKept ==
  ASSUME PostTypes, PhaseInv, QueueInv, [Next]_vars
  PROVE  QueueInv'
<1> USE DEF queueVars, threadVars, takeVars, eventVars, frameVars
<1>0. /\ proc = [pc |-> proc.pc, job |-> proc.job] /\ q \in [Queues -> Seq(Jobs)]
      /\ proc.pc \in {"idle"} \cup WorkPcs \cup StopPcs /\ on \in [Queues -> BOOLEAN]
  BY ThreadRecords DEF PostTypes
<1>1. CASE \E m \in Modes : TakePicture(m)
  BY <1>1, <1>0 DEF TakePicture, PhaseInv, QueueInv, PPFlushed, Flushed, WorkPcs, StopPcs, Queues
<1>2. CASE DefStart
  BY <1>2, <1>0 DEF DefStart, PhaseInv, QueueInv, PPFlushed, Flushed, WorkPcs, StopPcs, Queues
<1>3. CASE DefSession
  BY <1>3, <1>0 DEF DefSession, PhaseInv, QueueInv, PPFlushed, Flushed, WorkPcs, StopPcs, Queues
<1>4. CASE CapFrame
  BY <1>4, <1>0 DEF CapFrame, PhaseInv, QueueInv, PPFlushed, Flushed, WorkPcs, StopPcs, Queues
<1>5. CASE ProcessData
  <2>1. on' = on /\ \A m \in Queues : q'[m] = q[m] \/ (on[m] /\ m \in {"inputPPQ", "inputJpegQ"})
    BY <1>5, <1>0, JobTyped DEF ProcessData, Put, Input, Queues
  <2> QED
    BY <1>5, <1>0, <2>1 DEF ProcessData, PhaseInv, QueueInv, PPFlushed, Flushed, WorkPcs, StopPcs, Queues
<1>6. CASE CapSend
  BY <1>6, <1>0 DEF CapSend, CapIdle, PhaseInv, QueueInv, PPFlushed, Flushed, WorkPcs, StopPcs, Queues
<1>7. CASE CapRefused
  BY <1>7, <1>0 DEF CapRefused, CapIdle, PhaseInv, QueueInv, PPFlushed, Flushed, WorkPcs, StopPcs, Queues
<1>8. CASE StartData
  <2>1. /\ cmds # <<>> /\ cmds[1] = "START" /\ proc.pc = "idle" /\ 1 \in DOMAIN cmds
    BY <1>8, CommandTaken, EmptySeq DEF StartData, PostTypes
  <2>2. def = "wait" /\ sm = "idle" /\ ~active
    BY <2>1 DEF PhaseInv
  <2> QED
    BY <1>8, <1>0, <2>1, <2>2 DEF StartData, PhaseInv, QueueInv, PPFlushed, Flushed, WorkPcs, StopPcs, Queues
<1>9. CASE NextJpegJob
  BY <1>9, <1>0 DEF NextJpegJob, Command, At, GoTo, Has, PhaseInv, QueueInv, PPFlushed, Flushed, WorkPcs, StopPcs, Queues
<1>10. CASE StartJob
  BY <1>10, <1>0 DEF StartJob, At, GoTo, PhaseInv, QueueInv, PPFlushed, Flushed, WorkPcs, StopPcs, Queues
<1>11. CASE NoteJobId
  BY <1>11, <1>0 DEF NoteJobId, At, GoTo, PhaseInv, QueueInv, PPFlushed, Flushed, WorkPcs, StopPcs, Queues
<1>12. CASE NextPPJob
  BY <1>12, <1>0 DEF NextPPJob, At, GoTo, Has, PhaseInv, QueueInv, PPFlushed, Flushed, WorkPcs, StopPcs, Queues
<1>13. CASE Reprocess
  BY <1>13, <1>0 DEF Reprocess, At, GoTo, PhaseInv, QueueInv, PPFlushed, Flushed, WorkPcs, StopPcs, Queues
<1>14. CASE StopCapture
  BY <1>14, <1>0 DEF StopCapture, At, GoTo, PhaseInv, QueueInv, PPFlushed, Flushed, WorkPcs, StopPcs, Queues
<1>15. CASE DropJob
  BY <1>15, <1>0 DEF DropJob, Command, At, Pop, Flush, Has, PhaseInv, QueueInv, PPFlushed, Flushed, WorkPcs, StopPcs, Queues
<1>16. CASE StopData
  BY <1>16, <1>0 DEF StopData, Command, At, GoTo, PhaseInv, QueueInv, PPFlushed, Flushed, WorkPcs, StopPcs, Queues
<1>17. CASE AbortJob
  BY <1>17, <1>0 DEF AbortJob, At, GoTo, Pop, Has, PhaseInv, QueueInv, PPFlushed, Flushed, WorkPcs, StopPcs, Queues
<1>18. CASE ReleaseJob
  BY <1>18, <1>0 DEF ReleaseJob, At, GoTo, PhaseInv, QueueInv, PPFlushed, Flushed, WorkPcs, StopPcs, Queues
<1>19. CASE \/ FlushQueue("ongoingPPQ", "inputJpegQ") \/ FlushQueue("inputJpegQ", "inputPPQ") \/ FlushQueue("inputPPQ", "stopped")
  <2>1. PICK n \in {"ongoingPPQ", "inputJpegQ", "inputPPQ"}, then \in StopPcs :
           /\ FlushQueue(n, then)
           /\ n = "ongoingPPQ" => then = "inputJpegQ"
           /\ n = "inputJpegQ" => then = "inputPPQ"
           /\ n = "inputPPQ" => then = "stopped"
    BY <1>19 DEF StopPcs
  <2>2. proc.pc = n /\ proc'.pc = then
    BY <2>1 DEF FlushQueue, At, GoTo
  <2>3. /\ \A m \in Queues : m # n => q'[m] = q[m] /\ on'[m] = on[m]
        /\ ~on'[n] /\ (on[n] => q'[n] = <<>>) /\ (~on[n] => q'[n] = q[n])
    BY <1>0, <2>1 DEF FlushQueue, Flush, Queues
  <2> QED
    BY <1>0, <2>1, <2>2, <2>3 DEF FlushQueue, PhaseInv, QueueInv, PPFlushed, Flushed, WorkPcs, StopPcs, Queues
<1>20. CASE StopDone
  BY <1>20, <1>0 DEF StopDone, At, GoTo, PhaseInv, QueueInv, PPFlushed, Flushed, WorkPcs, StopPcs, Queues
<1>21. CASE PPFrame
  BY <1>21, <1>0 DEF PPFrame, PhaseInv, QueueInv, PPFlushed, Flushed, WorkPcs, StopPcs, Queues
<1>22. CASE TakePPJob
  BY <1>22, <1>0 DEF TakePPJob, PPIdle, Pop, Has, PhaseInv, QueueInv, PPFlushed, Flushed, WorkPcs, StopPcs, Queues
<1>23. CASE ProcessPPData
  <2>1. on' = on /\ \A m \in Queues : q'[m] = q[m] \/ (on[m] /\ m \in {"inputPPQ", "inputJpegQ"})
    BY <1>23, <1>0 DEF ProcessPPData, Put, Queues
  <2> QED
    BY <1>23, <1>0, <2>1 DEF ProcessPPData, PPIdle, PhaseInv, QueueInv, PPFlushed, Flushed, WorkPcs, StopPcs, Queues
<1>24. CASE PPSend
  BY <1>24, <1>0 DEF PPSend, PPIdle, PhaseInv, QueueInv, PPFlushed, Flushed, WorkPcs, StopPcs, Queues
<1>25. CASE EncodeDone
  BY <1>25, <1>0 DEF EncodeDone, PhaseInv, QueueInv, PPFlushed, Flushed, WorkPcs, StopPcs, Queues
<1>26. CASE JpegEvent
  <2>1. on' = on /\ \A m \in Queues : m # "ongoingJpegQ" => q'[m] = q[m]
    BY <1>26, <1>0, EventEffect DEF JpegEvent, Queues
  <2>2. q["ongoingJpegQ"] = <<>> => q' = q
    BY <1>26, EventEffect DEF OJ
  <2> QED
    BY <1>26, <1>0, <2>1, <2>2 DEF JpegEvent, PhaseInv, QueueInv, PPFlushed, Flushed, WorkPcs, StopPcs, Queues
<1>27. CASE StopCaptureChannel
  BY <1>27, <1>0 DEF StopCaptureChannel, PhaseInv, QueueInv, PPFlushed, Flushed, WorkPcs, StopPcs, Queues
<1>28. CASE CancelPicture
  BY <1>28, <1>0 DEF CancelPicture, PhaseInv, QueueInv, PPFlushed, Flushed, WorkPcs, StopPcs, Queues
<1>29. CASE JoinPP
  BY <1>29, <1>0 DEF JoinPP, PhaseInv, QueueInv, PPFlushed, Flushed, WorkPcs, StopPcs, Queues
<1>30. CASE JoinCapture
  BY <1>30, <1>0 DEF JoinCapture, PhaseInv, QueueInv, PPFlushed, Flushed, WorkPcs, StopPcs, Queues
<1>31. CASE UNCHANGED vars
  BY <1>31 DEF vars, QueueInv, PPFlushed, Flushed
<1> QED
  BY <1>1, <1>2, <1>3, <1>4, <1>5, <1>6, <1>7, <1>8, <1>9, <1>10, <1>11, <1>12, <1>13, <1>14, <1>15, <1>16, <1>17, <1>18, <1>19, <1>20, <1>21, <1>22, <1>23, <1>24, <1>25, <1>26, <1>27, <1>28, <1>29, <1>30, <1>31
     DEF Next, Deferred, Capture, DataProcess, PostCapture, Stopping

(* The jobs of the encoder's queue are typed and have their places. *)
LEMMA JobsInHand ==
  ASSUME PostTypes
  PROVE  /\ OJ \in Seq(Jobs) /\ Len(OJ) \in Nat /\ DOMAIN OJ = 1 .. Len(OJ)
         /\ \A i \in DOMAIN OJ : OJ[i] \in Jobs
BY JobsOfQueue DEF OJ, Queues

LEMMA EventsInHand ==
  ASSUME PostTypes
  PROVE  evts \in Seq([id : Nat, pic : Nat]) /\ Len(evts) \in Nat /\ DOMAIN evts = 1 .. Len(evts)
BY DEF PostTypes

(* Nothing that the encoder's bookkeeping is about changes. *)
LEMMA EncSame ==
  ASSUME EncInv, OJ' = OJ, enc' = enc, evts' = evts, lastId' = lastId,
         Encoding' <=> Encoding, Encoding => proc' = proc, Unnumbered'
  PROVE  EncInv'
<1>1. proc'.pc = "note" <=> proc.pc = "note"
  BY DEF Encoding
<1>2. proc.pc = "note" => Encoding
  BY DEF Encoding
<1>3. EncOwned'
  BY <1>1, <1>2 DEF EncInv, EncOwned
<1>4. EventIds'
  BY DEF EncInv, EventIds
<1>5. LastJob'
  BY <1>1, <1>2 DEF EncInv, LastJob
<1>6. JobIds'
  BY DEF EncInv, JobIds
<1> QED
  BY <1>3, <1>4, <1>5, <1>6 DEF EncInv

LEMMA IdsOfTail ==
  ASSUME PostTypes, EncInv, NEW n \in Queues \ {"ongoingJpegQ"}, q[n] # <<>>, q'[n] = Tail(q[n])
  PROVE  \A i \in DOMAIN q'[n] : q'[n][i].id = 0
<1>1. /\ Tail(q[n]) \in Seq(Jobs) /\ Len(Tail(q[n])) = Len(q[n]) - 1
      /\ \A i \in 1 .. Len(q[n]) - 1 : Tail(q[n])[i] = q[n][i + 1]
      /\ DOMAIN q[n] = 1 .. Len(q[n]) /\ Len(q[n]) \in Nat
  BY JobsOfQueue
<1>2. \A i \in DOMAIN q[n] : q[n][i].id = 0
  BY DEF EncInv, Unnumbered
<1> QED
  BY <1>1, <1>2

LEMMA IdsOfAppend ==
  ASSUME PostTypes, EncInv, NEW n \in Queues \ {"ongoingJpegQ"}, NEW job \in Jobs, job.id = 0,
         q'[n] = Append(q[n], job)
  PROVE  \A i \in DOMAIN q'[n] : q'[n][i].id = 0
<1>1. q[n] \in Seq(Jobs) /\ DOMAIN q[n] = 1 .. Len(q[n]) /\ Len(q[n]) \in Nat
  BY JobsOfQueue
<1>2. \A i \in DOMAIN q[n] : q[n][i].id = 0
  BY DEF EncInv, Unnumbered
<1>3. /\ DOMAIN q'[n] = 1 .. Len(q[n]) + 1 /\ q'[n][Len(q[n]) + 1] = job
      /\ \A i \in 1 .. Len(q[n]) : q'[n][i] = q[n][i]
  BY <1>1, Appended
<1> QED
  BY <1>1, <1>2, <1>3

LEMMA IdsSame ==
  ASSUME EncInv, NEW n \in Queues \ {"ongoingJpegQ"}, q'[n] = q[n] \/ q'[n] = <<>>
  PROVE  \A i \in DOMAIN q'[n] : q'[n][i].id = 0
BY DEF EncInv, Unnumbered

(* The job of an event is taken out of the encoder's queue. *)
LEMMA EncRemoved ==
  ASSUME PostTypes, EncInv, NEW i \in DOMAIN OJ, OJ' = RemoveAt(OJ, i),
         \A n \in Queues \ {"ongoingJpegQ"} : q'[n] = q[n],
         OJ[i].id \in 1 .. lastId, \A e \in enc : e.id # OJ[i].id,
         enc' = enc, lastId' = lastId, proc' = proc, pp' = pp, EventIds'
  PROVE  EncInv'
<1>1. OJ \in Seq(Jobs) /\ DOMAIN OJ = 1 .. Len(OJ) /\ Len(OJ) \in Nat /\ lastId \in Nat
  BY JobsInHand DEF PostTypes
<1>2. PICK s : s = RemoveAt(OJ, i) /\ OJ' = s
  OBVIOUS
<1>3. /\ s \in Seq(Jobs) /\ Len(s) = Len(OJ) - 1 /\ i \in 1 .. Len(OJ)
      /\ \A k \in 1 .. Len(OJ) - 1 : s[k] = OJ[IF k < i THEN k ELSE k + 1]
  BY <1>1, <1>2, RemovedAt
<1>4. DOMAIN s = 1 .. Len(OJ) - 1
  BY <1>3
<1> DEFINE from(k) == IF k < i THEN k ELSE k + 1
           to(k)   == IF k < i THEN k ELSE k - 1
<1>5. ASSUME NEW k \in DOMAIN OJ, k # i
      PROVE  to(k) \in DOMAIN s /\ s[to(k)] = OJ[k]
  <2>1. CASE k < i
    BY <1>1, <1>3, <1>4, <2>1
  <2>2. CASE k > i
    <3>1. k - 1 \in 1 .. Len(OJ) - 1 /\ ~(k - 1 < i) /\ (k - 1) + 1 = k /\ ~(k < i)
      BY <1>1, <1>3, <2>2
    <3> QED
      BY <1>3, <1>4, <3>1
  <2> QED
    BY <1>1, <1>3, <1>5, <2>1, <2>2
<1>6. ASSUME NEW k \in DOMAIN s
      PROVE  from(k) \in DOMAIN OJ /\ s[k] = OJ[from(k)] /\ from(k) # i
  BY <1>1, <1>3, <1>4
<1>7. ASSUME NEW k \in DOMAIN s, NEW j \in DOMAIN s, from(k) = from(j)
      PROVE  k = j
  BY <1>1, <1>3, <1>4, <1>7
<1>8. ASSUME NEW k \in DOMAIN s, from(k) = Len(OJ)
      PROVE  k = Len(s)
  BY <1>1, <1>3, <1>4, <1>8
<1>9. ASSUME i < Len(OJ)
      PROVE  Len(s) > 0 /\ from(Len(s)) = Len(OJ)
  <2>1. i \in Nat /\ i > 0 /\ Len(s) = Len(OJ) - 1 /\ ~(Len(s) < i)
    BY <1>1, <1>3, <1>9
  <2> QED
    BY <1>1, <1>9, <2>1
<1> HIDE DEF from, to
<1>10. Encoding' <=> Encoding /\ proc.pc = proc'.pc
  BY DEF Encoding
<1>11. EncOwned'
  <2> SUFFICES ASSUME NEW e \in enc, NEW k \in DOMAIN OJ, OJ[k].id = e.id, OJ[k].src = e.src
               PROVE  \E j \in DOMAIN s : s[j].id = e.id /\ s[j].src = e.src
    BY <1>2, <1>10 DEF EncInv, EncOwned
  <2> QED
    BY <1>5
<1>12. Encoding => i < Len(OJ)
  <2>1. Encoding => OJ[Len(OJ)].id = 0
    BY DEF EncInv, LastJob
  <2> QED
    BY <1>1, <1>3, <2>1
<1>13. LastJob'
  <2>1. Encoding => Len(s) > 0 /\ Len(s) \in DOMAIN s /\ s[Len(s)] = OJ[Len(OJ)]
    BY <1>1, <1>3, <1>4, <1>6, <1>9, <1>12
  <2>2. proc.pc = "note" => \A k \in DOMAIN s : s[k].id # lastId
    BY <1>6 DEF EncInv, LastJob
  <2> QED
    BY <1>2, <1>10, <2>1, <2>2 DEF EncInv, LastJob
<1>14. JobIds'
  <2>1. \A k \in DOMAIN s : s[k].id \in 0 .. lastId
    BY <1>6 DEF EncInv, JobIds
  <2>2. \A k \in DOMAIN s : s[k].id = 0 => Encoding /\ k = Len(s)
    <3> SUFFICES ASSUME NEW k \in DOMAIN s, s[k].id = 0
                 PROVE  Encoding /\ k = Len(s)
      OBVIOUS
    <3>1. Encoding /\ from(k) = Len(OJ)
      BY <1>6 DEF EncInv, JobIds
    <3> QED
      BY <1>8, <3>1
  <2>3. \A k, j \in DOMAIN s : s[k].id = s[j].id => k = j
    <3> SUFFICES ASSUME NEW k \in DOMAIN s, NEW j \in DOMAIN s, s[k].id = s[j].id
                 PROVE  k = j
      OBVIOUS
    <3>1. from(k) = from(j)
      BY <1>6 DEF EncInv, JobIds
    <3> QED
      BY <1>7, <3>1
  <2> QED
    BY <1>2, <1>10, <2>1, <2>2, <2>3 DEF JobIds
<1>15. Unnumbered'
  BY DEF EncInv, Unnumbered
<1> QED
  BY <1>11, <1>13, <1>14, <1>15 DEF EncInv

LEMMA EncKept ==
  ASSUME PostTypes, EncInv, [Next]_vars
  PROVE  EncInv'
<1> USE DEF queueVars, threadVars, takeVars, eventVars, frameVars
<1>0. /\ proc = [pc |-> proc.pc, job |-> proc.job] /\ q \in [Queues -> Seq(Jobs)] /\ proc.job \in Jobs
      /\ pp = [pc |-> pp.pc, frame |-> pp.frame, job |-> pp.job] /\ pp.job \in Jobs
      /\ pp.frame \in Frames /\ cap.frame \in Frames
  BY ThreadRecords DEF PostTypes
<1>1. CASE \E m \in Modes : TakePicture(m)
  <2>1. /\ q' = q /\ enc' = enc /\ evts' = evts /\ lastId' = lastId /\ (Encoding' <=> Encoding)
        /\ (Encoding => proc' = proc) /\ (pp' = pp \/ pp'.job = NoJob)
    BY <1>1 DEF TakePicture, Encoding
  <2> QED
    BY <2>1, EncSame DEF NoJob, EncInv, OJ, Unnumbered
<1>2. CASE DefStart
  <2>1. /\ q' = q /\ enc' = enc /\ evts' = evts /\ lastId' = lastId /\ (Encoding' <=> Encoding)
        /\ (Encoding => proc' = proc) /\ (pp' = pp \/ pp'.job = NoJob)
    BY <1>2 DEF DefStart, Encoding
  <2> QED
    BY <2>1, EncSame DEF NoJob, EncInv, OJ, Unnumbered
<1>3. CASE DefSession
  <2>1. /\ q' = q /\ enc' = enc /\ evts' = evts /\ lastId' = lastId /\ (Encoding' <=> Encoding)
        /\ (Encoding => proc' = proc) /\ (pp' = pp \/ pp'.job = NoJob)
    BY <1>3 DEF DefSession, Encoding
  <2> QED
    BY <2>1, EncSame DEF NoJob, EncInv, OJ, Unnumbered
<1>4. CASE CapFrame
  <2>1. /\ q' = q /\ enc' = enc /\ evts' = evts /\ lastId' = lastId /\ (Encoding' <=> Encoding)
        /\ (Encoding => proc' = proc) /\ (pp' = pp \/ pp'.job = NoJob)
    BY <1>4 DEF CapFrame, Encoding
  <2> QED
    BY <2>1, EncSame DEF NoJob, EncInv, OJ, Unnumbered
<1>5. CASE ProcessData
  <2>1. /\ OJ' = OJ /\ \A m \in Queues : \/ q'[m] = q[m]
                                         \/ m = Input /\ q'[m] = Append(q[m], Job(cap.frame))
    BY <1>5, <1>0, JobTyped DEF ProcessData, Put, Input, OJ, Queues
  <2>2. Job(cap.frame) \in Jobs /\ Job(cap.frame).id = 0
    BY <1>0, JobTyped
  <2>3. pp' = pp /\ enc' = enc /\ evts' = evts /\ lastId' = lastId /\ proc' = proc
    BY <1>5 DEF ProcessData
  <2>4. Unnumbered'
    BY <2>1, <2>2, <2>3, IdsSame, IdsOfAppend DEF Unnumbered, EncInv
  <2> QED
    BY <2>1, <2>3, <2>4, EncSame DEF Encoding
<1>6. CASE CapSend
  <2>1. /\ q' = q /\ enc' = enc /\ evts' = evts /\ lastId' = lastId /\ (Encoding' <=> Encoding)
        /\ (Encoding => proc' = proc) /\ (pp' = pp \/ pp'.job = NoJob)
    BY <1>6 DEF CapSend, Encoding
  <2> QED
    BY <2>1, EncSame DEF NoJob, EncInv, OJ, Unnumbered
<1>7. CASE CapRefused
  <2>1. /\ q' = q /\ enc' = enc /\ evts' = evts /\ lastId' = lastId /\ (Encoding' <=> Encoding)
        /\ (Encoding => proc' = proc) /\ (pp' = pp \/ pp'.job = NoJob)
    BY <1>7 DEF CapRefused, Encoding
  <2> QED
    BY <2>1, EncSame DEF NoJob, EncInv, OJ, Unnumbered
<1>8. CASE StartData
  <2>1. /\ q' = q /\ enc' = enc /\ evts' = evts /\ lastId' = lastId /\ (Encoding' <=> Encoding)
        /\ (Encoding => proc' = proc) /\ (pp' = pp \/ pp'.job = NoJob)
    BY <1>8 DEF StartData, Command, At, Encoding
  <2> QED
    BY <2>1, EncSame DEF NoJob, EncInv, OJ, Unnumbered
<1>9. CASE NextJpegJob
  <2>1. ~Encoding /\ enc' = enc /\ evts' = evts /\ lastId' = lastId /\ pp' = pp
    BY <1>9 DEF NextJpegJob, Command, At, Encoding
  <2>2. CASE Has("inputJpegQ")
    <3> DEFINE job == Head(q["inputJpegQ"])
    <3>1. q["inputJpegQ"] # <<>>
      BY <2>2 DEF Has
    <3>2. job \in Jobs /\ job.id = 0
      BY <3>1, JobsOfQueue DEF Queues, EncInv, Unnumbered
    <3>3. /\ q'["inputJpegQ"] = Tail(q["inputJpegQ"]) /\ OJ' = Append(OJ, job)
          /\ q'["inputPPQ"] = q["inputPPQ"] /\ q'["ongoingPPQ"] = q["ongoingPPQ"]
          /\ proc' = [pc |-> "encode", job |-> job]
      BY <1>9, <1>0, <2>2 DEF NextJpegJob, OJ, Queues
    <3>4. /\ Len(OJ') = Len(OJ) + 1 /\ DOMAIN OJ' = 1 .. Len(OJ) + 1
          /\ \A i \in 1 .. Len(OJ) : OJ'[i] = OJ[i]
          /\ OJ'[Len(OJ) + 1] = job
      BY <3>2, <3>3, JobsInHand, Appended
    <3>5. Encoding' /\ proc'.pc = "encode" /\ proc'.job = job
      BY <3>3 DEF Encoding
    <3> HIDE DEF job
    <3>6. EncOwned'
      BY <2>1, <3>4, <3>5, JobsInHand DEF EncInv, EncOwned, Encoding
    <3>7. EventIds'
      BY <2>1 DEF EncInv, EventIds
    <3>8. LastJob'
      BY <3>2, <3>4, <3>5, JobsInHand DEF LastJob
    <3>9. \A i \in DOMAIN OJ : OJ[i].id \in 0 .. lastId /\ OJ[i].id # 0
      BY <2>1 DEF EncInv, JobIds
    <3>10. JobIds'
      <4>1. \A i \in DOMAIN OJ' : i \in DOMAIN OJ \/ i = Len(OJ')
        BY <3>4, JobsInHand
      <4>2. \A i \in DOMAIN OJ' : OJ'[i].id \in 0 .. lastId /\ (OJ'[i].id = 0 => i = Len(OJ'))
        BY <3>2, <3>4, <3>9, <4>1, JobsInHand DEF PostTypes
      <4>3. \A i, j \in DOMAIN OJ' : OJ'[i].id = OJ'[j].id => i = j
        BY <3>2, <3>4, <3>9, <4>1, JobsInHand DEF EncInv, JobIds
      <4> QED
        BY <2>1, <3>5, <4>2, <4>3 DEF JobIds
    <3>11. Unnumbered'
      BY <2>1, <3>1, <3>3, IdsOfTail, IdsSame DEF Unnumbered, EncInv, Queues
    <3> QED
      BY <3>6, <3>7, <3>8, <3>10, <3>11 DEF EncInv
  <2>3. CASE ~Has("inputJpegQ")
    <3>1. ~Encoding' /\ q' = q
      BY <1>9, <2>3 DEF NextJpegJob, GoTo, Encoding
    <3> QED
      BY <2>1, <3>1, EncSame DEF OJ, EncInv, Unnumbered
  <2> QED
    BY <2>2, <2>3
<1>10. CASE StartJob
  <2>0. /\ proc.pc = "encode" /\ Encoding /\ pp' = pp /\ evts' = evts
    BY <1>10 DEF StartJob, At, Encoding
  <2>1. Len(OJ) > 0 /\ proc.job = OJ[Len(OJ)] /\ proc.job.id = 0
    BY <2>0 DEF EncInv, LastJob
  <2>2. CASE /\ lastId' = lastId + 1 /\ q' = q
             /\ enc' = enc \cup {[id |-> lastId + 1, src |-> proc.job.src]}
             /\ proc' = [proc EXCEPT !.pc = "note"]
    <3>1. OJ' = OJ /\ Encoding' /\ proc'.pc = "note" /\ proc'.job = proc.job
      BY <1>0, <2>2 DEF OJ, Encoding
    <3>2. PICK new : new = [id |-> lastId + 1, src |-> proc.job.src] /\ new.id = lastId + 1
                     /\ new.src = proc.job.src /\ enc' = enc \cup {new} /\ lastId' = lastId + 1
                     /\ lastId \in Nat
      BY <2>2 DEF PostTypes
    <3>3. \A e \in enc : e.id \in 1 .. lastId /\ \E i \in DOMAIN OJ : OJ[i].id = e.id /\ OJ[i].src = e.src
      BY <2>0 DEF EncInv, EncOwned
    <3>4. EncOwned'
      <4>1. \A e \in enc' : e.id \in 1 .. lastId' /\ (e.id = lastId' <=> e = new)
        BY <3>2, <3>3
      <4>2. \A e \in enc' : \/ \E i \in DOMAIN OJ : OJ[i].id = e.id /\ OJ[i].src = e.src
                            \/ e.id = lastId' /\ e.src = proc.job.src
        BY <3>2, <3>3
      <4>3. \A d, e \in enc' : d.id = e.id => d = e
        BY <3>2, <4>1 DEF EncInv, EncOwned
      <4> QED
        BY <3>1, <4>1, <4>2, <4>3 DEF EncOwned
    <3>5. EventIds'
      BY <2>0, <3>2 DEF EncInv, EventIds
    <3>6. LastJob'
      BY <2>1, <3>1, <3>2 DEF EncInv, LastJob, JobIds
    <3>7. JobIds'
      BY <2>0, <3>1, <3>2 DEF EncInv, JobIds
    <3>8. Unnumbered'
      BY <2>0, <2>2 DEF EncInv, Unnumbered
    <3> QED
      BY <3>4, <3>5, <3>6, <3>7, <3>8 DEF EncInv
  <2>3. CASE /\ GoTo("reprocess") /\ q' = [q EXCEPT !["ongoingJpegQ"] = Front(@)]
             /\ UNCHANGED <<enc, lastId>>
    <3>1. /\ OJ' = Front(OJ) /\ ~Encoding' /\ proc'.pc = "reprocess"
          /\ \A n \in Queues \ {"ongoingJpegQ"} : q'[n] = q[n]
      BY <1>0, <2>3 DEF OJ, Encoding, GoTo, Queues
    <3>2. OJ # <<>> /\ Len(OJ) \in Nat
      BY <2>1, EmptySeq, JobsInHand
    <3>3. /\ Len(OJ') = Len(OJ) - 1 /\ DOMAIN OJ' = 1 .. Len(OJ) - 1
          /\ \A i \in 1 .. Len(OJ) - 1 : OJ'[i] = OJ[i]
      <4>1. PICK s : s = Front(OJ) /\ OJ' = s
        BY <3>1
      <4>2. /\ s \in Seq(Jobs) /\ Len(s) = Len(OJ) - 1
            /\ \A i \in 1 .. Len(OJ) - 1 : s[i] = OJ[i]
        BY <3>2, <4>1, JobsInHand, FrontOf
      <4> QED
        BY <4>1, <4>2
    <3>4. \A i \in DOMAIN OJ' : i \in DOMAIN OJ /\ i # Len(OJ) /\ OJ'[i] = OJ[i]
      BY <2>1, <3>3, JobsInHand
    <3>5. \A e \in enc : \E i \in DOMAIN OJ' : OJ'[i].id = e.id /\ OJ'[i].src = e.src
      <4> SUFFICES ASSUME NEW e \in enc
                   PROVE  \E i \in DOMAIN OJ' : OJ'[i].id = e.id /\ OJ'[i].src = e.src
        OBVIOUS
      <4>1. PICK i \in DOMAIN OJ : OJ[i].id = e.id /\ OJ[i].src = e.src
        BY <2>0 DEF EncInv, EncOwned
      <4>2. e.id >= 1 /\ e.id \in Nat
        BY DEF EncInv, EncOwned, PostTypes
      <4>3. i # Len(OJ)
        BY <2>1, <4>1, <4>2
      <4> QED
        BY <3>3, <4>1, <4>3, JobsInHand
    <3>6. EncOwned'
      BY <2>3, <3>1, <3>5 DEF EncInv, EncOwned
    <3>7. EventIds'
      BY <2>0, <2>3 DEF EncInv, EventIds
    <3>8. LastJob'
      BY <3>1 DEF LastJob
    <3>9. JobIds'
      BY <2>3, <3>4 DEF EncInv, JobIds
    <3>10. Unnumbered'
      BY <2>0, <3>1 DEF EncInv, Unnumbered
    <3> QED
      BY <3>6, <3>7, <3>8, <3>9, <3>10 DEF EncInv
  <2> QED
    BY <1>10, <2>2, <2>3 DEF StartJob
<1>11. CASE NoteJobId
  <2>0. proc.pc = "note" /\ Encoding
    BY <1>11 DEF NoteJobId, At, Encoding
  <2>1. Len(OJ) > 0 /\ proc.job = OJ[Len(OJ)] /\ proc.job.id = 0
        /\ lastId > 0 /\ \A i \in DOMAIN OJ : OJ[i].id # lastId
    BY <2>0 DEF EncInv, LastJob
  <2>2. Len(OJ) \in DOMAIN OJ
    BY <2>1, JobsInHand
  <2>3. \A i \in DOMAIN OJ : OJ[i] = proc.job <=> i = Len(OJ)
    BY <2>1 DEF EncInv, JobIds
  <2>4. /\ OJ' = [i \in DOMAIN OJ |-> IF OJ[i] = proc.job THEN [OJ[i] EXCEPT !.id = lastId] ELSE OJ[i]]
        /\ \A n \in Queues \ {"ongoingJpegQ"} : q'[n] = q[n]
    BY <1>11, <1>0 DEF NoteJobId, OJ, Queues
  <2>5. /\ DOMAIN OJ' = DOMAIN OJ /\ OJ'[Len(OJ)] = [proc.job EXCEPT !.id = lastId]
        /\ \A i \in DOMAIN OJ : i # Len(OJ) => OJ'[i] = OJ[i]
    BY <2>1, <2>2, <2>3, <2>4
  <2>6. OJ'[Len(OJ)].id = lastId /\ OJ'[Len(OJ)].src = proc.job.src
    BY <1>0, <2>5 DEF Jobs
  <2>7. /\ proc'.pc = "reprocess" /\ ~Encoding' /\ enc' = enc /\ evts' = evts /\ lastId' = lastId
        /\ pp' = pp
    BY <1>11 DEF NoteJobId, GoTo, Encoding
  <2>8. \A e \in enc : \E i \in DOMAIN OJ' : OJ'[i].id = e.id /\ OJ'[i].src = e.src
    <3> SUFFICES ASSUME NEW e \in enc PROVE \E i \in DOMAIN OJ' : OJ'[i].id = e.id /\ OJ'[i].src = e.src
      OBVIOUS
    <3>1. CASE e.id = lastId /\ e.src = proc.job.src
      BY <2>2, <2>5, <2>6, <3>1
    <3>2. CASE \E i \in DOMAIN OJ : OJ[i].id = e.id /\ OJ[i].src = e.src
      <4>1. PICK i \in DOMAIN OJ : OJ[i].id = e.id /\ OJ[i].src = e.src
        BY <3>2
      <4>2. e.id >= 1 /\ e.id \in Nat
        BY DEF EncInv, EncOwned, PostTypes
      <4>3. i # Len(OJ)
        BY <2>1, <4>1, <4>2
      <4> QED
        BY <2>5, <4>1, <4>3
    <3> QED
      BY <3>1, <3>2 DEF EncInv, EncOwned
  <2>9. EncOwned'
    BY <2>7, <2>8 DEF EncInv, EncOwned
  <2>10. EventIds'
    BY <2>7 DEF EncInv, EventIds
  <2>11. LastJob'
    BY <2>7 DEF LastJob
  <2>12. JobIds'
    <3>1. \A i \in DOMAIN OJ : i # Len(OJ) => OJ[i].id \in 0 .. lastId /\ OJ[i].id # 0
      BY DEF EncInv, JobIds
    <3>2. lastId \in Nat
      BY DEF PostTypes
    <3>3. ASSUME NEW i \in DOMAIN OJ'
          PROVE  OJ'[i].id \in 0 .. lastId /\ OJ'[i].id # 0 /\ (OJ'[i].id = lastId <=> i = Len(OJ))
      <4>1. CASE i = Len(OJ)
        BY <2>1, <2>6, <3>2, <4>1
      <4>2. CASE i # Len(OJ)
        BY <2>1, <2>5, <3>1, <4>2
      <4> QED
        BY <4>1, <4>2
    <3>4. \A i, j \in DOMAIN OJ' : OJ'[i].id = OJ'[j].id => i = j
      BY <2>5, <2>6, <3>3 DEF EncInv, JobIds
    <3> QED
      BY <2>7, <3>3, <3>4 DEF JobIds
  <2>13. Unnumbered'
    BY <2>4, <2>7 DEF EncInv, Unnumbered
  <2> QED
    BY <2>9, <2>10, <2>11, <2>12, <2>13 DEF EncInv
<1>12. CASE NextPPJob
  <2>0. /\ ~Encoding /\ ~Encoding' /\ enc' = enc /\ evts' = evts /\ lastId' = lastId /\ pp' = pp
    BY <1>12 DEF NextPPJob, At, GoTo, Encoding
  <2>1. CASE q["inputPPQ"] # <<>> /\ q' # q
    <3> DEFINE job == [Head(q["inputPPQ"]) EXCEPT !.count = @ + 1]
    <3>1. PICK h \in Jobs : h = Head(q["inputPPQ"]) /\ h.id = 0
      BY <2>1, JobsOfQueue DEF Queues, EncInv, Unnumbered
    <3>2. job \in Jobs /\ job.id = 0
      <4>1. [h EXCEPT !.count = @ + 1] \in Jobs /\ [h EXCEPT !.count = @ + 1].id = 0
        BY <3>1 DEF Jobs
      <4> QED
        BY <3>1, <4>1
    <3>3. /\ q'["inputPPQ"] = Tail(q["inputPPQ"]) /\ q'["ongoingPPQ"] = Append(q["ongoingPPQ"], job)
          /\ q'["inputJpegQ"] = q["inputJpegQ"] /\ OJ' = OJ
      BY <1>12, <1>0, <2>1 DEF NextPPJob, OJ, Queues
    <3> HIDE DEF job
    <3>4. \A i \in DOMAIN q'["inputPPQ"] : q'["inputPPQ"][i].id = 0
      BY <2>1, <3>3, IdsOfTail DEF Queues
    <3>5. \A i \in DOMAIN q'["ongoingPPQ"] : q'["ongoingPPQ"][i].id = 0
      BY <3>2, <3>3, IdsOfAppend DEF Queues
    <3>6. \A i \in DOMAIN q'["inputJpegQ"] : q'["inputJpegQ"][i].id = 0
      BY <3>3, IdsSame DEF Queues
    <3>7. Unnumbered'
      BY <2>0, <3>4, <3>5, <3>6 DEF EncInv, Unnumbered, Queues
    <3> QED
      BY <2>0, <3>3, <3>7, EncSame
  <2>2. CASE q' = q
    BY <2>0, <2>2, EncSame DEF EncInv, OJ, Unnumbered
  <2> QED
    BY <1>12, <2>1, <2>2 DEF NextPPJob, Has
<1>13. CASE Reprocess
  <2>1. /\ q' = q /\ enc' = enc /\ evts' = evts /\ lastId' = lastId /\ (Encoding' <=> Encoding)
        /\ (Encoding => proc' = proc) /\ (pp' = pp \/ pp'.job = NoJob)
    BY <1>13 DEF Reprocess, At, GoTo, Encoding
  <2> QED
    BY <2>1, EncSame DEF NoJob, EncInv, OJ, Unnumbered
<1>14. CASE StopCapture
  <2>1. /\ q' = q /\ enc' = enc /\ evts' = evts /\ lastId' = lastId /\ (Encoding' <=> Encoding)
        /\ (Encoding => proc' = proc) /\ (pp' = pp \/ pp'.job = NoJob)
    BY <1>14 DEF StopCapture, At, GoTo, Encoding
  <2> QED
    BY <2>1, EncSame DEF NoJob, EncInv, OJ, Unnumbered
<1>15. CASE DropJob
  <2>0. /\ ~Encoding /\ ~Encoding' /\ enc' = enc /\ evts' = evts /\ lastId' = lastId /\ pp' = pp
    BY <1>15 DEF DropJob, Command, At, Encoding
  <2>1. CASE Has("inputJpegQ") /\ Pop("inputJpegQ")
    <3>1. /\ \A n \in Queues \ {"inputJpegQ"} : q'[n] = q[n]
          /\ q'["inputJpegQ"] = Tail(q["inputJpegQ"]) /\ OJ' = OJ /\ q["inputJpegQ"] # <<>>
      BY <1>0, <2>1 DEF Pop, Has, Queues, OJ
    <3>2. Unnumbered'
      BY <2>0, <3>1, IdsOfTail, IdsSame DEF EncInv, Unnumbered
    <3> QED
      BY <2>0, <3>1, <3>2, EncSame
  <2>2. CASE Flush("inputPPQ")
    <3>1. OJ' = OJ /\ \A n \in Queues : q'[n] = q[n] \/ q'[n] = <<>>
      BY <1>0, <2>2 DEF Flush, Queues, OJ
    <3>2. Unnumbered'
      BY <2>0, <3>1, IdsSame DEF EncInv, Unnumbered
    <3> QED
      BY <2>0, <3>1, <3>2, EncSame
  <2> QED
    BY <1>15, <2>1, <2>2 DEF DropJob
<1>16. CASE StopData
  <2>1. /\ q' = q /\ enc' = enc /\ evts' = evts /\ lastId' = lastId /\ (Encoding' <=> Encoding)
        /\ (Encoding => proc' = proc) /\ (pp' = pp \/ pp'.job = NoJob)
    BY <1>16 DEF StopData, Command, At, GoTo, Encoding
  <2> QED
    BY <2>1, EncSame DEF NoJob, EncInv, OJ, Unnumbered
<1>17. CASE AbortJob
  <2>0. ~Encoding /\ ~Encoding' /\ evts' = evts /\ lastId' = lastId /\ pp' = pp
    BY <1>17 DEF AbortJob, At, GoTo, Encoding
  <2>1. CASE Has("ongoingJpegQ")
    <3>1. /\ \A n \in Queues \ {"ongoingJpegQ"} : q'[n] = q[n]
          /\ OJ # <<>> /\ OJ' = Tail(OJ) /\ enc' = {e \in enc : e.id # Head(OJ).id}
      BY <1>17, <1>0, <2>1 DEF AbortJob, Pop, Has, OJ, Queues
    <3>2. /\ Head(OJ) = OJ[1] /\ DOMAIN OJ' = 1 .. Len(OJ) - 1
          /\ \A i \in 1 .. Len(OJ) - 1 : OJ'[i] = OJ[i + 1]
      BY <3>1, JobsOfQueue DEF OJ, Queues
    <3>3. \A i \in DOMAIN OJ' : i + 1 \in DOMAIN OJ /\ i \in Nat /\ OJ'[i] = OJ[i + 1]
      BY <3>2, JobsInHand
    <3>4. \A e \in enc' : \E i \in DOMAIN OJ' : OJ'[i].id = e.id /\ OJ'[i].src = e.src
      <4> SUFFICES ASSUME NEW e \in enc' PROVE \E i \in DOMAIN OJ' : OJ'[i].id = e.id /\ OJ'[i].src = e.src
        OBVIOUS
      <4>1. PICK i \in DOMAIN OJ : OJ[i].id = e.id /\ OJ[i].src = e.src
        BY <2>0, <3>1 DEF EncInv, EncOwned, Encoding
      <4>2. i # 1
        BY <3>1, <3>2, <4>1
      <4>3. i - 1 \in DOMAIN OJ' /\ OJ'[i - 1] = OJ[i]
        BY <3>2, <4>2, JobsInHand
      <4> QED
        BY <4>1, <4>3
    <3>5. EncOwned'
      BY <2>0, <3>1, <3>4 DEF EncInv, EncOwned
    <3>6. EventIds'
      BY <2>0, <3>1 DEF EncInv, EventIds
    <3>7. LastJob'
      BY <2>0 DEF LastJob, Encoding
    <3>8. JobIds'
      <4>1. \A i \in DOMAIN OJ' : OJ'[i].id \in 0 .. lastId /\ OJ'[i].id # 0
        BY <2>0, <3>3 DEF EncInv, JobIds
      <4>2. \A i, j \in DOMAIN OJ' : OJ'[i].id = OJ'[j].id => i = j
        <5> SUFFICES ASSUME NEW i \in DOMAIN OJ', NEW j \in DOMAIN OJ', OJ'[i].id = OJ'[j].id
                     PROVE  i = j
          OBVIOUS
        <5>1. i + 1 = j + 1
          BY <3>3 DEF EncInv, JobIds
        <5> QED
          BY <3>3, <5>1
      <4> QED
        BY <2>0, <4>1, <4>2 DEF JobIds
    <3>9. Unnumbered'
      BY <2>0, <3>1 DEF EncInv, Unnumbered
    <3> QED
      BY <3>5, <3>6, <3>7, <3>8, <3>9 DEF EncInv
  <2>2. CASE ~Has("ongoingJpegQ")
    <3>1. q' = q /\ enc' = enc
      BY <1>17, <2>2 DEF AbortJob
    <3> QED
      BY <2>0, <3>1, EncSame DEF EncInv, OJ, Unnumbered
  <2> QED
    BY <2>1, <2>2
<1>18. CASE ReleaseJob
  <2>1. /\ q' = q /\ enc' = enc /\ evts' = evts /\ lastId' = lastId /\ (Encoding' <=> Encoding)
        /\ (Encoding => proc' = proc) /\ (pp' = pp \/ pp'.job = NoJob)
    BY <1>18 DEF ReleaseJob, At, GoTo, Encoding
  <2> QED
    BY <2>1, EncSame DEF NoJob, EncInv, OJ, Unnumbered
<1>19. CASE \/ FlushQueue("ongoingPPQ", "inputJpegQ") \/ FlushQueue("inputJpegQ", "inputPPQ") \/ FlushQueue("inputPPQ", "stopped")
  <2>1. PICK n \in Queues \ {"ongoingJpegQ"}, then \in StopPcs :
           FlushQueue(n, then) /\ n \notin {"encode", "note"} /\ then \notin {"encode", "note"}
    BY <1>19 DEF StopPcs, Queues
  <2>2. ~Encoding /\ ~Encoding'
    BY <2>1 DEF FlushQueue, At, GoTo, Encoding
  <2>3. OJ' = OJ /\ \A m \in Queues \ {"ongoingJpegQ"} : q'[m] = q[m] \/ q'[m] = <<>>
    BY <1>0, <2>1 DEF FlushQueue, Flush, OJ, Queues
  <2>4. pp' = pp /\ enc' = enc /\ evts' = evts /\ lastId' = lastId
    BY <2>1 DEF FlushQueue
  <2>5. Unnumbered'
    BY <2>3, <2>4, IdsSame DEF Unnumbered, EncInv
  <2> QED
    BY <2>2, <2>3, <2>4, <2>5, EncSame
<1>20. CASE StopDone
  <2>1. /\ q' = q /\ enc' = enc /\ evts' = evts /\ lastId' = lastId /\ (Encoding' <=> Encoding)
        /\ (Encoding => proc' = proc) /\ (pp' = pp \/ pp'.job = NoJob)
    BY <1>20 DEF StopDone, At, GoTo, Encoding
  <2> QED
    BY <2>1, EncSame DEF NoJob, EncInv, OJ, Unnumbered
<1>21. CASE PPFrame
  <2>1. /\ q' = q /\ enc' = enc /\ evts' = evts /\ lastId' = lastId /\ (Encoding' <=> Encoding)
        /\ (Encoding => proc' = proc) /\ (pp' = pp \/ pp'.job = NoJob)
    BY <1>21 DEF PPFrame, Encoding
  <2> QED
    BY <2>1, EncSame DEF NoJob, EncInv, OJ, Unnumbered
<1>22. CASE TakePPJob
  <2>0. /\ (Encoding' <=> Encoding) /\ proc' = proc /\ enc' = enc /\ evts' = evts /\ lastId' = lastId
    BY <1>22 DEF TakePPJob, Encoding
  <2>1. CASE Has("ongoingPPQ")
    <3>1. /\ \A n \in Queues \ {"ongoingPPQ"} : q'[n] = q[n]
          /\ q'["ongoingPPQ"] = Tail(q["ongoingPPQ"]) /\ OJ' = OJ /\ q["ongoingPPQ"] # <<>>
          /\ pp' = [pp EXCEPT !.pc = "job", !.job = Head(q["ongoingPPQ"])]
      BY <1>22, <1>0, <2>1 DEF TakePPJob, Pop, Queues, Has, OJ
    <3>2. pp'.job = Head(q["ongoingPPQ"])
      BY <1>0, <3>1
    <3>3. pp'.job.id = 0
      BY <3>1, <3>2, JobsOfQueue DEF Queues, EncInv, Unnumbered
    <3>4. Unnumbered'
      BY <3>1, <3>3, IdsOfTail, IdsSame DEF Unnumbered
    <3> QED
      BY <2>0, <3>1, <3>4, EncSame
  <2>2. CASE ~Has("ongoingPPQ")
    <3>1. q' = q /\ pp'.job.id = 0
      BY <1>22, <2>2 DEF TakePPJob, PPIdle, NoJob
    <3> QED
      BY <2>0, <3>1, EncSame DEF EncInv, OJ, Unnumbered
  <2> QED
    BY <2>1, <2>2
<1>23. CASE ProcessPPData
  <2> DEFINE job == [pp.job EXCEPT !.src = pp.frame]
             to  == IF pp.job.count < mode.passes THEN "inputPPQ" ELSE "inputJpegQ"
  <2>1. job \in Jobs /\ job.id = 0 /\ to \in Queues \ {"ongoingJpegQ"}
    BY <1>0 DEF Jobs, Queues, EncInv, Unnumbered
  <2>2. /\ q' = q \/ q' = [q EXCEPT ![to] = Append(@, job)]
        /\ \/ pp' = [pp EXCEPT !.pc = "send", !.job = NoJob]
           \/ pp' = [pc |-> "idle", frame |-> NoFrame, job |-> NoJob]
    BY <1>23 DEF ProcessPPData, Put, PPIdle
  <2> HIDE DEF job, to
  <2>3. OJ' = OJ /\ \A n \in Queues : q'[n] = q[n] \/ q'[n] = Append(q[n], job)
    BY <1>0, <2>1, <2>2 DEF OJ, Queues
  <2>4. pp'.job = NoJob
    <3>1. [pp EXCEPT !.pc = "send", !.job = NoJob].job = NoJob
      BY <1>0
    <3>2. [pc |-> "idle", frame |-> NoFrame, job |-> NoJob].job = NoJob
      OBVIOUS
    <3>3. CASE pp' = [pp EXCEPT !.pc = "send", !.job = NoJob]
      BY <3>1, <3>3
    <3>4. CASE pp' = [pc |-> "idle", frame |-> NoFrame, job |-> NoJob]
      BY <3>4
    <3> QED
      BY <2>2, <3>3, <3>4
  <2>5. pp'.job.id = 0
    BY <2>4 DEF NoJob
  <2>6. Unnumbered'
    BY <2>1, <2>3, <2>5, IdsSame, IdsOfAppend DEF Unnumbered
  <2> QED
    BY <1>23, <2>3, <2>6, EncSame DEF ProcessPPData, Encoding
<1>24. CASE PPSend
  <2>1. /\ q' = q /\ enc' = enc /\ evts' = evts /\ lastId' = lastId /\ (Encoding' <=> Encoding)
        /\ (Encoding => proc' = proc) /\ (pp' = pp \/ pp'.job = NoJob)
    BY <1>24 DEF PPSend, PPIdle, Encoding
  <2> QED
    BY <2>1, EncSame DEF NoJob, EncInv, OJ, Unnumbered
<1>25. CASE EncodeDone
  <2>1. PICK e \in enc : enc' = enc \ {e} /\ evts' = Append(evts, [id |-> e.id, pic |-> e.src[1]])
    BY <1>25 DEF EncodeDone
  <2>2. e.id \in Nat /\ [id |-> e.id, pic |-> e.src[1]] \in [id : Nat, pic : Nat]
    BY DEF PostTypes, Frames
  <2>3. /\ DOMAIN evts' = 1 .. Len(evts) + 1 /\ \A i \in 1 .. Len(evts) : evts'[i] = evts[i]
        /\ evts'[Len(evts) + 1].id = e.id
    BY <2>1, <2>2, EventsInHand, AppendProperties
  <2>4. OJ' = OJ /\ q' = q /\ proc' = proc /\ (Encoding' <=> Encoding) /\ lastId' = lastId /\ pp' = pp
    BY <1>25 DEF EncodeDone, OJ, Encoding
  <2>5. EncOwned'
    BY <2>1, <2>4 DEF EncInv, EncOwned
  <2>6. EventIds'
    <3>1. e.id \in 1 .. lastId /\ \A d \in enc' : d.id # e.id
      BY <2>1 DEF EncInv, EncOwned
    <3>2. \A i \in DOMAIN evts' : (i \in DOMAIN evts /\ evts'[i] = evts[i]) \/ evts'[i].id = e.id
      BY <2>3, EventsInHand
    <3> QED
      BY <2>1, <2>4, <3>1, <3>2 DEF EncInv, EventIds
  <2>7. LastJob' /\ JobIds' /\ Unnumbered'
    BY <2>4 DEF EncInv, LastJob, JobIds, Unnumbered
  <2> QED
    BY <2>5, <2>6, <2>7 DEF EncInv
<1>26. CASE JpegEvent
  <2>0. /\ enc' = enc /\ lastId' = lastId /\ proc' = proc /\ pp' = pp /\ (Encoding' <=> Encoding)
        /\ evts # <<>> /\ evts' = Tail(evts)
    BY <1>26 DEF JpegEvent, Encoding
  <2>1. Head(evts) = evts[1] /\ 1 \in DOMAIN evts
        /\ DOMAIN evts' = 1 .. Len(evts) - 1 /\ \A i \in 1 .. Len(evts) - 1 : evts'[i] = evts[i + 1]
    BY <2>0, EventsInHand, HeadTailProperties, EmptySeq
  <2>2. EventIds'
    BY <2>0, <2>1, EventsInHand DEF EncInv, EventIds
  <2>3. CASE q' = q
    BY <2>0, <2>2, <2>3 DEF EncInv, OJ, EncOwned, LastJob, JobIds, Unnumbered
  <2>4. CASE \E i \in DOMAIN OJ : /\ OJ[i].id = Head(evts).id
                                  /\ q' = [q EXCEPT !["ongoingJpegQ"] = RemoveAt(@, i)]
    <3>1. PICK i \in DOMAIN OJ : /\ OJ[i].id = Head(evts).id
                                 /\ q' = [q EXCEPT !["ongoingJpegQ"] = RemoveAt(@, i)]
      BY <2>4
    <3>2. OJ' = RemoveAt(OJ, i) /\ \A n \in Queues \ {"ongoingJpegQ"} : q'[n] = q[n]
      BY <1>0, <3>1 DEF OJ, Queues
    <3>3. OJ[i].id \in 1 .. lastId /\ \A e \in enc : e.id # OJ[i].id
      BY <2>1, <3>1 DEF EncInv, EventIds
    <3>4. lastId \in Nat
      BY DEF PostTypes
    <3> QED
      BY <2>0, <2>2, <3>2, <3>3, <3>4, EncRemoved
  <2> QED
    BY <1>26, <2>3, <2>4, EventEffect
<1>27. CASE StopCaptureChannel
  <2>1. /\ q' = q /\ enc' = enc /\ evts' = evts /\ lastId' = lastId /\ (Encoding' <=> Encoding)
        /\ (Encoding => proc' = proc) /\ (pp' = pp \/ pp'.job = NoJob)
    BY <1>27 DEF StopCaptureChannel, Encoding
  <2> QED
    BY <2>1, EncSame DEF NoJob, EncInv, OJ, Unnumbered
<1>28. CASE CancelPicture
  <2>1. /\ q' = q /\ enc' = enc /\ evts' = evts /\ lastId' = lastId /\ (Encoding' <=> Encoding)
        /\ (Encoding => proc' = proc) /\ (pp' = pp \/ pp'.job = NoJob)
    BY <1>28 DEF CancelPicture, Encoding
  <2> QED
    BY <2>1, EncSame DEF NoJob, EncInv, OJ, Unnumbered
<1>29. CASE JoinPP
  <2>1. /\ q' = q /\ enc' = enc /\ evts' = evts /\ lastId' = lastId /\ (Encoding' <=> Encoding)
        /\ (Encoding => proc' = proc) /\ (pp' = pp \/ pp'.job = NoJob)
    BY <1>29 DEF JoinPP, Encoding
  <2> QED
    BY <2>1, EncSame DEF NoJob, EncInv, OJ, Unnumbered
<1>30. CASE JoinCapture
  <2>1. /\ q' = q /\ enc' = enc /\ evts' = evts /\ lastId' = lastId /\ (Encoding' <=> Encoding)
        /\ (Encoding => proc' = proc) /\ (pp' = pp \/ pp'.job = NoJob)
    BY <1>30 DEF JoinCapture, Encoding
  <2> QED
    BY <2>1, EncSame DEF NoJob, EncInv, OJ, Unnumbered
<1>31. CASE UNCHANGED vars
  <2>1. Encoding' <=> Encoding
    BY <1>31 DEF vars, Encoding
  <2> QED
    BY <1>31, <2>1, EncSame DEF vars, OJ, EncInv, Unnumbered
<1> QED
  BY <1>1, <1>2, <1>3, <1>4, <1>5, <1>6, <1>7, <1>8, <1>9, <1>10, <1>11, <1>12, <1>13, <1>14, <1>15, <1>16, <1>17, <1>18, <1>19, <1>20, <1>21, <1>22, <1>23, <1>24, <1>25, <1>26, <1>27, <1>28, <1>29, <1>30, <1>31
     DEF Next, Deferred, Capture, DataProcess, PostCapture, Stopping

-----------------------------------------------------------------------------
(* The first theorem.                                                       *)

PicInv == PostTypes /\ PhaseInv /\ QueueInv /\ EncInv

LEMMA PicInvInit ==
  ASSUME Init
  PROVE  PicInv
<1>1. PostTypes
  <2>1. q \in [Queues -> Seq(Jobs)] /\ on \in [Queues -> BOOLEAN]
    BY EmptySeq DEF Init
  <2>2. /\ cmds \in Seq({"START", "DO", "STOP"}) /\ evts \in Seq([id : Nat, pic : Nat])
        /\ daemon \in Seq(Frames)
    BY EmptySeq DEF Init
  <2>3. /\ proc \in [pc : {"idle"} \cup WorkPcs \cup StopPcs, job : Jobs]
        /\ cap \in [pc : {"idle", "wait", "send"}, frame : Frames]
        /\ pp \in [pc : {"idle", "wait", "job", "send"}, frame : Frames, job : Jobs]
    BY NoJobTyped DEF Init
  <2> QED
    BY <2>1, <2>2, <2>3 DEF Init, PostTypes
<1>2. PhaseInv
  BY DEF Init, PhaseInv, WorkPcs, StopPcs
<1>3. QueueInv
  BY DEF Init, QueueInv, PPFlushed, Flushed, StopPcs, Queues
<1>4. EncInv
  <2>1. OJ = <<>> /\ ~Encoding /\ proc.pc # "note" /\ enc = {} /\ evts = <<>> /\ pp.job.id = 0
    BY DEF Init, OJ, Encoding, Queues, NoJob
  <2>2. \A n \in Queues : q[n] = <<>>
    BY DEF Init
  <2> QED
    BY <2>1, <2>2 DEF EncInv, EncOwned, EventIds, LastJob, JobIds, Unnumbered
<1> QED
  BY <1>1, <1>2, <1>3, <1>4 DEF PicInv

(* The types, the phases, the queues and the ids hold together: which       *)
(* commands may be queued tells where the threads are, and that tells what  *)
(* is left in which queue.                                                  *)
THEOREM PicInvariance == Spec => []PicInv
<1>1. Init => PicInv
  BY PicInvInit
<1>2. PicInv /\ [Next]_vars => PicInv'
  BY TypesKept, PhaseKept, QueueKept, EncKept DEF PicInv
<1> QED
  BY <1>1, <1>2, PTL DEF Spec

(* When the synchronous STOP is done, no queue has a job and the encoder    *)
(* works on none: whatever it was given was aborted with its job.           *)
THEOREM StopLeavesNothingAlways == Spec => []StopLeavesNothing
<1>1. PicInv => StopLeavesNothing
  <2> SUFFICES ASSUME PicInv, sm \in {"join", "close"}
               PROVE  enc = {} /\ \A n \in Queues : q[n] = <<>>
    BY DEF StopLeavesNothing
  <2>1. ~active /\ proc.pc \notin StopPcs /\ proc.pc # "note"
    BY DEF PicInv, PhaseInv, WorkPcs
  <2>2. \A n \in Queues : q[n] = <<>>
    BY <2>1 DEF PicInv, QueueInv
  <2>3. OJ = <<>>
    BY <2>2 DEF OJ, Queues
  <2>4. enc = {}
    BY <2>1, <2>3 DEF PicInv, EncInv, EncOwned
  <2> QED
    BY <2>2, <2>4
<1> QED
  BY <1>1, PicInvariance, PTL

-----------------------------------------------------------------------------
(* Who has which frames.                                                    *)

SeqFrames(s) == UNION {FramesOf(job) : job \in ToSet(s)}
Apart(s)     == \A i, j \in DOMAIN s : FramesOf(s[i]) \cap FramesOf(s[j]) # {} => i = j

CapFrames  == IF cap.pc = "wait" THEN {cap.frame} ELSE {}
PPFrames   == IF pp.pc \in {"wait", "job"} THEN {pp.frame} \cup FramesOf(pp.job) ELSE {}
ProcFrames == IF proc.pc = "release" THEN FramesOf(proc.job) ELSE {}

Containers == Queues \cup {"cap", "pp", "proc"}
Content ==
    [c \in Containers |-> IF c \in Queues THEN SeqFrames(q[c])
                          ELSE IF c = "cap" THEN CapFrames
                          ELSE IF c = "pp" THEN PPFrames ELSE ProcFrames]
Disjoint(C) == \A a, b \in Containers : C[a] \cap C[b] # {} => a = b
All(C)      == UNION {C[c] : c \in Containers}

HeldInv ==
    /\ \A n \in Queues : Apart(q[n])
    /\ Disjoint(Content) /\ heap = All(Content)
    /\ heap \cap back = {} /\ ~twice /\ heap \subseteq received /\ back \subseteq received

(* What is known of the jobs: how many passes they have behind them, and    *)
(* that no later pass of their picture was given out yet.                   *)
Known == received \cup ToSet(daemon)
Bounded(job) == \A s \in Known : s[1] = job.base[1] => s[2] <= job.count
PPJob(job, passes) ==
    /\ job.base[1] > 0 /\ job.base[2] = 0 /\ job.src = <<job.base[1], passes>>
    /\ Bounded(job)
JpegJob(job) == job.src[1] > 0 /\ job.base[2] = 0
Matches(job, f) == f = <<job.base[1], job.count>>
OP == q["ongoingPPQ"]

NextInv  == next > 0 /\ \A s \in Known : s[1] < next
CapInv   == cap.pc = "wait" => /\ cap.frame[1] > 0 /\ cap.frame[2] = 0
                               /\ \A s \in Known : s[1] = cap.frame[1] => s[2] = 0
InputInv == \A i \in DOMAIN q["inputPPQ"] : PPJob(q["inputPPQ"][i], q["inputPPQ"][i].count)
OngoingInv == \A i \in DOMAIN OP : OP[i].count > 0 /\ PPJob(OP[i], OP[i].count - 1)
DaemonInv ==
    proc.pc = "daemon" =>
        /\ Len(OP) > 0 /\ proc.job = OP[Len(OP)]
        /\ \A s \in Known : s[1] = proc.job.base[1] => s[2] < proc.job.count
TakenInv ==
    /\ pp.pc # "job" => pp.job = NoJob
    /\ pp.pc = "job" => /\ pp.job.count > 0 /\ PPJob(pp.job, pp.job.count - 1)
                        /\ Matches(pp.job, pp.frame)
JpegInv ==
    /\ \A n \in {"inputJpegQ", "ongoingJpegQ"} : \A i \in DOMAIN q[n] : JpegJob(q[n][i])
    /\ proc.pc = "release" => JpegJob(proc.job)
ShapeInv ==
    NextInv /\ CapInv /\ InputInv /\ OngoingInv /\ DaemonInv /\ TakenInv /\ JpegInv

(* The daemon answers in order: what it was given, and the superbuf that    *)
(* the callback thread has, belong to the jobs of ongoingPPQ one by one.    *)
Waiting == IF pp.pc = "wait" THEN 1 ELSE 0
Lockstep ==
    /\ \A i, j \in DOMAIN daemon : daemon[i] = daemon[j] => i = j
    /\ \A i \in DOMAIN daemon : daemon[i] \notin received /\ daemon[i][2] > 0
    /\ pp.pc = "wait" => pp.frame[2] > 0
    /\ ~Flushed =>
          /\ pp.pc = "wait" => Len(OP) > 0 /\ Matches(OP[1], pp.frame)
          /\ Len(OP) = Waiting + Len(daemon) + (IF proc.pc = "daemon" THEN 1 ELSE 0)
          /\ \A i \in DOMAIN daemon : Matches(OP[i + Waiting], daemon[i])

(* What was freed without being given back.                                 *)
RelInv ==
    /\ active => /\ \A n \in Queues : \A i \in DOMAIN q[n] : q[n][i].rel => mode.regular
                 /\ pp.job.rel => mode.regular
    /\ active \/ def \in {"start", "wait"} =>
          \A s \in received \ (heap \cup back) : s[1] < first \/ (s[2] = 0 /\ mode.regular)

Core == HeldInv /\ ShapeInv /\ Lockstep /\ RelInv

LEMMA FramesOfMember ==
  ASSUME NEW s, NEW i \in DOMAIN s
  PROVE  FramesOf(s[i]) \subseteq SeqFrames(s)
BY DEF SeqFrames, ToSet

LEMMA FramesOfNone == SeqFrames(<<>>) = {} /\ Apart(<<>>)
BY DEF SeqFrames, ToSet, Apart

LEMMA FramesOfAppend ==
  ASSUME NEW s \in Seq(Jobs), NEW job \in Jobs
  PROVE  /\ SeqFrames(Append(s, job)) = SeqFrames(s) \cup FramesOf(job)
         /\ Apart(s) /\ FramesOf(job) \cap SeqFrames(s) = {} => Apart(Append(s, job))
<1>0. PICK t : t = Append(s, job)
  OBVIOUS
<1>1. /\ t \in Seq(Jobs) /\ Len(t) = Len(s) + 1 /\ DOMAIN t = 1 .. Len(s) + 1 /\ t[Len(s) + 1] = job
      /\ \A i \in 1 .. Len(s) : t[i] = s[i]
  BY <1>0, Appended
<1>2. DOMAIN s = 1 .. Len(s) /\ Len(s) \in Nat
  OBVIOUS
<1>3. \A i \in DOMAIN t : (i \in DOMAIN s /\ t[i] = s[i]) \/ (i = Len(s) + 1 /\ t[i] = job)
  BY <1>1, <1>2
<1>4. \A i \in DOMAIN s : i \in DOMAIN t /\ t[i] = s[i]
  BY <1>1, <1>2
<1>5. ToSet(t) = ToSet(s) \cup {job}
  <2>1. Len(s) + 1 \in DOMAIN t
    BY <1>1, <1>2
  <2> QED
    BY <1>1, <1>3, <1>4, <2>1 DEF ToSet
<1>6. SeqFrames(t) = SeqFrames(s) \cup FramesOf(job)
  BY <1>5 DEF SeqFrames
<1>7. ASSUME Apart(s), FramesOf(job) \cap SeqFrames(s) = {}
      PROVE  Apart(t)
  <2>1. \A i \in DOMAIN s : FramesOf(s[i]) \cap FramesOf(job) = {}
    BY <1>7, FramesOfMember
  <2> QED
    BY <1>3, <1>7, <2>1 DEF Apart
<1> QED
  BY <1>0, <1>6, <1>7

LEMMA FramesOfRemoved ==
  ASSUME NEW s \in Seq(Jobs), Apart(s), NEW i \in DOMAIN s, NEW t \in Seq(Jobs),
         Len(t) = Len(s) - 1, \A k \in 1 .. Len(s) - 1 : t[k] = s[IF k < i THEN k ELSE k + 1]
  PROVE  SeqFrames(t) = SeqFrames(s) \ FramesOf(s[i]) /\ Apart(t)
<1>1. DOMAIN s = 1 .. Len(s) /\ Len(s) \in Nat /\ DOMAIN t = 1 .. Len(s) - 1 /\ i \in 1 .. Len(s)
  OBVIOUS
<1> DEFINE from(k) == IF k < i THEN k ELSE k + 1
           to(k)   == IF k < i THEN k ELSE k - 1
<1>2. ASSUME NEW k \in DOMAIN s, k # i
      PROVE  to(k) \in DOMAIN t /\ t[to(k)] = s[k]
  <2>1. CASE k < i
    BY <1>1, <2>1
  <2>2. CASE k > i
    <3>1. k - 1 \in 1 .. Len(s) - 1 /\ ~(k - 1 < i) /\ (k - 1) + 1 = k /\ ~(k < i)
      BY <1>1, <2>2
    <3> QED
      BY <1>1, <3>1
  <2> QED
    BY <1>1, <1>2, <2>1, <2>2
<1>3. ASSUME NEW k \in DOMAIN t
      PROVE  from(k) \in DOMAIN s /\ t[k] = s[from(k)] /\ from(k) # i
  BY <1>1
<1>4. ASSUME NEW k \in DOMAIN t, NEW j \in DOMAIN t, from(k) = from(j)
      PROVE  k = j
  BY <1>1, <1>4
<1> HIDE DEF from, to
<1>5. ASSUME NEW f
      PROVE  f \in SeqFrames(t) <=> f \in SeqFrames(s) /\ f \notin FramesOf(s[i])
  <2>1. f \in SeqFrames(t) <=> \E k \in DOMAIN t : f \in FramesOf(t[k])
    BY DEF SeqFrames, ToSet
  <2>2. f \in SeqFrames(s) <=> \E k \in DOMAIN s : f \in FramesOf(s[k])
    BY DEF SeqFrames, ToSet
  <2>3. ASSUME NEW k \in DOMAIN t, f \in FramesOf(t[k])
        PROVE  f \in SeqFrames(s) /\ f \notin FramesOf(s[i])
    <3>1. from(k) \in DOMAIN s /\ f \in FramesOf(s[from(k)]) /\ from(k) # i
      BY <1>3, <2>3
    <3> QED
      BY <2>2, <3>1 DEF Apart
  <2>4. ASSUME NEW k \in DOMAIN s, f \in FramesOf(s[k]), f \notin FramesOf(s[i])
        PROVE  f \in SeqFrames(t)
    BY <1>2, <2>1, <2>4
  <2> QED
    BY <2>1, <2>2, <2>3, <2>4
<1>6. SeqFrames(t) = SeqFrames(s) \ FramesOf(s[i])
  BY <1>5
<1>7. Apart(t)
  <2> SUFFICES ASSUME NEW k \in DOMAIN t, NEW j \in DOMAIN t, FramesOf(t[k]) \cap FramesOf(t[j]) # {}
               PROVE  k = j
    BY DEF Apart
  <2>1. from(k) = from(j)
    BY <1>3 DEF Apart
  <2> QED
    BY <1>4, <2>1
<1> QED
  BY <1>6, <1>7

LEMMA FramesOfTail ==
  ASSUME PostTypes, NEW n \in Queues, q[n] # <<>>, Apart(q[n])
  PROVE  SeqFrames(Tail(q[n])) = SeqFrames(q[n]) \ FramesOf(Head(q[n])) /\ Apart(Tail(q[n]))
         /\ FramesOf(Head(q[n])) \subseteq SeqFrames(q[n])
<1>1. PICK s, t : s = q[n] /\ t = Tail(q[n])
  OBVIOUS
<1>2. /\ s \in Seq(Jobs) /\ 1 \in DOMAIN s /\ t \in Seq(Jobs)
      /\ Len(t) = Len(s) - 1 /\ Head(s) = s[1] /\ Len(s) \in Nat
      /\ \A k \in 1 .. Len(s) - 1 : t[k] = s[k + 1]
  BY <1>1, JobsOfQueue
<1>3. \A k \in 1 .. Len(s) - 1 : t[k] = s[IF k < 1 THEN k ELSE k + 1]
  BY <1>2
<1>4. SeqFrames(t) = SeqFrames(s) \ FramesOf(s[1]) /\ Apart(t)
  BY <1>1, <1>2, <1>3, FramesOfRemoved
<1>5. FramesOf(s[1]) \subseteq SeqFrames(s)
  BY <1>2, FramesOfMember
<1> QED
  BY <1>1, <1>2, <1>4, <1>5

(* A frame is in one place: frames of container a are moved to container b, *)
(* or dropped.                                                              *)
LEMMA Shuffled ==
  ASSUME NEW C, NEW D, Disjoint(C), NEW a \in Containers, NEW b \in Containers, a # b, NEW moved,
         \A c \in Containers : c # a /\ c # b => D[c] = C[c],
         D[a] \subseteq C[a], moved \subseteq C[a], moved \cap D[a] = {}, D[b] = C[b] \cup moved
  PROVE  Disjoint(D) /\ All(D) = All(C) \ (C[a] \ (D[a] \cup moved))
<1>1. ASSUME NEW f, NEW c \in Containers, NEW d \in Containers, f \in D[c], f \in D[d]
      PROVE  c = d
  <2> DEFINE home(e) == IF e = b /\ f \in moved THEN a ELSE e
  <2>1. ASSUME NEW e \in Containers, f \in D[e]
        PROVE  home(e) \in Containers /\ f \in C[home(e)]
    BY <2>1
  <2>2. home(c) = home(d)
    BY <1>1, <2>1 DEF Disjoint
  <2> QED
    BY <1>1, <2>2
<1>2. Disjoint(D)
  BY <1>1 DEF Disjoint
<1>3. ASSUME NEW f
      PROVE  f \in All(D) <=> f \in All(C) /\ f \notin C[a] \ (D[a] \cup moved)
  <2>1. f \in All(D) <=> \E c \in Containers : f \in D[c]
    BY DEF All
  <2>2. f \in All(C) <=> \E c \in Containers : f \in C[c]
    BY DEF All
  <2>3. ASSUME NEW c \in Containers, f \in D[c]
        PROVE  f \in All(C) /\ f \notin C[a] \ (D[a] \cup moved)
    BY <2>2, <2>3 DEF Disjoint
  <2>4. ASSUME NEW c \in Containers, f \in C[c], f \notin C[a] \ (D[a] \cup moved)
        PROVE  f \in All(D)
    BY <2>1, <2>4
  <2> QED
    BY <2>1, <2>2, <2>3, <2>4
<1> QED
  BY <1>2, <1>3

LEMMA ContentIs ==
  /\ \A n \in Queues : /\ n \in Containers /\ n \notin {"cap", "pp", "proc"}
                       /\ Content[n] = SeqFrames(q[n]) /\ Content'[n] = SeqFrames(q'[n])
  /\ Content["cap"] = CapFrames /\ Content'["cap"] = CapFrames'
  /\ Content["pp"] = PPFrames /\ Content'["pp"] = PPFrames'
  /\ Content["proc"] = ProcFrames /\ Content'["proc"] = ProcFrames'
  /\ {"cap", "pp", "proc"} \subseteq Containers
  /\ \A c \in Containers : c \in Queues \/ c = "cap" \/ c = "pp" \/ c = "proc"
BY DEF Content, Containers, Queues

(* The content of nothing changes.                                          *)
LEMMA HeldSame ==
  ASSUME HeldInv, \A n \in Queues : SeqFrames(q'[n]) = SeqFrames(q[n]) /\ Apart(q'[n]),
         CapFrames' = CapFrames, PPFrames' = PPFrames, ProcFrames' = ProcFrames,
         received' = received, heap' = heap, back' = back, twice' <=> twice
  PROVE  HeldInv'
<1>1. \A c \in Containers : Content'[c] = Content[c]
  BY ContentIs
<1>2. Disjoint(Content)'
  BY <1>1 DEF HeldInv, Disjoint
<1>3. All(Content)' = All(Content)
  BY <1>1 DEF All
<1> QED
  BY <1>2, <1>3 DEF HeldInv

(* One thread has a frame that nobody had.                                  *)
LEMMA HeldAdded ==
  ASSUME HeldInv, NEW a \in {"cap", "pp"}, NEW f, f \notin received, q' = q,
         \A c \in {"cap", "pp", "proc"} \ {a} : Content'[c] = Content[c],
         Content'[a] = Content[a] \cup {f}, Receive(f)
  PROVE  HeldInv'
<1>1. a \in Containers /\ \A c \in Containers : c # a => Content'[c] = Content[c]
  BY ContentIs
<1>2. f \notin All(Content) /\ f \notin back
  BY DEF HeldInv
<1>3. \A c \in Containers : f \notin Content[c]
  BY <1>2 DEF All
<1>4. ASSUME NEW c \in Containers, NEW d \in Containers, NEW g, g \in Content'[c], g \in Content'[d]
      PROVE  c = d
  <2>1. CASE g = f
    BY <1>1, <1>3, <1>4, <2>1
  <2>2. CASE g # f
    <3>1. g \in Content[c] /\ g \in Content[d]
      BY <1>1, <1>4, <2>2
    <3> QED
      BY <3>1 DEF HeldInv, Disjoint
  <2> QED
    BY <2>1, <2>2
<1>5. Disjoint(Content)'
  BY <1>4 DEF Disjoint
<1>6. All(Content)' = All(Content) \cup {f}
  BY <1>1 DEF All
<1>7. heap' = heap \cup {f} /\ received' = received \cup {f} /\ back' = back /\ (twice' <=> twice)
  BY DEF Receive
<1> QED
  BY <1>2, <1>5, <1>6, <1>7 DEF HeldInv

(* Frames of container a move to container b, or are freed.                 *)
LEMMA HeldShuffled ==
  ASSUME HeldInv, NEW a \in Containers, NEW b \in Containers, a # b, NEW moved, NEW frees, NEW returns,
         \A c \in Containers : c # a /\ c # b => Content'[c] = Content[c],
         Content'[a] \subseteq Content[a], moved \subseteq Content[a], moved \cap Content'[a] = {},
         Content'[b] = Content[b] \cup moved, frees = Content[a] \ (Content'[a] \cup moved),
         \A n \in Queues : Apart(q'[n]),
         received' = received, heap' = heap \ frees, returns \subseteq frees, back' = back \cup returns,
         frees \subseteq heap /\ returns \cap back = {} => ~twice'
  PROVE  HeldInv'
<1>1. Disjoint(Content)' /\ All(Content)' = All(Content) \ frees
  BY Shuffled DEF HeldInv
<1>2. frees \subseteq heap
  BY DEF HeldInv, All
<1>3. returns \cap back = {}
  BY <1>2 DEF HeldInv
<1> QED
  BY <1>1, <1>2, <1>3 DEF HeldInv

LEMMA HeldMoved ==
  ASSUME HeldInv, NEW a \in Containers, NEW b \in Containers, a # b, NEW moved,
         \A c \in Containers : c # a /\ c # b => Content'[c] = Content[c],
         moved \subseteq Content[a], Content'[a] = Content[a] \ moved, Content'[b] = Content[b] \cup moved,
         \A n \in Queues : Apart(q'[n]), NoneReleased
  PROVE  HeldInv'
<1>1. PICK frees, returns : frees = {} /\ returns = {}
  OBVIOUS
<1>2. received' = received /\ heap' = heap /\ back' = back /\ (twice' <=> twice) /\ ~twice
  BY DEF NoneReleased, frameVars, HeldInv
<1>3. /\ Content'[a] \subseteq Content[a] /\ moved \cap Content'[a] = {}
      /\ frees = Content[a] \ (Content'[a] \cup moved) /\ returns \subseteq frees
  BY <1>1
<1>4. heap' = heap \ frees /\ back' = back \cup returns
  BY <1>1, <1>2
<1>5. frees \subseteq heap /\ returns \cap back = {} => ~twice'
  BY <1>2
<1> QED
  BY <1>2, <1>3, <1>4, <1>5, HeldShuffled, SMTT(40)

LEMMA HeldDropped ==
  ASSUME HeldInv, NEW a \in Containers, NEW frees, NEW returns,
         \A c \in Containers : c # a => Content'[c] = Content[c],
         frees \subseteq Content[a], Content'[a] = Content[a] \ frees, \A n \in Queues : Apart(q'[n]),
         returns \subseteq frees,
         received' = received, heap' = heap \ frees, back' = back \cup returns,
         frees \subseteq heap /\ returns \cap back = {} => ~twice'
  PROVE  HeldInv'
<1>1. PICK b \in Containers : b # a
  BY ContentIs
<1>2. /\ Content'[b] = Content[b] \cup {} /\ frees = Content[a] \ (Content'[a] \cup {})
      /\ Content'[a] \subseteq Content[a] /\ {} \subseteq Content[a] /\ {} \cap Content'[a] = {}
      /\ \A c \in Containers : c # a /\ c # b => Content'[c] = Content[c]
  BY <1>1
<1>3. PICK moved : moved = {}
  OBVIOUS
<1>4. /\ Content'[b] = Content[b] \cup moved /\ frees = Content[a] \ (Content'[a] \cup moved)
      /\ moved \subseteq Content[a] /\ moved \cap Content'[a] = {}
  BY <1>2, <1>3
<1> QED
  BY <1>1, <1>2, <1>4, HeldShuffled, ZenonT(60)

LEMMA Given ==
  ASSUME HeldInv, NEW frees, NEW returns, GiveBack(frees, returns)
  PROVE  /\ received' = received /\ heap' = heap \ frees /\ back' = back \cup returns
         /\ frees \subseteq heap /\ returns \cap back = {} => ~twice'
BY DEF GiveBack, HeldInv

(* What is given back of a job is freed.                                    *)
LEMMA ReturnsFreed ==
  ASSUME NEW n, NEW job, job.src # NoFrame
  PROVE  Returns(n, job) \subseteq FramesOf(job)
BY DEF Returns, PPReturns, JpegReturns, FramesOf

LEMMA ReturnsAllFreed ==
  ASSUME NEW n \in Queues, \A i \in DOMAIN q[n] : q[n][i].src # NoFrame
  PROVE  UNION {Returns(n, job) : job \in ToSet(q[n])} \subseteq SeqFrames(q[n])
<1>1. \A job \in ToSet(q[n]) : job.src # NoFrame
  BY DEF ToSet
<1>2. \A job \in ToSet(q[n]) : Returns(n, job) \subseteq FramesOf(job)
  BY <1>1, ReturnsFreed
<1> QED
  BY <1>2 DEF SeqFrames

(* The source of a job is a superbuf.                                       *)
LEMMA SourcesReal ==
  ASSUME PostTypes, ShapeInv, NEW n \in Queues, NEW i \in DOMAIN q[n]
  PROVE  q[n][i].src # NoFrame /\ q[n][i].src[1] > 0
<1>1. NoFrame[1] = 0
  BY DEF NoFrame
<1>2. CASE n = "inputPPQ"
  BY <1>1, <1>2 DEF ShapeInv, InputInv, PPJob
<1>3. CASE n = "ongoingPPQ"
  BY <1>1, <1>3 DEF ShapeInv, OngoingInv, PPJob, OP
<1>4. CASE n \in {"inputJpegQ", "ongoingJpegQ"}
  BY <1>1, <1>4 DEF ShapeInv, JpegInv, JpegJob
<1> QED
  BY <1>2, <1>3, <1>4 DEF Queues

(* What the steps of the threads do to what they have.                      *)
LEMMA FramesOfJob ==
  ASSUME PostTypes, NEW s \in Frames, s # NoFrame
  PROVE  FramesOf(Job(s)) = {s}
BY JobTyped DEF FramesOf

(* A flush drops all frames of the queue.                                   *)
LEMMA HeldFlushed ==
  ASSUME PostTypes, ShapeInv, HeldInv, NEW n \in Queues, Flush(n),
         CapFrames' = CapFrames, PPFrames' = PPFrames, ProcFrames' = ProcFrames
  PROVE  HeldInv'
<1>0. q \in [Queues -> Seq(Jobs)]
  BY DEF PostTypes
<1>1. CASE ~on[n]
  BY <1>1, HeldSame DEF Flush, NoneReleased, queueVars, frameVars, HeldInv
<1>2. CASE on[n]
  <2>1. /\ q'[n] = <<>> /\ \A m \in Queues : m # n => q'[m] = q[m]
    BY <1>0, <1>2 DEF Flush
  <2>2. Content'[n] = {} /\ Content[n] = SeqFrames(q[n])
    BY <2>1, ContentIs, FramesOfNone
  <2>3. \A c \in Containers : c # n => Content'[c] = Content[c]
    BY <2>1, ContentIs
  <2>4. \A m \in Queues : Apart(q'[m])
    BY <2>1, FramesOfNone DEF HeldInv
  <2>5. PICK frees, returns : /\ frees = SeqFrames(q[n]) /\ GiveBack(frees, returns)
                              /\ returns = UNION {Returns(n, job) : job \in ToSet(q[n])}
    BY <1>2 DEF Flush, ReleaseAll, SeqFrames
  <2>6. \A i \in DOMAIN q[n] : q[n][i].src # NoFrame
    BY SourcesReal
  <2>7. returns \subseteq frees
    BY <2>5, <2>6, ReturnsAllFreed
  <2>8. frees \subseteq Content[n] /\ Content'[n] = Content[n] \ frees /\ n \in Containers
    BY <2>2, <2>5, ContentIs
  <2>9. /\ received' = received /\ heap' = heap \ frees /\ back' = back \cup returns
        /\ frees \subseteq heap /\ returns \cap back = {} => ~twice'
    BY <2>5, Given
  <2> QED
    BY <2>3, <2>4, <2>7, <2>8, <2>9, HeldDropped
<1> QED
  BY <1>1, <1>2

(* A job is taken out of queue n and freed.                                 *)
LEMMA HeldReleased ==
  ASSUME PostTypes, ShapeInv, HeldInv, NEW n \in Queues, NEW i \in DOMAIN q[n], NEW t \in Seq(Jobs),
         q' = [q EXCEPT ![n] = t], SeqFrames(t) = SeqFrames(q[n]) \ FramesOf(q[n][i]), Apart(t),
         Release(n, q[n][i]),
         CapFrames' = CapFrames, PPFrames' = PPFrames, ProcFrames' = ProcFrames
  PROVE  HeldInv'
<1>0. q \in [Queues -> Seq(Jobs)]
  BY DEF PostTypes
<1>1. q'[n] = t /\ \A m \in Queues : m # n => q'[m] = q[m]
  BY <1>0
<1>2. PICK frees, returns : /\ frees = FramesOf(q[n][i]) /\ GiveBack(frees, returns)
                            /\ returns = Returns(n, q[n][i])
  BY DEF Release
<1>3. \A c \in Containers : c # n => Content'[c] = Content[c]
  BY <1>1, ContentIs
<1>4. n \in Containers /\ Content[n] = SeqFrames(q[n]) /\ Content'[n] = SeqFrames(t)
  BY <1>1, ContentIs
<1>5. frees \subseteq Content[n] /\ Content'[n] = Content[n] \ frees
  BY <1>2, <1>4, FramesOfMember
<1>6. \A m \in Queues : Apart(q'[m])
  BY <1>1 DEF HeldInv
<1>7. returns \subseteq frees
  BY <1>2, SourcesReal, ReturnsFreed
<1>8. /\ received' = received /\ heap' = heap \ frees /\ back' = back \cup returns
      /\ frees \subseteq heap /\ returns \cap back = {} => ~twice'
  BY <1>2, Given
<1> QED
  BY <1>3, <1>4, <1>5, <1>6, <1>7, <1>8, HeldDropped

(* The first job of queue m goes to the end of queue n.                     *)
LEMMA HeldQueued ==
  ASSUME PostTypes, HeldInv, NEW m \in Queues, NEW n \in Queues, m # n, q[m] # <<>>,
         NEW job \in Jobs, FramesOf(job) = FramesOf(Head(q[m])),
         q' = [q EXCEPT ![m] = Tail(@), ![n] = Append(@, job)], NoneReleased,
         CapFrames' = CapFrames, PPFrames' = PPFrames, ProcFrames' = ProcFrames
  PROVE  HeldInv'
<1>0. q \in [Queues -> Seq(Jobs)]
  BY DEF PostTypes
<1>1. /\ q'[m] = Tail(q[m]) /\ q'[n] = Append(q[n], job)
      /\ \A k \in Queues : k # m /\ k # n => q'[k] = q[k]
  BY <1>0
<1>2. PICK moved : moved = FramesOf(Head(q[m]))
  OBVIOUS
<1>3. /\ SeqFrames(Tail(q[m])) = SeqFrames(q[m]) \ moved /\ Apart(Tail(q[m]))
      /\ moved \subseteq SeqFrames(q[m])
  BY <1>2, FramesOfTail DEF HeldInv
<1>4. /\ m \in Containers /\ n \in Containers /\ Content[m] = SeqFrames(q[m])
      /\ Content[n] = SeqFrames(q[n]) /\ Content'[m] = SeqFrames(q'[m]) /\ Content'[n] = SeqFrames(q'[n])
  BY ContentIs
<1>5. moved \cap SeqFrames(q[n]) = {}
  BY <1>3, <1>4 DEF HeldInv, Disjoint
<1>6. SeqFrames(Append(q[n], job)) = SeqFrames(q[n]) \cup moved /\ Apart(Append(q[n], job))
  BY <1>2, <1>5, JobsOfQueue, FramesOfAppend DEF HeldInv
<1>7. ASSUME NEW c \in Containers, c # m, c # n
      PROVE  Content'[c] = Content[c]
  <2>1. CASE c \in Queues
    <3>1. q'[c] = q[c]
      BY <1>1, <1>7, <2>1
    <3>2. Content[c] = SeqFrames(q[c]) /\ Content'[c] = SeqFrames(q'[c])
      BY <2>1, ContentIs
    <3> QED
      BY <3>1, <3>2
  <2>2. CASE c \in {"cap", "pp", "proc"}
    BY <2>2, ContentIs
  <2> QED
    BY <2>1, <2>2, ContentIs
<1>8. \A k \in Queues : Apart(q'[k])
  BY <1>1, <1>3, <1>6 DEF HeldInv
<1>9. /\ moved \subseteq Content[m] /\ Content'[m] = Content[m] \ moved
      /\ Content'[n] = Content[n] \cup moved
  BY <1>1, <1>3, <1>4, <1>6
<1> QED
  BY <1>4, <1>7, <1>8, <1>9, HeldMoved, ZenonT(60)

(* The first job of queue n is taken by thread a.                           *)
LEMMA HeldTaken ==
  ASSUME PostTypes, HeldInv, NEW n \in Queues, NEW a \in {"pp", "proc"}, q[n] # <<>>, Pop(n),
         NoneReleased, \A c \in {"cap", "pp", "proc"} \ {a} : Content'[c] = Content[c],
         Content'[a] = Content[a] \cup FramesOf(Head(q[n]))
  PROVE  HeldInv'
<1>0. q \in [Queues -> Seq(Jobs)]
  BY DEF PostTypes
<1>1. q'[n] = Tail(q[n]) /\ \A k \in Queues : k # n => q'[k] = q[k]
  BY <1>0 DEF Pop
<1>2. PICK moved : moved = FramesOf(Head(q[n]))
  OBVIOUS
<1>3. /\ SeqFrames(Tail(q[n])) = SeqFrames(q[n]) \ moved /\ Apart(Tail(q[n]))
      /\ moved \subseteq SeqFrames(q[n])
  BY <1>2, FramesOfTail DEF HeldInv
<1>4. /\ n \in Containers /\ Content[n] = SeqFrames(q[n]) /\ Content'[n] = SeqFrames(q'[n]) /\ n # a
      /\ a \in Containers
  BY ContentIs
<1>5. \A c \in Containers : c # n /\ c # a => Content'[c] = Content[c]
  BY <1>1, ContentIs
<1>6. \A k \in Queues : Apart(q'[k])
  BY <1>1, <1>3 DEF HeldInv
<1>7. /\ moved \subseteq Content[n] /\ Content'[n] = Content[n] \ moved
      /\ Content'[a] = Content[a] \cup moved
  BY <1>1, <1>2, <1>3, <1>4
<1> QED
  BY <1>4, <1>5, <1>6, <1>7, HeldMoved

(* The capture thread gives its superbuf back.                              *)
LEMMA CaptureGiven ==
  ASSUME HeldInv, CapFrames = {cap.frame}, CapFrames' = {}, PPFrames' = PPFrames, ProcFrames' = ProcFrames,
         GiveBack({cap.frame}, {cap.frame}), UNCHANGED queueVars
  PROVE  HeldInv'
<1>1. PICK frees : frees = {cap.frame} /\ GiveBack(frees, frees)
  OBVIOUS
<1>2. q' = q
  BY DEF queueVars
<1>3. Content["cap"] = frees /\ Content'["cap"] = {} /\ "cap" \in Containers
  BY <1>1, ContentIs
<1>4. \A c \in Containers : c # "cap" => Content'[c] = Content[c]
  BY <1>2, ContentIs
<1>5. \A n \in Queues : Apart(q'[n])
  BY <1>2 DEF HeldInv
<1>6. /\ received' = received /\ heap' = heap \ frees /\ back' = back \cup frees
      /\ frees \subseteq heap /\ frees \cap back = {} => ~twice'
  BY <1>1, Given
<1>7. frees \subseteq Content["cap"] /\ Content'["cap"] = Content["cap"] \ frees /\ frees \subseteq frees
  BY <1>3
<1> QED
  BY <1>3, <1>4, <1>5, <1>6, <1>7, HeldDropped

LEMMA HeldKept ==
  ASSUME PostTypes, EncInv, Core, [Next]_vars, ~dangling'
  PROVE  HeldInv'
<1> USE DEF queueVars, threadVars, takeVars, eventVars, frameVars
<1>0. /\ proc = [pc |-> proc.pc, job |-> proc.job] /\ q \in [Queues -> Seq(Jobs)] /\ proc.job \in Jobs
      /\ pp = [pc |-> pp.pc, frame |-> pp.frame, job |-> pp.job] /\ pp.job \in Jobs
      /\ pp.frame \in Frames /\ cap.frame \in Frames /\ cap = [pc |-> cap.pc, frame |-> cap.frame]
  BY ThreadRecords DEF PostTypes
<1>1. CASE \E m \in Modes : TakePicture(m)
  <2>1. q' = q /\ NoneReleased /\ CapFrames' = CapFrames /\ PPFrames' = PPFrames /\ ProcFrames' = ProcFrames
    BY <1>1, <1>0 DEF TakePicture, NoneReleased, CapFrames, PPFrames, ProcFrames
  <2> QED
    BY <2>1, HeldSame DEF Core, HeldInv, NoneReleased
<1>2. CASE DefStart
  <2>1. q' = q /\ NoneReleased /\ CapFrames' = CapFrames /\ PPFrames' = PPFrames /\ ProcFrames' = ProcFrames
    BY <1>2, <1>0 DEF DefStart, NoneReleased, CapFrames, PPFrames, ProcFrames
  <2> QED
    BY <2>1, HeldSame DEF Core, HeldInv, NoneReleased
<1>3. CASE DefSession
  <2>1. q' = q /\ NoneReleased /\ CapFrames' = CapFrames /\ PPFrames' = PPFrames /\ ProcFrames' = ProcFrames
    BY <1>3, <1>0 DEF DefSession, NoneReleased, CapFrames, PPFrames, ProcFrames
  <2> QED
    BY <2>1, HeldSame DEF Core, HeldInv, NoneReleased
<1>4. CASE CapFrame
  <2>1. PICK f : f = <<next, 0>>
    OBVIOUS
  <2>2. f \notin received
    BY <2>1 DEF Core, ShapeInv, NextInv, Known, PostTypes
  <2>3. CapFrames = {} /\ CapFrames' = {f} /\ PPFrames' = PPFrames /\ ProcFrames' = ProcFrames
    BY <1>4, <1>0, <2>1 DEF CapFrame, CapFrames, PPFrames, ProcFrames
  <2>4. Content'["cap"] = Content["cap"] \cup {f} /\ Content'["pp"] = Content["pp"]
        /\ Content'["proc"] = Content["proc"]
    BY <2>3, ContentIs
  <2> QED
    BY <1>4, <2>1, <2>2, <2>4, HeldAdded DEF CapFrame, Core
<1>5. CASE ProcessData
  <2>1. /\ cap.pc = "wait" /\ CapFrames = {cap.frame} /\ CapFrames' = {}
        /\ PPFrames' = PPFrames /\ ProcFrames' = ProcFrames
    BY <1>5, <1>0 DEF ProcessData, CapIdle, CapFrames, PPFrames, ProcFrames
  <2>2. cap.frame # NoFrame /\ cap.frame \in Frames
    BY <1>0, <2>1 DEF Core, ShapeInv, CapInv, NoFrame
  <2>3. PICK job \in Jobs : job = Job(cap.frame) /\ FramesOf(job) = {cap.frame}
    BY <2>2, JobTyped, FramesOfJob
  <2>4. PICK n \in Queues : n = Input
    BY <2>2, JobTyped
  <2>5. CASE Put(n, job) /\ NoneReleased
    <3>1. q'[n] = Append(q[n], job) /\ \A k \in Queues : k # n => q'[k] = q[k]
      BY <1>0, <2>5 DEF Put
    <3>2. /\ n \in Containers /\ Content[n] = SeqFrames(q[n]) /\ Content'[n] = SeqFrames(q'[n]) /\ n # "cap"
          /\ Content["cap"] = {cap.frame} /\ Content'["cap"] = {} /\ "cap" \in Containers
      BY <2>1, ContentIs
    <3>3. {cap.frame} \cap SeqFrames(q[n]) = {}
      BY <3>2 DEF Core, HeldInv, Disjoint
    <3>4. SeqFrames(q'[n]) = SeqFrames(q[n]) \cup {cap.frame} /\ Apart(q'[n])
      BY <2>3, <3>1, <3>3, JobsOfQueue, FramesOfAppend DEF Core, HeldInv
    <3>5. \A c \in Containers : c # "cap" /\ c # n => Content'[c] = Content[c]
      BY <2>1, <3>1, ContentIs
    <3>6. \A k \in Queues : Apart(q'[k])
      BY <3>1, <3>4 DEF Core, HeldInv
    <3>7. PICK moved : moved = {cap.frame}
      OBVIOUS
    <3>8. moved \subseteq Content["cap"] /\ Content'["cap"] = Content["cap"] \ moved
          /\ Content'[n] = Content[n] \cup moved
      BY <3>2, <3>4, <3>7
    <3> QED
      BY <2>5, <3>2, <3>5, <3>6, <3>8, HeldMoved DEF Core
  <2>6. CASE GiveBack({cap.frame}, {cap.frame}) /\ UNCHANGED queueVars
    BY <2>1, <2>6, CaptureGiven DEF Core
  <2> QED
    BY <1>5, <2>3, <2>4, <2>5, <2>6 DEF ProcessData
<1>6. CASE CapSend
  <2>1. q' = q /\ NoneReleased /\ CapFrames' = CapFrames /\ PPFrames' = PPFrames /\ ProcFrames' = ProcFrames
    BY <1>6, <1>0 DEF CapSend, CapIdle, NoneReleased, CapFrames, PPFrames, ProcFrames
  <2> QED
    BY <2>1, HeldSame DEF Core, HeldInv, NoneReleased
<1>7. CASE CapRefused
  <2>1. /\ CapFrames = {cap.frame} /\ CapFrames' = {} /\ PPFrames' = PPFrames /\ ProcFrames' = ProcFrames
    BY <1>7, <1>0 DEF CapRefused, CapIdle, CapFrames, PPFrames, ProcFrames
  <2> QED
    BY <1>7, <2>1, CaptureGiven DEF CapRefused, Core
<1>8. CASE StartData
  <2>1. q' = q /\ NoneReleased /\ CapFrames' = CapFrames /\ PPFrames' = PPFrames /\ ProcFrames' = ProcFrames
    BY <1>8, <1>0 DEF StartData, Command, At, NoneReleased, CapFrames, PPFrames, ProcFrames
  <2> QED
    BY <2>1, HeldSame DEF Core, HeldInv, NoneReleased
<1>9. CASE NextJpegJob
  <2>1. /\ CapFrames' = CapFrames /\ PPFrames' = PPFrames /\ ProcFrames' = ProcFrames /\ NoneReleased
    BY <1>9, <1>0 DEF NextJpegJob, Command, At, GoTo, NoneReleased, CapFrames, PPFrames, ProcFrames
  <2>2. CASE Has("inputJpegQ")
    <3>1. q["inputJpegQ"] # <<>>
      BY <2>2 DEF Has
    <3>2. PICK job \in Jobs : job = Head(q["inputJpegQ"])
      BY <3>1, JobsOfQueue DEF Queues
    <3>3. q' = [q EXCEPT !["inputJpegQ"] = Tail(@), !["ongoingJpegQ"] = Append(@, job)]
      BY <1>9, <2>2, <3>2 DEF NextJpegJob
    <3> QED
      BY <2>1, <3>1, <3>2, <3>3, HeldQueued DEF Queues, Core
  <2>3. CASE q' = q
    BY <2>1, <2>3, HeldSame DEF Core, HeldInv, NoneReleased
  <2> QED
    BY <1>9, <2>2, <2>3 DEF NextJpegJob
<1>10. CASE StartJob
  <2>1. /\ CapFrames' = CapFrames /\ PPFrames' = PPFrames /\ ProcFrames' = ProcFrames
    BY <1>10, <1>0 DEF StartJob, At, GoTo, CapFrames, PPFrames, ProcFrames
  <2>2. CASE q' = q /\ NoneReleased
    BY <2>1, <2>2, HeldSame DEF Core, HeldInv, NoneReleased
  <2>3. CASE q' = [q EXCEPT !["ongoingJpegQ"] = Front(@)] /\ Release("ongoingJpegQ", proc.job)
    <3>1. Len(OJ) > 0 /\ proc.job = OJ[Len(OJ)] /\ OJ \in Seq(Jobs) /\ Len(OJ) \in Nat /\ OJ # <<>>
      BY <1>10, EmptySeq, JobsInHand DEF StartJob, At, Encoding, EncInv, LastJob
    <3>2. PICK s, t : s = OJ /\ t = Front(OJ)
      OBVIOUS
    <3>3. /\ t \in Seq(Jobs) /\ Len(t) = Len(s) - 1 /\ \A k \in 1 .. Len(s) - 1 : t[k] = s[k]
      BY <3>1, <3>2, FrontOf
    <3>4. Len(s) \in DOMAIN s /\ Apart(s)
      BY <3>1, <3>2 DEF Core, HeldInv, OJ, Queues
    <3>5. \A k \in 1 .. Len(s) - 1 : t[k] = s[IF k < Len(s) THEN k ELSE k + 1]
      BY <3>1, <3>2, <3>3
    <3>6. SeqFrames(t) = SeqFrames(s) \ FramesOf(s[Len(s)]) /\ Apart(t)
      BY <3>1, <3>2, <3>3, <3>4, <3>5, FramesOfRemoved
    <3>7. q' = [q EXCEPT !["ongoingJpegQ"] = t]
      BY <2>3, <3>2 DEF OJ
    <3>8. PICK i \in DOMAIN q["ongoingJpegQ"] : i = Len(s)
      BY <3>2, <3>4 DEF OJ
    <3>9. proc.job = q["ongoingJpegQ"][i] /\ SeqFrames(t) = SeqFrames(q["ongoingJpegQ"]) \ FramesOf(q["ongoingJpegQ"][i])
      BY <3>1, <3>2, <3>6, <3>8 DEF OJ
    <3> QED
      BY <2>1, <2>3, <3>3, <3>6, <3>7, <3>9, HeldReleased DEF Queues, Core
  <2> QED
    BY <1>10, <2>2, <2>3 DEF StartJob
<1>11. CASE NoteJobId
  <2>1. /\ CapFrames' = CapFrames /\ PPFrames' = PPFrames /\ ProcFrames' = ProcFrames /\ NoneReleased
    BY <1>11, <1>0 DEF NoteJobId, At, GoTo, NoneReleased, CapFrames, PPFrames, ProcFrames
  <2>2. /\ OJ' = [i \in DOMAIN OJ |-> IF OJ[i] = proc.job THEN [OJ[i] EXCEPT !.id = lastId] ELSE OJ[i]]
        /\ \A n \in Queues \ {"ongoingJpegQ"} : q'[n] = q[n]
    BY <1>11, <1>0 DEF NoteJobId, OJ, Queues
  <2>3. ASSUME NEW i \in DOMAIN OJ
        PROVE  FramesOf(OJ'[i]) = FramesOf(OJ[i])
    <3>1. OJ[i] \in Jobs
      BY JobsInHand
    <3>2. [OJ[i] EXCEPT !.id = lastId].src = OJ[i].src /\ [OJ[i] EXCEPT !.id = lastId].base = OJ[i].base
      BY <3>1 DEF Jobs
    <3> QED
      BY <2>2, <3>2 DEF FramesOf
  <2>4. DOMAIN OJ' = DOMAIN OJ
    BY <2>2
  <2>5. SeqFrames(OJ') = SeqFrames(OJ) /\ Apart(OJ')
    <3>1. Apart(OJ)
      BY DEF Core, HeldInv, OJ, Queues
    <3>2. PICK s, t : s = OJ /\ t = OJ'
      OBVIOUS
    <3>3. DOMAIN t = DOMAIN s /\ \A i \in DOMAIN s : FramesOf(t[i]) = FramesOf(s[i])
      BY <2>3, <2>4, <3>2
    <3> QED
      BY <3>1, <3>2, <3>3 DEF SeqFrames, Apart, ToSet
  <2>6. \A n \in Queues : SeqFrames(q'[n]) = SeqFrames(q[n]) /\ Apart(q'[n])
    BY <2>2, <2>5 DEF Core, HeldInv, OJ
  <2> QED
    BY <2>1, <2>6, HeldSame DEF Core, NoneReleased
<1>12. CASE NextPPJob
  <2>1. /\ CapFrames' = CapFrames /\ PPFrames' = PPFrames /\ ProcFrames' = ProcFrames /\ NoneReleased
    BY <1>12, <1>0 DEF NextPPJob, At, GoTo, NoneReleased, CapFrames, PPFrames, ProcFrames
  <2>2. CASE q["inputPPQ"] # <<>> /\ q' # q
    <3>1. PICK h \in Jobs : h = Head(q["inputPPQ"])
      BY <2>2, JobsOfQueue DEF Queues
    <3>2. PICK job \in Jobs : job = [h EXCEPT !.count = @ + 1] /\ FramesOf(job) = FramesOf(h)
      <4>1. [h EXCEPT !.count = @ + 1] \in Jobs
        BY DEF Jobs
      <4>2. [h EXCEPT !.count = @ + 1].src = h.src /\ [h EXCEPT !.count = @ + 1].base = h.base
        BY DEF Jobs
      <4> QED
        BY <4>1, <4>2 DEF FramesOf
    <3>3. q' = [q EXCEPT !["inputPPQ"] = Tail(@), !["ongoingPPQ"] = Append(@, job)]
      BY <1>12, <2>2, <3>1, <3>2 DEF NextPPJob
    <3> QED
      BY <2>1, <2>2, <3>1, <3>2, <3>3, HeldQueued DEF Queues, Core
  <2>3. CASE q' = q
    BY <2>1, <2>3, HeldSame DEF Core, HeldInv, NoneReleased
  <2> QED
    BY <1>12, <2>2, <2>3 DEF NextPPJob, Has
<1>13. CASE Reprocess
  <2>1. q' = q /\ NoneReleased /\ CapFrames' = CapFrames /\ PPFrames' = PPFrames /\ ProcFrames' = ProcFrames
    BY <1>13, <1>0 DEF Reprocess, At, GoTo, NoneReleased, CapFrames, PPFrames, ProcFrames
  <2> QED
    BY <2>1, HeldSame DEF Core, HeldInv, NoneReleased
<1>14. CASE StopCapture
  <2>1. q' = q /\ NoneReleased /\ CapFrames' = CapFrames /\ PPFrames' = PPFrames /\ ProcFrames' = ProcFrames
    BY <1>14, <1>0 DEF StopCapture, At, GoTo, NoneReleased, CapFrames, PPFrames, ProcFrames
  <2> QED
    BY <2>1, HeldSame DEF Core, HeldInv, NoneReleased
<1>15. CASE DropJob
  <2>1. /\ CapFrames' = CapFrames /\ PPFrames' = PPFrames /\ ProcFrames' = ProcFrames
    BY <1>15, <1>0 DEF DropJob, CapFrames, PPFrames, ProcFrames
  <2>2. CASE Has("inputJpegQ") /\ Release("inputJpegQ", Head(q["inputJpegQ"])) /\ Pop("inputJpegQ")
    <3>1. q["inputJpegQ"] # <<>>
      BY <2>2 DEF Has
    <3>2. /\ SeqFrames(Tail(q["inputJpegQ"])) = SeqFrames(q["inputJpegQ"]) \ FramesOf(Head(q["inputJpegQ"]))
          /\ Apart(Tail(q["inputJpegQ"]))
      BY <3>1, FramesOfTail DEF Core, HeldInv, Queues
    <3>3. /\ 1 \in DOMAIN q["inputJpegQ"] /\ Head(q["inputJpegQ"]) = q["inputJpegQ"][1]
          /\ Tail(q["inputJpegQ"]) \in Seq(Jobs)
      BY <3>1, JobsOfQueue DEF Queues
    <3>4. PICK t \in Seq(Jobs), i \in DOMAIN q["inputJpegQ"] : t = Tail(q["inputJpegQ"]) /\ i = 1
      BY <3>3
    <3>5. q' = [q EXCEPT !["inputJpegQ"] = t] /\ Release("inputJpegQ", q["inputJpegQ"][i])
          /\ SeqFrames(t) = SeqFrames(q["inputJpegQ"]) \ FramesOf(q["inputJpegQ"][i]) /\ Apart(t)
      BY <2>2, <3>2, <3>3, <3>4 DEF Pop
    <3> QED
      BY <2>1, <3>5, HeldReleased DEF Core, Queues
  <2>3. CASE Flush("inputPPQ")
    BY <2>1, <2>3, HeldFlushed DEF Core, Queues
  <2> QED
    BY <1>15, <2>2, <2>3 DEF DropJob
<1>16. CASE StopData
  <2>1. q' = q /\ NoneReleased /\ CapFrames' = CapFrames /\ PPFrames' = PPFrames /\ ProcFrames' = ProcFrames
    BY <1>16, <1>0 DEF StopData, Command, At, GoTo, NoneReleased, CapFrames, PPFrames, ProcFrames
  <2> QED
    BY <2>1, HeldSame DEF Core, HeldInv, NoneReleased
<1>17. CASE AbortJob
  <2>1. CapFrames' = CapFrames /\ PPFrames' = PPFrames /\ ProcFrames = {} /\ NoneReleased
    BY <1>17, <1>0 DEF AbortJob, At, NoneReleased, CapFrames, PPFrames, ProcFrames
  <2>2. CASE Has("ongoingJpegQ")
    <3>1. q["ongoingJpegQ"] # <<>> /\ Pop("ongoingJpegQ")
      BY <1>17, <2>2 DEF Has, AbortJob
    <3>2. ProcFrames' = FramesOf(Head(q["ongoingJpegQ"]))
      BY <1>17, <2>2 DEF AbortJob, ProcFrames
    <3>3. /\ Content'["cap"] = Content["cap"] /\ Content'["pp"] = Content["pp"]
          /\ Content'["proc"] = Content["proc"] \cup FramesOf(Head(q["ongoingJpegQ"]))
      BY <2>1, <3>2, ContentIs
    <3> QED
      BY <2>1, <3>1, <3>3, HeldTaken DEF Core, Queues
  <2>3. CASE ~Has("ongoingJpegQ")
    <3>1. q' = q /\ ProcFrames' = {}
      BY <1>17, <2>3 DEF AbortJob, GoTo, ProcFrames
    <3> QED
      BY <2>1, <3>1, HeldSame DEF Core, HeldInv, NoneReleased
  <2> QED
    BY <2>2, <2>3
<1>18. CASE ReleaseJob
  <2>1. /\ CapFrames' = CapFrames /\ PPFrames' = PPFrames /\ q' = q
        /\ ProcFrames = FramesOf(proc.job) /\ ProcFrames' = {}
    BY <1>18, <1>0 DEF ReleaseJob, At, GoTo, CapFrames, PPFrames, ProcFrames
  <2>2. PICK frees, returns : /\ frees = FramesOf(proc.job) /\ GiveBack(frees, returns)
                              /\ returns = Returns("ongoingJpegQ", proc.job)
    BY <1>18 DEF ReleaseJob, Release
  <2>3. proc.job.src # NoFrame
    <3>1. proc.job.src[1] > 0 /\ NoFrame[1] = 0
      BY <1>18 DEF ReleaseJob, At, Core, ShapeInv, JpegInv, JpegJob, NoFrame
    <3> QED
      BY <3>1
  <2>4. returns \subseteq frees
    BY <2>2, <2>3, ReturnsFreed
  <2>5. \A c \in Containers : c # "proc" => Content'[c] = Content[c]
    BY <2>1, ContentIs
  <2>6. frees \subseteq Content["proc"] /\ Content'["proc"] = Content["proc"] \ frees /\ "proc" \in Containers
    BY <2>1, <2>2, ContentIs
  <2>7. /\ received' = received /\ heap' = heap \ frees /\ back' = back \cup returns
        /\ frees \subseteq heap /\ returns \cap back = {} => ~twice'
    BY <2>2, Given DEF Core
  <2>8. \A n \in Queues : Apart(q'[n])
    BY <2>1 DEF Core, HeldInv
  <2> QED
    BY <2>4, <2>5, <2>6, <2>7, <2>8, HeldDropped DEF Core
<1>19. CASE \/ FlushQueue("ongoingPPQ", "inputJpegQ") \/ FlushQueue("inputJpegQ", "inputPPQ") \/ FlushQueue("inputPPQ", "stopped")
  <2>1. PICK n \in Queues, then \in StopPcs : FlushQueue(n, then) /\ n # "release" /\ then # "release"
    BY <1>19 DEF Queues, StopPcs
  <2>2. /\ CapFrames' = CapFrames /\ PPFrames' = PPFrames /\ ProcFrames' = ProcFrames
    BY <1>0, <2>1 DEF FlushQueue, At, GoTo, CapFrames, PPFrames, ProcFrames
  <2> QED
    BY <2>1, <2>2, HeldFlushed DEF FlushQueue, Core
<1>20. CASE StopDone
  <2>1. q' = q /\ NoneReleased /\ CapFrames' = CapFrames /\ PPFrames' = PPFrames /\ ProcFrames' = ProcFrames
    BY <1>20, <1>0 DEF StopDone, At, GoTo, NoneReleased, CapFrames, PPFrames, ProcFrames
  <2> QED
    BY <2>1, HeldSame DEF Core, HeldInv, NoneReleased
<1>21. CASE PPFrame
  <2>1. PICK f : f = Head(daemon)
    OBVIOUS
  <2>2. f \notin received
    <3>1. f = daemon[1] /\ 1 \in DOMAIN daemon
      BY <1>21, <2>1, HeadTailProperties, EmptySeq DEF PPFrame, PostTypes
    <3> QED
      BY <3>1 DEF Core, Lockstep
  <2>3. FramesOf(NoJob) = {}
    BY DEF FramesOf, NoJob
  <2>4. PPFrames = {} /\ PPFrames' = {f} /\ CapFrames' = CapFrames /\ ProcFrames' = ProcFrames
    BY <1>21, <1>0, <2>1, <2>3 DEF PPFrame, CapFrames, PPFrames, ProcFrames
  <2>5. Content'["pp"] = Content["pp"] \cup {f} /\ Content'["cap"] = Content["cap"]
        /\ Content'["proc"] = Content["proc"]
    BY <2>4, ContentIs
  <2> QED
    BY <1>21, <2>1, <2>2, <2>5, HeldAdded DEF PPFrame, Core
<1>22. CASE TakePPJob
  <2>1. /\ CapFrames' = CapFrames /\ ProcFrames' = ProcFrames /\ pp.pc = "wait" /\ pp.job = NoJob
    BY <1>22, <1>0 DEF TakePPJob, CapFrames, ProcFrames, Core, ShapeInv, TakenInv
  <2>2. PPFrames = {pp.frame}
    BY <2>1 DEF PPFrames, FramesOf, NoJob
  <2>3. CASE Has("ongoingPPQ")
    <3>1. q["ongoingPPQ"] # <<>> /\ Pop("ongoingPPQ") /\ NoneReleased
      BY <1>22, <2>3 DEF Has, TakePPJob
    <3>2. pp' = [pc |-> "job", frame |-> pp.frame, job |-> Head(q["ongoingPPQ"])]
      BY <1>22, <1>0, <2>3 DEF TakePPJob
    <3>3. PPFrames' = {pp.frame} \cup FramesOf(Head(q["ongoingPPQ"]))
      BY <3>2 DEF PPFrames
    <3>4. /\ Content'["cap"] = Content["cap"] /\ Content'["proc"] = Content["proc"]
          /\ Content'["pp"] = Content["pp"] \cup FramesOf(Head(q["ongoingPPQ"]))
      BY <2>1, <2>2, <3>3, ContentIs
    <3> QED
      BY <3>1, <3>4, HeldTaken DEF Core, Queues
  <2>4. CASE ~Has("ongoingPPQ")
    <3>1. PICK frees, returns : frees = {pp.frame} /\ returns = {}
      OBVIOUS
    <3>2. /\ PPFrames' = {} /\ q' = q /\ received' = received /\ heap' = heap \ frees
          /\ back' = back \cup returns /\ ~twice'
      BY <1>22, <2>4, <3>1 DEF TakePPJob, PPIdle, PPFrames, Core, HeldInv
    <3>3. \A c \in Containers : c # "pp" => Content'[c] = Content[c]
      BY <2>1, <3>2, ContentIs
    <3>4. frees \subseteq Content["pp"] /\ Content'["pp"] = Content["pp"] \ frees /\ "pp" \in Containers
          /\ returns \subseteq frees
      BY <2>2, <3>1, <3>2, ContentIs
    <3>5. \A n \in Queues : Apart(q'[n])
      BY <3>2 DEF Core, HeldInv
    <3> QED
      BY <3>2, <3>3, <3>4, <3>5, HeldDropped DEF Core
  <2> QED
    BY <2>3, <2>4
<1>23. CASE ProcessPPData
  <2> DEFINE job == [pp.job EXCEPT !.src = pp.frame]
             to  == IF pp.job.count < mode.passes THEN "inputPPQ" ELSE "inputJpegQ"
             old == PassDone(pp.job)
  <2>1. CapFrames' = CapFrames /\ ProcFrames' = ProcFrames /\ pp.pc = "job" /\ pp.job.count > 0
        /\ PPJob(pp.job, pp.job.count - 1) /\ Matches(pp.job, pp.frame)
    BY <1>23, <1>0 DEF ProcessPPData, CapFrames, ProcFrames, Core, ShapeInv, TakenInv
  <2>2. /\ pp.frame # NoFrame /\ pp.job.base # NoFrame /\ pp.job.src # NoFrame
        /\ pp.frame # pp.job.src /\ pp.frame # pp.job.base
        /\ (pp.job.src = pp.job.base <=> ~(pp.job.count > 1))
    <3>1. pp.job.count \in Nat /\ pp.job.base \in Nat \X Nat /\ pp.job.src \in Nat \X Nat
      BY <1>0 DEF Jobs, Frames
    <3>2. /\ pp.job.base[1] > 0 /\ pp.job.base[2] = 0 /\ pp.job.src = <<pp.job.base[1], pp.job.count - 1>>
          /\ pp.frame = <<pp.job.base[1], pp.job.count>>
      BY <2>1 DEF PPJob, Matches
    <3>3. pp.job.base = <<pp.job.base[1], 0>> /\ NoFrame = <<0, 0>>
      BY <3>1, <3>2 DEF NoFrame
    <3> QED
      BY <2>1, <3>1, <3>2, <3>3
  <2>3. PPFrames = {pp.frame, pp.job.src, pp.job.base}
    BY <2>1, <2>2 DEF PPFrames, FramesOf
  <2>4. job \in Jobs /\ job.src = pp.frame /\ job.base = pp.job.base /\ to \in {"inputPPQ", "inputJpegQ"}
    BY <1>0 DEF Jobs
  <2>5. FramesOf(job) = {pp.frame, pp.job.base}
    BY <2>2, <2>4 DEF FramesOf
  <2>6. old = IF pp.job.count > 1 THEN {pp.job.src} ELSE {}
    BY DEF PassDone
  <2>7. \/ /\ Put(to, job) /\ GiveBack(old, old) /\ pp' = [pp EXCEPT !.pc = "send", !.job = NoJob]
        \/ /\ PPIdle /\ UNCHANGED queueVars /\ GiveBack(old \cup FramesOf(job), old \cup Returns(to, job))
    BY <1>23 DEF ProcessPPData
  <2> HIDE DEF job, to, old
  <2>8. PPFrames' = {}
    <3>1. \/ pp' = [pp EXCEPT !.pc = "send", !.job = NoJob]
          \/ pp' = [pc |-> "idle", frame |-> NoFrame, job |-> NoJob]
      BY <2>7 DEF PPIdle
    <3>2. [pp EXCEPT !.pc = "send", !.job = NoJob].pc = "send"
      BY <1>0
    <3>3. [pc |-> "idle", frame |-> NoFrame, job |-> NoJob].pc = "idle"
      OBVIOUS
    <3>4. pp'.pc = "send" \/ pp'.pc = "idle"
      <4>1. CASE pp' = [pp EXCEPT !.pc = "send", !.job = NoJob]
        BY <3>2, <4>1
      <4>2. CASE pp' = [pc |-> "idle", frame |-> NoFrame, job |-> NoJob]
        BY <3>3, <4>2
      <4> QED
        BY <3>1, <4>1, <4>2
    <3> QED
      BY <3>4 DEF PPFrames
  <2>9. CASE Put(to, job) /\ GiveBack(old, old)
    <3>1. to \in Queues /\ q'[to] = Append(q[to], job) /\ \A k \in Queues : k # to => q'[k] = q[k]
      BY <1>0, <2>4, <2>9 DEF Put, Queues
    <3>2. /\ to \in Containers /\ Content[to] = SeqFrames(q[to]) /\ Content'[to] = SeqFrames(q'[to]) /\ to # "pp"
          /\ Content["pp"] = PPFrames /\ Content'["pp"] = {} /\ "pp" \in Containers
      BY <2>8, <3>1, ContentIs
    <3>3. FramesOf(job) \cap SeqFrames(q[to]) = {}
      <4>1. FramesOf(job) \subseteq Content["pp"]
        BY <2>3, <2>5, <3>2
      <4> QED
        BY <3>2, <4>1 DEF Core, HeldInv, Disjoint
    <3>4. SeqFrames(q'[to]) = SeqFrames(q[to]) \cup FramesOf(job) /\ Apart(q'[to])
      BY <2>4, <3>1, <3>3, JobsOfQueue, FramesOfAppend DEF Core, HeldInv
    <3>5. \A c \in Containers : c # "pp" /\ c # to => Content'[c] = Content[c]
      BY <2>1, <3>1, ContentIs
    <3>6. \A k \in Queues : Apart(q'[k])
      BY <3>1, <3>4 DEF Core, HeldInv
    <3>7. PICK moved : moved = FramesOf(job)
      OBVIOUS
    <3>8. /\ Content'["pp"] \subseteq Content["pp"] /\ moved \subseteq Content["pp"]
          /\ moved \cap Content'["pp"] = {} /\ Content'[to] = Content[to] \cup moved
      BY <2>3, <2>5, <3>2, <3>4, <3>7
    <3>9. old = Content["pp"] \ (Content'["pp"] \cup moved)
      BY <2>2, <2>3, <2>5, <2>6, <3>2, <3>7
    <3>10. /\ received' = received /\ heap' = heap \ old /\ back' = back \cup old /\ old \subseteq old
           /\ old \subseteq heap /\ old \cap back = {} => ~twice'
      BY <2>9, Given DEF Core
    <3> QED
      BY <3>2, <3>5, <3>6, <3>8, <3>9, <3>10, HeldShuffled DEF Core
  <2>10. CASE UNCHANGED queueVars /\ GiveBack(old \cup FramesOf(job), old \cup Returns(to, job))
    <3>1. PICK frees, returns : frees = old \cup FramesOf(job) /\ returns = old \cup Returns(to, job)
      OBVIOUS
    <3>2. q' = q
      BY <2>10 DEF queueVars
    <3>3. \A c \in Containers : c # "pp" => Content'[c] = Content[c]
      BY <2>1, <3>2, ContentIs
    <3>4. frees = PPFrames
      BY <2>2, <2>3, <2>5, <2>6, <3>1
    <3>5. frees \subseteq Content["pp"] /\ Content'["pp"] = Content["pp"] \ frees /\ "pp" \in Containers
      BY <2>8, <3>4, ContentIs
    <3>6. Returns(to, job) \subseteq FramesOf(job)
      BY <2>2, <2>4, ReturnsFreed
    <3>7. returns \subseteq frees
      BY <3>1, <3>6
    <3>8. /\ received' = received /\ heap' = heap \ frees /\ back' = back \cup returns
          /\ frees \subseteq heap /\ returns \cap back = {} => ~twice'
      BY <2>10, <3>1, Given DEF Core
    <3>9. \A n \in Queues : Apart(q'[n])
      BY <3>2 DEF Core, HeldInv
    <3> QED
      BY <3>3, <3>5, <3>7, <3>8, <3>9, HeldDropped DEF Core
  <2> QED
    BY <2>7, <2>9, <2>10
<1>24. CASE PPSend
  <2>1. q' = q /\ NoneReleased /\ CapFrames' = CapFrames /\ PPFrames' = PPFrames /\ ProcFrames' = ProcFrames
    BY <1>24, <1>0 DEF PPSend, PPIdle, NoneReleased, CapFrames, PPFrames, ProcFrames
  <2> QED
    BY <2>1, HeldSame DEF Core, HeldInv, NoneReleased
<1>25. CASE EncodeDone
  <2>1. q' = q /\ NoneReleased /\ CapFrames' = CapFrames /\ PPFrames' = PPFrames /\ ProcFrames' = ProcFrames
    BY <1>25, <1>0 DEF EncodeDone, NoneReleased, CapFrames, PPFrames, ProcFrames
  <2> QED
    BY <2>1, HeldSame DEF Core, HeldInv, NoneReleased
<1>26. CASE JpegEvent
  <2>1. /\ CapFrames' = CapFrames /\ PPFrames' = PPFrames /\ ProcFrames' = ProcFrames
    BY <1>26, <1>0 DEF JpegEvent, CapFrames, PPFrames, ProcFrames
  <2>2. CASE q' = q /\ NoneReleased
    BY <2>1, <2>2, HeldSame DEF Core, HeldInv, NoneReleased
  <2>3. CASE \E i \in DOMAIN OJ : /\ Release("ongoingJpegQ", OJ[i])
                                  /\ q' = [q EXCEPT !["ongoingJpegQ"] = RemoveAt(@, i)]
    <3>1. PICK i \in DOMAIN OJ : /\ Release("ongoingJpegQ", OJ[i])
                                 /\ q' = [q EXCEPT !["ongoingJpegQ"] = RemoveAt(@, i)]
      BY <2>3
    <3>2. PICK s, t : s = OJ /\ t = RemoveAt(OJ, i)
      OBVIOUS
    <3>3. s \in Seq(Jobs) /\ i \in DOMAIN s /\ Apart(s)
      BY <3>2, JobsInHand DEF Core, HeldInv, OJ, Queues
    <3>4. /\ t \in Seq(Jobs) /\ Len(t) = Len(s) - 1
          /\ \A k \in 1 .. Len(s) - 1 : t[k] = s[IF k < i THEN k ELSE k + 1]
      BY <3>2, <3>3, RemovedAt
    <3>5. SeqFrames(t) = SeqFrames(s) \ FramesOf(s[i]) /\ Apart(t)
      BY <3>3, <3>4, FramesOfRemoved
    <3>6. /\ q' = [q EXCEPT !["ongoingJpegQ"] = t] /\ i \in DOMAIN q["ongoingJpegQ"]
          /\ SeqFrames(t) = SeqFrames(q["ongoingJpegQ"]) \ FramesOf(q["ongoingJpegQ"][i])
          /\ Release("ongoingJpegQ", q["ongoingJpegQ"][i])
      BY <3>1, <3>2, <3>5 DEF OJ
    <3> QED
      BY <2>1, <3>4, <3>5, <3>6, HeldReleased DEF Core, Queues
  <2> QED
    BY <1>26, <2>2, <2>3, EventEffect
<1>27. CASE StopCaptureChannel
  <2>1. q' = q /\ NoneReleased /\ CapFrames' = CapFrames /\ PPFrames' = PPFrames /\ ProcFrames' = ProcFrames
    BY <1>27, <1>0 DEF StopCaptureChannel, NoneReleased, CapFrames, PPFrames, ProcFrames
  <2> QED
    BY <2>1, HeldSame DEF Core, HeldInv, NoneReleased
<1>28. CASE CancelPicture
  <2>1. q' = q /\ NoneReleased /\ CapFrames' = CapFrames /\ PPFrames' = PPFrames /\ ProcFrames' = ProcFrames
    BY <1>28, <1>0 DEF CancelPicture, NoneReleased, CapFrames, PPFrames, ProcFrames
  <2> QED
    BY <2>1, HeldSame DEF Core, HeldInv, NoneReleased
<1>29. CASE JoinPP
  <2>1. q' = q /\ NoneReleased /\ CapFrames' = CapFrames /\ PPFrames' = PPFrames /\ ProcFrames' = ProcFrames
    BY <1>29, <1>0 DEF JoinPP, NoneReleased, CapFrames, PPFrames, ProcFrames
  <2> QED
    BY <2>1, HeldSame DEF Core, HeldInv, NoneReleased
<1>30. CASE JoinCapture
  <2>1. q' = q /\ NoneReleased /\ CapFrames' = CapFrames /\ PPFrames' = PPFrames /\ ProcFrames' = ProcFrames
    BY <1>30, <1>0 DEF JoinCapture, NoneReleased, CapFrames, PPFrames, ProcFrames
  <2> QED
    BY <2>1, HeldSame DEF Core, HeldInv, NoneReleased
<1>31. CASE UNCHANGED vars
  <2>1. q' = q /\ NoneReleased /\ CapFrames' = CapFrames /\ PPFrames' = PPFrames /\ ProcFrames' = ProcFrames
    BY <1>31 DEF vars, NoneReleased, CapFrames, PPFrames, ProcFrames
  <2> QED
    BY <2>1, HeldSame DEF Core, HeldInv, NoneReleased
<1> QED
  BY <1>1, <1>2, <1>3, <1>4, <1>5, <1>6, <1>7, <1>8, <1>9, <1>10, <1>11, <1>12, <1>13, <1>14, <1>15, <1>16, <1>17, <1>18, <1>19, <1>20, <1>21, <1>22, <1>23, <1>24, <1>25, <1>26, <1>27, <1>28, <1>29, <1>30, <1>31
     DEF Next, Deferred, Capture, DataProcess, PostCapture, Stopping

-----------------------------------------------------------------------------
(* The shape of the jobs.  A superbuf becomes known when the capture        *)
(* channel delivers it, or when the daemon is asked for it.                 *)
LEMMA KnownMembers ==
  \A s : s \in Known <=> s \in received \/ \E i \in DOMAIN daemon : daemon[i] = s
BY DEF Known, ToSet

LEMMA DaemonInHand ==
  ASSUME PostTypes
  PROVE  /\ daemon \in Seq(Frames) /\ Len(daemon) \in Nat /\ DOMAIN daemon = 1 .. Len(daemon)
         /\ \A i \in DOMAIN daemon : daemon[i] \in Frames
         /\ daemon # <<>> => /\ 1 \in DOMAIN daemon /\ Head(daemon) = daemon[1]
                             /\ Tail(daemon) \in Seq(Frames)
                             /\ Len(Tail(daemon)) = Len(daemon) - 1
                             /\ \A i \in 1 .. Len(daemon) - 1 : Tail(daemon)[i] = daemon[i + 1]
<1>1. daemon \in Seq(Frames)
  BY DEF PostTypes
<1> QED
  BY <1>1, HeadTailProperties, EmptySeq

LEMMA KnownTyped ==
  ASSUME PostTypes
  PROVE  Known \subseteq Frames
BY KnownMembers, DaemonInHand DEF PostTypes

(* The head of what the daemon has is received.                             *)
LEMMA HeadReceived ==
  ASSUME PostTypes, PPFrame
  PROVE  /\ Len(daemon) > 0 /\ 1 \in DOMAIN daemon /\ Len(daemon') = Len(daemon) - 1
         /\ DOMAIN daemon' = 1 .. Len(daemon) - 1
         /\ \A i \in 1 .. Len(daemon) - 1 : daemon'[i] = daemon[i + 1]
         /\ received' = received \cup {daemon[1]} /\ pp.pc = "idle"
         /\ pp' = [pc |-> "wait", frame |-> daemon[1], job |-> NoJob]
<1>1. daemon # <<>> /\ daemon' = Tail(daemon)
  BY DEF PPFrame
<1>2. PICK t : t = Tail(daemon)
  OBVIOUS
<1>3. t \in Seq(Frames) /\ Len(t) = Len(daemon) - 1 /\ DOMAIN t = 1 .. Len(t)
  BY <1>1, <1>2, DaemonInHand
<1> QED
  BY <1>1, <1>2, <1>3, DaemonInHand DEF PPFrame, Receive

(* The frame that the daemon is given.                                      *)
Asked == <<proc.job.src[1], proc.job.count>>

LEMMA DaemonAsked ==
  ASSUME PostTypes, Reprocess, ~dangling'
  PROVE  /\ proc.pc = "daemon" /\ proc' = [pc |-> "capture", job |-> NoJob] /\ NoneReleased
         /\ UNCHANGED <<q, on, cap, pp, sm, def, active>>
         /\ Len(daemon') = Len(daemon) + 1 /\ DOMAIN daemon' = 1 .. Len(daemon) + 1
         /\ \A i \in 1 .. Len(daemon) : daemon'[i] = daemon[i]
         /\ daemon'[Len(daemon) + 1] = Asked /\ daemon' \in Seq(Frames) /\ Asked \in Frames
<1>1. /\ daemon' = Append(daemon, Asked) /\ proc.pc = "daemon" /\ NoneReleased
      /\ proc' = [pc |-> "capture", job |-> NoJob]
  BY DEF Reprocess, At, GoTo, Asked
<1>2. proc.job \in Jobs
  BY ThreadRecords
<1>3. Asked \in Frames
  BY <1>2 DEF Asked, Jobs, Frames
<1>4. daemon \in Seq(Frames)
  BY DaemonInHand
<1>5. PICK t : t = Append(daemon, Asked)
  OBVIOUS
<1>6. /\ t \in Seq(Frames) /\ Len(t) = Len(daemon) + 1 /\ DOMAIN t = 1 .. Len(daemon) + 1
      /\ \A i \in 1 .. Len(daemon) : t[i] = daemon[i]
      /\ t[Len(daemon) + 1] = Asked
  BY <1>3, <1>4, <1>5, AppendProperties
<1>7. UNCHANGED <<q, on, cap, pp, sm, def, active>>
  BY DEF Reprocess, queueVars, takeVars
<1> QED
  BY <1>1, <1>3, <1>5, <1>6, <1>7

LEMMA KnownByAsking ==
  ASSUME PostTypes, Reprocess, ~dangling'
  PROVE  \A s \in Known' : s \in Known \/ s = Asked
<1>1. received' = received
  BY DaemonAsked DEF NoneReleased, frameVars
<1>2. \A i \in DOMAIN daemon' : (i \in DOMAIN daemon /\ daemon'[i] = daemon[i]) \/ daemon'[i] = Asked
  BY DaemonAsked, DaemonInHand
<1>3. \A s \in Known' : s \in received' \/ \E i \in DOMAIN daemon' : daemon'[i] = s
  BY DEF Known, ToSet
<1> QED
  BY <1>1, <1>2, <1>3, KnownMembers

LEMMA KnownByCapture ==
  ASSUME CapFrame
  PROVE  \A s \in Known' : s \in Known \/ s = <<next, 0>>
BY DEF CapFrame, Receive, Known, eventVars

(* Nothing else is known after the other steps.                              *)
LEMMA KnownKept ==
  ASSUME PostTypes, [Next]_vars, ~CapFrame, ~Reprocess
  PROVE  \A s \in Known' : s \in Known
<1> USE DEF queueVars, threadVars, takeVars, eventVars, frameVars
<1>1. CASE \E m \in Modes : TakePicture(m)
  BY <1>1 DEF TakePicture, Known
<1>2. CASE DefStart
  BY <1>2 DEF DefStart, Known
<1>3. CASE DefSession
  BY <1>3 DEF DefSession, Known
<1>4. CASE CapFrame
  BY <1>4
<1>5. CASE ProcessData
  BY <1>5 DEF ProcessData, GiveBack, NoneReleased, Known
<1>6. CASE CapSend
  BY <1>6 DEF CapSend, Known
<1>7. CASE CapRefused
  BY <1>7 DEF CapRefused, GiveBack, Known
<1>8. CASE StartData
  BY <1>8 DEF StartData, Known
<1>9. CASE NextJpegJob
  BY <1>9 DEF NextJpegJob, Known
<1>10. CASE StartJob
  BY <1>10 DEF StartJob, Release, GiveBack, NoneReleased, Known
<1>11. CASE NoteJobId
  BY <1>11 DEF NoteJobId, Known
<1>12. CASE NextPPJob
  BY <1>12 DEF NextPPJob, Known
<1>13. CASE Reprocess
  BY <1>13
<1>14. CASE StopCapture
  BY <1>14 DEF StopCapture, Known
<1>15. CASE DropJob
  BY <1>15 DEF DropJob, Release, Flush, ReleaseAll, GiveBack, NoneReleased, Known
<1>16. CASE StopData
  BY <1>16 DEF StopData, Known
<1>17. CASE AbortJob
  BY <1>17 DEF AbortJob, Known
<1>18. CASE ReleaseJob
  BY <1>18 DEF ReleaseJob, Release, GiveBack, Known
<1>19. CASE \/ FlushQueue("ongoingPPQ", "inputJpegQ") \/ FlushQueue("inputJpegQ", "inputPPQ") \/ FlushQueue("inputPPQ", "stopped")
  BY <1>19 DEF FlushQueue, Flush, ReleaseAll, GiveBack, NoneReleased, Known
<1>20. CASE StopDone
  BY <1>20 DEF StopDone, Known
<1>21. CASE PPFrame
  <2>1. \A s \in Known' : s \in received' \/ \E i \in DOMAIN daemon' : daemon'[i] = s
    BY DEF Known, ToSet
  <2>2. \A i \in DOMAIN daemon' : i + 1 \in DOMAIN daemon /\ daemon'[i] = daemon[i + 1]
    BY <1>21, HeadReceived, DaemonInHand
  <2> QED
    BY <1>21, <2>1, <2>2, HeadReceived, KnownMembers
<1>22. CASE TakePPJob
  BY <1>22 DEF TakePPJob, NoneReleased, Known
<1>23. CASE ProcessPPData
  BY <1>23 DEF ProcessPPData, GiveBack, Known
<1>24. CASE PPSend
  BY <1>24 DEF PPSend, Known
<1>25. CASE EncodeDone
  BY <1>25 DEF EncodeDone, Known
<1>26. CASE JpegEvent
  BY <1>26 DEF JpegEvent, NoneReleased, FlushDone, Release, GiveBack, Known
<1>27. CASE StopCaptureChannel
  BY <1>27 DEF StopCaptureChannel, Known
<1>28. CASE CancelPicture
  BY <1>28 DEF CancelPicture, Known
<1>29. CASE JoinPP
  BY <1>29 DEF JoinPP, Known, ToSet
<1>30. CASE JoinCapture
  BY <1>30 DEF JoinCapture, Known
<1>31. CASE UNCHANGED vars
  BY <1>31 DEF vars, Known
<1> QED
  BY <1>1, <1>2, <1>3, <1>4, <1>5, <1>6, <1>7, <1>8, <1>9, <1>10, <1>11, <1>12, <1>13, <1>14, <1>15, <1>16, <1>17, <1>18, <1>19, <1>20, <1>21, <1>22, <1>23, <1>24, <1>25, <1>26, <1>27, <1>28, <1>29, <1>30, <1>31
     DEF Next, Deferred, Capture, DataProcess, PostCapture, Stopping

(* How the threads come to have what they have.                              *)
LEMMA ThreadSteps ==
  ASSUME PostTypes, [Next]_vars
  PROVE  /\ cap'.pc = "wait" => CapFrame \/ (cap.pc = "wait" /\ cap'.frame = cap.frame)
         /\ pp'.pc = "job" => pp' = pp \/ (TakePPJob /\ Has("ongoingPPQ"))
         /\ (pp.pc # "job" => pp.job = NoJob) => (pp'.pc # "job" => pp'.job = NoJob)
         /\ proc'.pc = "release" => proc' = proc \/ (AbortJob /\ Has("ongoingJpegQ"))
         /\ proc'.pc = "daemon" => \/ proc' = proc /\ (OP' = OP \/ TakePPJob)
                                   \/ NextPPJob
<1> USE DEF queueVars, threadVars, takeVars, eventVars, frameVars
<1>0. /\ proc = [pc |-> proc.pc, job |-> proc.job] /\ q \in [Queues -> Seq(Jobs)]
      /\ pp = [pc |-> pp.pc, frame |-> pp.frame, job |-> pp.job] /\ cap = [pc |-> cap.pc, frame |-> cap.frame]
  BY ThreadRecords DEF PostTypes
<1>1. CASE \E m \in Modes : TakePicture(m)
  BY <1>1, <1>0 DEF TakePicture, OP, Queues
<1>2. CASE DefStart
  BY <1>2, <1>0 DEF DefStart, OP, Queues
<1>3. CASE DefSession
  BY <1>3, <1>0 DEF DefSession, OP, Queues
<1>4. CASE CapFrame
  BY <1>4, <1>0 DEF CapFrame, OP, Queues
<1>5. CASE ProcessData
  <2>1. UNCHANGED <<proc, pp>>
    BY <1>5 DEF ProcessData
  <2>2. q'["ongoingPPQ"] = q["ongoingPPQ"]
    BY <1>0, <1>5 DEF ProcessData, Put, Input, Queues
  <2>3. cap'.pc # "wait"
    BY <1>0, <1>5 DEF ProcessData, CapIdle
  <2> QED
    BY <1>0, <2>1, <2>2, <2>3 DEF OP
<1>6. CASE CapSend
  BY <1>6, <1>0 DEF CapSend, CapIdle, OP, Queues
<1>7. CASE CapRefused
  BY <1>7, <1>0 DEF CapRefused, CapIdle, OP, Queues
<1>8. CASE StartData
  BY <1>8, <1>0 DEF StartData, Command, At, OP, Queues
<1>9. CASE NextJpegJob
  BY <1>9, <1>0 DEF NextJpegJob, Command, At, GoTo, Has, OP, Queues
<1>10. CASE StartJob
  BY <1>10, <1>0 DEF StartJob, At, GoTo, OP, Queues
<1>11. CASE NoteJobId
  BY <1>11, <1>0 DEF NoteJobId, At, GoTo, OP, Queues
<1>12. CASE NextPPJob
  BY <1>12, <1>0 DEF NextPPJob, At, GoTo, OP, Queues
<1>13. CASE Reprocess
  BY <1>13, <1>0 DEF Reprocess, At, GoTo, OP, Queues
<1>14. CASE StopCapture
  BY <1>14, <1>0 DEF StopCapture, At, GoTo, OP, Queues
<1>15. CASE DropJob
  <2>1. UNCHANGED <<proc, cap, pp>> /\ proc.pc = "idle"
    BY <1>15 DEF DropJob, Command, At
  <2> QED
    BY <1>0, <2>1
<1>16. CASE StopData
  BY <1>16, <1>0 DEF StopData, Command, At, GoTo, OP, Queues
<1>17. CASE AbortJob
  BY <1>17, <1>0 DEF AbortJob, At, GoTo, Pop, Has, OP, Queues
<1>18. CASE ReleaseJob
  BY <1>18, <1>0 DEF ReleaseJob, At, GoTo, OP, Queues
<1>19. CASE \/ FlushQueue("ongoingPPQ", "inputJpegQ") \/ FlushQueue("inputJpegQ", "inputPPQ") \/ FlushQueue("inputPPQ", "stopped")
  <2>1. UNCHANGED <<cap, pp>> /\ proc'.pc \in {"inputJpegQ", "inputPPQ", "stopped"}
    BY <1>19 DEF FlushQueue, GoTo
  <2> QED
    BY <1>0, <2>1
<1>20. CASE StopDone
  BY <1>20, <1>0 DEF StopDone, At, GoTo, OP, Queues
<1>21. CASE PPFrame
  BY <1>21, <1>0 DEF PPFrame, OP, Queues
<1>22. CASE TakePPJob
  <2>1. UNCHANGED <<proc, cap>> /\ pp.pc = "wait"
    BY <1>22 DEF TakePPJob
  <2>2. CASE Has("ongoingPPQ")
    <3>1. [pp EXCEPT !.pc = "job", !.job = Head(q["ongoingPPQ"])].pc = "job"
      BY <1>0
    <3>2. pp'.pc = "job"
      BY <1>22, <2>2, <3>1 DEF TakePPJob
    <3> QED
      BY <1>22, <1>0, <2>1, <2>2, <3>2
  <2>3. CASE ~Has("ongoingPPQ")
    <3>1. pp' = [pc |-> "idle", frame |-> NoFrame, job |-> NoJob]
      BY <1>22, <2>3 DEF TakePPJob, PPIdle
    <3>2. [pc |-> "idle", frame |-> NoFrame, job |-> NoJob].pc = "idle"
      OBVIOUS
    <3>3. [pc |-> "idle", frame |-> NoFrame, job |-> NoJob].job = NoJob
      OBVIOUS
    <3> QED
      BY <1>22, <1>0, <2>1, <3>1, <3>2, <3>3
  <2> QED
    BY <2>2, <2>3
<1>23. CASE ProcessPPData
  <2>1. UNCHANGED <<proc, cap>>
    BY <1>23 DEF ProcessPPData
  <2>2. q'["ongoingPPQ"] = q["ongoingPPQ"]
    BY <1>0, <1>23 DEF ProcessPPData, Put, Queues
  <2>3. pp' = [pp EXCEPT !.pc = "send", !.job = NoJob] \/ pp' = [pc |-> "idle", frame |-> NoFrame, job |-> NoJob]
    BY <1>23 DEF ProcessPPData, PPIdle
  <2>4. [pp EXCEPT !.pc = "send", !.job = NoJob].pc = "send" /\ [pp EXCEPT !.pc = "send", !.job = NoJob].job = NoJob
    BY <1>0
  <2>5. pp'.pc # "job" /\ pp'.job = NoJob
    <3>1. CASE pp' = [pp EXCEPT !.pc = "send", !.job = NoJob]
      BY <2>4, <3>1
    <3>2. CASE pp' = [pc |-> "idle", frame |-> NoFrame, job |-> NoJob]
      BY <3>2
    <3> QED
      BY <2>3, <3>1, <3>2
  <2> QED
    BY <1>0, <2>1, <2>2, <2>5 DEF OP
<1>24. CASE PPSend
  BY <1>24, <1>0 DEF PPSend, PPIdle, OP, Queues
<1>25. CASE EncodeDone
  BY <1>25, <1>0 DEF EncodeDone, OP, Queues
<1>26. CASE JpegEvent
  <2>1. UNCHANGED <<proc, cap, pp>>
    BY <1>26 DEF JpegEvent
  <2>2. q'["ongoingPPQ"] = q["ongoingPPQ"]
    BY <1>0, <1>26, EventEffect DEF Queues
  <2> QED
    BY <1>0, <2>1, <2>2 DEF OP
<1>27. CASE StopCaptureChannel
  BY <1>27, <1>0 DEF StopCaptureChannel, OP, Queues
<1>28. CASE CancelPicture
  BY <1>28, <1>0 DEF CancelPicture, OP, Queues
<1>29. CASE JoinPP
  BY <1>29, <1>0 DEF JoinPP, OP, Queues
<1>30. CASE JoinCapture
  BY <1>30, <1>0 DEF JoinCapture, OP, Queues
<1>31. CASE UNCHANGED vars
  BY <1>31 DEF vars, OP
<1> QED
  BY <1>1, <1>2, <1>3, <1>4, <1>5, <1>6, <1>7, <1>8, <1>9, <1>10, <1>11, <1>12, <1>13, <1>14, <1>15, <1>16, <1>17, <1>18, <1>19, <1>20, <1>21, <1>22, <1>23, <1>24, <1>25, <1>26, <1>27, <1>28, <1>29, <1>30, <1>31
     DEF Next, Deferred, Capture, DataProcess, PostCapture, Stopping

(* Where a job of queue n comes from.                                       *)
JpegQueues == {"inputJpegQ", "ongoingJpegQ"}
SameFrames(a, b) == a.src = b.src /\ a.base = b.base /\ a.rel = b.rel
From(n, job) ==
    \/ \E k \in DOMAIN q[n] : job = q[n][k]
    \/ /\ n = "ongoingJpegQ"
       /\ \E m \in JpegQueues : \E k \in DOMAIN q[m] : SameFrames(job, q[m][k])
    \/ n = Input /\ cap.pc = "wait" /\ job = Job(cap.frame)
    \/ /\ n \in {"inputPPQ", "inputJpegQ"} /\ pp.pc = "job"
       /\ job = [pp.job EXCEPT !.src = pp.frame]
    \/ /\ n = "ongoingPPQ" /\ q["inputPPQ"] # <<>> /\ proc.pc = "reprocess"
       /\ job = [q["inputPPQ"][1] EXCEPT !.count = @ + 1]

LEMMA FromTail ==
  ASSUME PostTypes, NEW n \in Queues, q[n] # <<>>, q'[n] = Tail(q[n])
  PROVE  \A i \in DOMAIN q'[n] : From(n, q'[n][i])
<1>1. PICK s, t : s = q[n] /\ t = Tail(q[n])
  OBVIOUS
<1>2. /\ s \in Seq(Jobs) /\ t \in Seq(Jobs) /\ Len(t) = Len(s) - 1 /\ Len(s) \in Nat
      /\ \A i \in 1 .. Len(s) - 1 : t[i] = s[i + 1]
  BY <1>1, JobsOfQueue
<1>3. \A i \in DOMAIN t : i + 1 \in DOMAIN s /\ t[i] = s[i + 1]
  BY <1>2
<1>4. \A i \in DOMAIN t : From(n, t[i])
  BY <1>1, <1>3 DEF From
<1> QED
  BY <1>1, <1>4

LEMMA FromAppend ==
  ASSUME PostTypes, NEW n \in Queues, NEW job \in Jobs, From(n, job), q'[n] = Append(q[n], job)
  PROVE  \A i \in DOMAIN q'[n] : From(n, q'[n][i])
<1>1. PICK s, t : s = q[n] /\ t = Append(q[n], job)
  OBVIOUS
<1>2. /\ s \in Seq(Jobs) /\ Len(s) \in Nat
      /\ t \in Seq(Jobs) /\ Len(t) = Len(s) + 1 /\ t[Len(s) + 1] = job
      /\ \A i \in 1 .. Len(s) : t[i] = s[i]
  BY <1>1, JobsOfQueue, Appended
<1>3. \A i \in DOMAIN t : (i \in DOMAIN s /\ t[i] = s[i]) \/ t[i] = job
  BY <1>2
<1>4. \A i \in DOMAIN t : From(n, t[i])
  BY <1>1, <1>3 DEF From
<1> QED
  BY <1>1, <1>4

LEMMA FromFlush ==
  ASSUME PostTypes, NEW n \in Queues, Flush(n)
  PROVE  \A m \in Queues : \A i \in DOMAIN q'[m] : From(m, q'[m][i])
<1>1. q \in [Queues -> Seq(Jobs)]
  BY DEF PostTypes
<1>2. \A m \in Queues : q'[m] = <<>> \/ q'[m] = q[m]
  BY <1>1 DEF Flush, queueVars
<1> QED
  BY <1>2 DEF From

LEMMA JobsFrom ==
  ASSUME PostTypes, EncInv, [Next]_vars
  PROVE  \A n \in Queues : \A i \in DOMAIN q'[n] : From(n, q'[n][i])
<1> USE DEF queueVars, threadVars, takeVars, eventVars, frameVars
<1>0. q \in [Queues -> Seq(Jobs)]
  BY DEF PostTypes
<1>1. CASE \E m \in Modes : TakePicture(m)
  <2>1. q' = q
    BY <1>1 DEF TakePicture
  <2> QED
    BY <2>1 DEF From
<1>2. CASE DefStart
  <2>1. q' = q
    BY <1>2 DEF DefStart
  <2> QED
    BY <2>1 DEF From
<1>3. CASE DefSession
  <2>1. q' = q
    BY <1>3 DEF DefSession
  <2> QED
    BY <2>1 DEF From
<1>4. CASE CapFrame
  <2>1. q' = q
    BY <1>4 DEF CapFrame
  <2> QED
    BY <2>1 DEF From
<1>5. CASE ProcessData
  <2>1. CASE q' = q
    BY <2>1 DEF From
  <2>2. CASE Put(Input, Job(cap.frame))
    <3>1. Input \in Queues /\ Job(cap.frame) \in Jobs
      BY JobTyped, ThreadRecords
    <3>2. q'[Input] = Append(q[Input], Job(cap.frame)) /\ \A m \in Queues : m # Input => q'[m] = q[m]
      BY <1>0, <2>2, <3>1 DEF Put
    <3>3. From(Input, Job(cap.frame))
      BY <1>5 DEF From, ProcessData
    <3>4. \A i \in DOMAIN q'[Input] : From(Input, q'[Input][i])
      BY <3>1, <3>2, <3>3, FromAppend
    <3>5. \A m \in Queues : m # Input => \A i \in DOMAIN q'[m] : From(m, q'[m][i])
      BY <3>2 DEF From
    <3> QED
      BY <3>4, <3>5
  <2> QED
    BY <1>5, <2>1, <2>2 DEF ProcessData
<1>6. CASE CapSend
  <2>1. q' = q
    BY <1>6 DEF CapSend
  <2> QED
    BY <2>1 DEF From
<1>7. CASE CapRefused
  <2>1. q' = q
    BY <1>7 DEF CapRefused
  <2> QED
    BY <2>1 DEF From
<1>8. CASE StartData
  <2>1. q' = q
    BY <1>8 DEF StartData
  <2> QED
    BY <2>1 DEF From
<1>9. CASE NextJpegJob
  <2>1. CASE q' = q
    BY <2>1 DEF From
  <2>2. CASE /\ q["inputJpegQ"] # <<>>
             /\ q' = [q EXCEPT !["inputJpegQ"] = Tail(@),
                               !["ongoingJpegQ"] = Append(@, Head(q["inputJpegQ"]))]
    <3>1. PICK job : job = Head(q["inputJpegQ"])
      OBVIOUS
    <3>2. job \in Jobs /\ 1 \in DOMAIN q["inputJpegQ"] /\ job = q["inputJpegQ"][1]
      BY <2>2, <3>1, JobsOfQueue DEF Queues
    <3>3. /\ q'["inputJpegQ"] = Tail(q["inputJpegQ"]) /\ q'["ongoingJpegQ"] = Append(q["ongoingJpegQ"], job)
          /\ \A m \in Queues \ JpegQueues : q'[m] = q[m]
      BY <1>0, <2>2, <3>1 DEF Queues, JpegQueues
    <3>4. From("ongoingJpegQ", job)
      BY <3>2 DEF From, JpegQueues, SameFrames
    <3>5. \A i \in DOMAIN q'["ongoingJpegQ"] : From("ongoingJpegQ", q'["ongoingJpegQ"][i])
      BY <3>2, <3>3, <3>4, FromAppend DEF Queues
    <3>6. \A i \in DOMAIN q'["inputJpegQ"] : From("inputJpegQ", q'["inputJpegQ"][i])
      BY <2>2, <3>3, FromTail DEF Queues
    <3>7. \A m \in Queues \ JpegQueues : \A i \in DOMAIN q'[m] : From(m, q'[m][i])
      BY <3>3 DEF From
    <3> QED
      BY <3>5, <3>6, <3>7 DEF JpegQueues
  <2> QED
    BY <1>9, <2>1, <2>2 DEF NextJpegJob, Has
<1>10. CASE StartJob
  <2>1. CASE q' = q
    BY <2>1 DEF From
  <2>2. CASE q' = [q EXCEPT !["ongoingJpegQ"] = Front(@)]
    <3>1. PICK s, t : s = OJ /\ t = Front(OJ)
      OBVIOUS
    <3>2. s \in Seq(Jobs) /\ s # <<>> /\ Len(s) \in Nat
      BY <1>10, <3>1, JobsInHand, Occupied DEF StartJob, At, Encoding
    <3>3. t \in Seq(Jobs) /\ Len(t) = Len(s) - 1 /\ \A k \in 1 .. Len(s) - 1 : t[k] = s[k]
      BY <3>1, <3>2, FrontOf
    <3>4. \A i \in DOMAIN t : i \in DOMAIN s /\ t[i] = s[i]
      BY <3>2, <3>3
    <3>5. q'["ongoingJpegQ"] = t /\ \A m \in Queues \ {"ongoingJpegQ"} : q'[m] = q[m]
      BY <1>0, <2>2, <3>1 DEF OJ, Queues
    <3>6. \A i \in DOMAIN t : From("ongoingJpegQ", t[i])
      BY <3>1, <3>4 DEF From, OJ
    <3>7. \A m \in Queues \ {"ongoingJpegQ"} : \A i \in DOMAIN q'[m] : From(m, q'[m][i])
      BY <3>5 DEF From
    <3> QED
      BY <3>5, <3>6, <3>7
  <2> QED
    BY <1>10, <2>1, <2>2 DEF StartJob
<1>11. CASE NoteJobId
  <2>1. /\ OJ' = [i \in DOMAIN OJ |-> IF OJ[i] = proc.job THEN [OJ[i] EXCEPT !.id = lastId] ELSE OJ[i]]
        /\ \A n \in Queues \ {"ongoingJpegQ"} : q'[n] = q[n]
    BY <1>11, <1>0 DEF NoteJobId, OJ, Queues
  <2>2. ASSUME NEW i \in DOMAIN OJ
        PROVE  SameFrames(OJ'[i], OJ[i])
    <3>1. OJ[i] \in Jobs
      BY JobsInHand
    <3>2. SameFrames([OJ[i] EXCEPT !.id = lastId], OJ[i])
      BY <3>1 DEF Jobs, SameFrames
    <3> QED
      BY <2>1, <3>2 DEF SameFrames
  <2>3. DOMAIN OJ' = DOMAIN OJ
    BY <2>1
  <2>4. \A i \in DOMAIN OJ' : From("ongoingJpegQ", OJ'[i])
    BY <2>2, <2>3 DEF From, JpegQueues, OJ
  <2>5. \A m \in Queues \ {"ongoingJpegQ"} : \A i \in DOMAIN q'[m] : From(m, q'[m][i])
    BY <2>1 DEF From
  <2> QED
    BY <2>4, <2>5 DEF OJ
<1>12. CASE NextPPJob
  <2>1. CASE q' = q
    BY <2>1 DEF From
  <2>2. CASE /\ q["inputPPQ"] # <<>>
             /\ q' = [q EXCEPT !["inputPPQ"] = Tail(@),
                               !["ongoingPPQ"] = Append(@, [Head(q["inputPPQ"]) EXCEPT !.count = @ + 1])]
    <3>1. PICK h : h = Head(q["inputPPQ"])
      OBVIOUS
    <3>2. h \in Jobs /\ h = q["inputPPQ"][1]
      BY <2>2, <3>1, JobsOfQueue DEF Queues
    <3>3. PICK job : job = [h EXCEPT !.count = @ + 1]
      OBVIOUS
    <3>4. job \in Jobs
      BY <3>2, <3>3 DEF Jobs
    <3>5. /\ q'["inputPPQ"] = Tail(q["inputPPQ"]) /\ q'["ongoingPPQ"] = Append(q["ongoingPPQ"], job)
          /\ \A m \in Queues \ {"inputPPQ", "ongoingPPQ"} : q'[m] = q[m]
      BY <1>0, <2>2, <3>1, <3>3 DEF Queues
    <3>6. From("ongoingPPQ", job)
      BY <1>12, <2>2, <3>2, <3>3 DEF From, NextPPJob, At
    <3>7. \A i \in DOMAIN q'["ongoingPPQ"] : From("ongoingPPQ", q'["ongoingPPQ"][i])
      BY <3>4, <3>5, <3>6, FromAppend DEF Queues
    <3>8. \A i \in DOMAIN q'["inputPPQ"] : From("inputPPQ", q'["inputPPQ"][i])
      BY <2>2, <3>5, FromTail DEF Queues
    <3>9. \A m \in Queues \ {"inputPPQ", "ongoingPPQ"} : \A i \in DOMAIN q'[m] : From(m, q'[m][i])
      BY <3>5 DEF From
    <3> QED
      BY <3>7, <3>8, <3>9
  <2> QED
    BY <1>12, <2>1, <2>2 DEF NextPPJob, Has
<1>13. CASE Reprocess
  <2>1. q' = q
    BY <1>13 DEF Reprocess
  <2> QED
    BY <2>1 DEF From
<1>14. CASE StopCapture
  <2>1. q' = q
    BY <1>14 DEF StopCapture
  <2> QED
    BY <2>1 DEF From
<1>15. CASE DropJob
  <2>1. CASE q["inputJpegQ"] # <<>> /\ q' = [q EXCEPT !["inputJpegQ"] = Tail(@)]
    <3>1. q'["inputJpegQ"] = Tail(q["inputJpegQ"]) /\ \A m \in Queues \ {"inputJpegQ"} : q'[m] = q[m]
      BY <1>0, <2>1 DEF Queues
    <3>2. \A i \in DOMAIN q'["inputJpegQ"] : From("inputJpegQ", q'["inputJpegQ"][i])
      BY <2>1, <3>1, FromTail DEF Queues
    <3>3. \A m \in Queues \ {"inputJpegQ"} : \A i \in DOMAIN q'[m] : From(m, q'[m][i])
      BY <3>1 DEF From
    <3> QED
      BY <3>2, <3>3
  <2>2. CASE Flush("inputPPQ")
    BY <2>2, FromFlush DEF Queues
  <2> QED
    BY <1>15, <2>1, <2>2 DEF DropJob, Has, Pop
<1>16. CASE StopData
  <2>1. q' = q
    BY <1>16 DEF StopData
  <2> QED
    BY <2>1 DEF From
<1>17. CASE AbortJob
  <2>1. CASE q["ongoingJpegQ"] # <<>> /\ q' = [q EXCEPT !["ongoingJpegQ"] = Tail(@)]
    <3>1. q'["ongoingJpegQ"] = Tail(q["ongoingJpegQ"]) /\ \A m \in Queues \ {"ongoingJpegQ"} : q'[m] = q[m]
      BY <1>0, <2>1 DEF Queues
    <3>2. \A i \in DOMAIN q'["ongoingJpegQ"] : From("ongoingJpegQ", q'["ongoingJpegQ"][i])
      BY <2>1, <3>1, FromTail DEF Queues
    <3>3. \A m \in Queues \ {"ongoingJpegQ"} : \A i \in DOMAIN q'[m] : From(m, q'[m][i])
      BY <3>1 DEF From
    <3> QED
      BY <3>2, <3>3
  <2>2. CASE q' = q
    BY <2>2 DEF From
  <2> QED
    BY <1>17, <2>1, <2>2 DEF AbortJob, Has, Pop
<1>18. CASE ReleaseJob
  <2>1. q' = q
    BY <1>18 DEF ReleaseJob
  <2> QED
    BY <2>1 DEF From
<1>19. CASE \/ FlushQueue("ongoingPPQ", "inputJpegQ") \/ FlushQueue("inputJpegQ", "inputPPQ") \/ FlushQueue("inputPPQ", "stopped")
  BY <1>19, FromFlush DEF FlushQueue, Queues
<1>20. CASE StopDone
  <2>1. q' = q
    BY <1>20 DEF StopDone
  <2> QED
    BY <2>1 DEF From
<1>21. CASE PPFrame
  <2>1. q' = q
    BY <1>21 DEF PPFrame
  <2> QED
    BY <2>1 DEF From
<1>22. CASE TakePPJob
  <2>1. CASE q["ongoingPPQ"] # <<>> /\ q' = [q EXCEPT !["ongoingPPQ"] = Tail(@)]
    <3>1. q'["ongoingPPQ"] = Tail(q["ongoingPPQ"]) /\ \A m \in Queues \ {"ongoingPPQ"} : q'[m] = q[m]
      BY <1>0, <2>1 DEF Queues
    <3>2. \A i \in DOMAIN q'["ongoingPPQ"] : From("ongoingPPQ", q'["ongoingPPQ"][i])
      BY <2>1, <3>1, FromTail DEF Queues
    <3>3. \A m \in Queues \ {"ongoingPPQ"} : \A i \in DOMAIN q'[m] : From(m, q'[m][i])
      BY <3>1 DEF From
    <3> QED
      BY <3>2, <3>3
  <2>2. CASE q' = q
    BY <2>2 DEF From
  <2> QED
    BY <1>22, <2>1, <2>2 DEF TakePPJob, Has, Pop
<1>23. CASE ProcessPPData
  <2>1. CASE q' = q
    BY <2>1 DEF From
  <2>2. CASE \E to \in {"inputPPQ", "inputJpegQ"} : Put(to, [pp.job EXCEPT !.src = pp.frame])
    <3>1. PICK to \in {"inputPPQ", "inputJpegQ"} : Put(to, [pp.job EXCEPT !.src = pp.frame])
      BY <2>2
    <3>2. PICK job : job = [pp.job EXCEPT !.src = pp.frame]
      OBVIOUS
    <3>3. to \in Queues /\ job \in Jobs
      BY <3>1, <3>2, ThreadRecords DEF Jobs, Queues
    <3>4. q'[to] = Append(q[to], job) /\ \A m \in Queues : m # to => q'[m] = q[m]
      BY <1>0, <3>1, <3>2, <3>3 DEF Put
    <3>5. From(to, job)
      BY <1>23, <3>2 DEF From, ProcessPPData
    <3>6. \A i \in DOMAIN q'[to] : From(to, q'[to][i])
      BY <3>3, <3>4, <3>5, FromAppend
    <3>7. \A m \in Queues : m # to => \A i \in DOMAIN q'[m] : From(m, q'[m][i])
      BY <3>4 DEF From
    <3> QED
      BY <3>6, <3>7
  <2> QED
    BY <1>23, <2>1, <2>2 DEF ProcessPPData
<1>24. CASE PPSend
  <2>1. q' = q
    BY <1>24 DEF PPSend
  <2> QED
    BY <2>1 DEF From
<1>25. CASE EncodeDone
  <2>1. q' = q
    BY <1>25 DEF EncodeDone
  <2> QED
    BY <2>1 DEF From
<1>26. CASE JpegEvent
  <2>1. CASE q' = q
    BY <2>1 DEF From
  <2>2. CASE \E i \in DOMAIN OJ : q' = [q EXCEPT !["ongoingJpegQ"] = RemoveAt(@, i)]
    <3>1. PICK i \in DOMAIN OJ : q' = [q EXCEPT !["ongoingJpegQ"] = RemoveAt(@, i)]
      BY <2>2
    <3>2. PICK s, t : s = OJ /\ t = RemoveAt(OJ, i)
      OBVIOUS
    <3>3. s \in Seq(Jobs) /\ i \in DOMAIN s /\ Len(s) \in Nat
      BY <3>2, JobsInHand
    <3>4. /\ t \in Seq(Jobs) /\ Len(t) = Len(s) - 1
          /\ \A k \in 1 .. Len(s) - 1 : t[k] = s[IF k < i THEN k ELSE k + 1]
      BY <3>2, <3>3, RemovedAt
    <3>5. \A k \in DOMAIN t : \E j \in DOMAIN s : t[k] = s[j]
      <4>1. DOMAIN s = 1 .. Len(s) /\ DOMAIN t = 1 .. Len(s) - 1
        BY <3>3, <3>4
      <4>2. \A k \in 1 .. Len(s) - 1 : (IF k < i THEN k ELSE k + 1) \in 1 .. Len(s)
        BY <3>3
      <4> QED
        BY <3>4, <4>1, <4>2
    <3>6. q'["ongoingJpegQ"] = t /\ \A m \in Queues \ {"ongoingJpegQ"} : q'[m] = q[m]
      BY <1>0, <3>1, <3>2 DEF OJ, Queues
    <3>7. \A k \in DOMAIN t : From("ongoingJpegQ", t[k])
      BY <3>2, <3>5 DEF From, OJ
    <3>8. \A m \in Queues \ {"ongoingJpegQ"} : \A k \in DOMAIN q'[m] : From(m, q'[m][k])
      BY <3>6 DEF From
    <3> QED
      BY <3>6, <3>7, <3>8
  <2> QED
    BY <1>26, <2>1, <2>2, EventEffect
<1>27. CASE StopCaptureChannel
  <2>1. q' = q
    BY <1>27 DEF StopCaptureChannel
  <2> QED
    BY <2>1 DEF From
<1>28. CASE CancelPicture
  <2>1. q' = q
    BY <1>28 DEF CancelPicture
  <2> QED
    BY <2>1 DEF From
<1>29. CASE JoinPP
  <2>1. q' = q
    BY <1>29 DEF JoinPP
  <2> QED
    BY <2>1 DEF From
<1>30. CASE JoinCapture
  <2>1. q' = q
    BY <1>30 DEF JoinCapture
  <2> QED
    BY <2>1 DEF From
<1>31. CASE UNCHANGED vars
  <2>1. q' = q
    BY <1>31 DEF vars
  <2> QED
    BY <2>1 DEF From
<1> QED
  BY <1>1, <1>2, <1>3, <1>4, <1>5, <1>6, <1>7, <1>8, <1>9, <1>10, <1>11, <1>12, <1>13, <1>14, <1>15, <1>16, <1>17, <1>18, <1>19, <1>20, <1>21, <1>22, <1>23, <1>24, <1>25, <1>26, <1>27, <1>28, <1>29, <1>30, <1>31
     DEF Next, Deferred, Capture, DataProcess, PostCapture, Stopping

(* The base of a reprocessed job names its picture.                         *)
LEMMA BaseOf ==
  ASSUME NEW job \in Jobs, job.base[1] > 0, job.base[2] = 0
  PROVE  job.base = <<job.base[1], 0>> /\ job.base \in FramesOf(job)
<1>1. job.base \in Nat \X Nat
  BY DEF Jobs, Frames
<1>2. job.base = <<job.base[1], 0>>
  BY <1>1
<1>3. NoFrame[1] = 0
  BY DEF NoFrame
<1> QED
  BY <1>2, <1>3 DEF FramesOf

(* The job that the daemon is asked for is the last of ongoingPPQ, and      *)
(* nobody else has frames of its picture that wait for a pass.              *)
LEMMA AskedApart ==
  ASSUME PostTypes, Core, proc.pc = "daemon"
  PROVE  /\ Len(OP) \in DOMAIN OP /\ proc.job = OP[Len(OP)] /\ proc.job \in Jobs
         /\ proc.job.count > 0 /\ PPJob(proc.job, proc.job.count - 1)
         /\ Asked = <<proc.job.base[1], proc.job.count>> /\ Asked \notin Known
         /\ proc.job.base \in Known
         /\ \A c \in Containers : proc.job.base \in Content[c] => c = "ongoingPPQ"
         /\ \A i \in DOMAIN OP : proc.job.base \in FramesOf(OP[i]) => i = Len(OP)
<1>1. OP \in Seq(Jobs) /\ Len(OP) > 0 /\ proc.job = OP[Len(OP)]
  BY JobsOfQueue DEF OP, Queues, Core, ShapeInv, DaemonInv
<1>2. Len(OP) \in DOMAIN OP /\ proc.job \in Jobs
  BY <1>1
<1>3. proc.job.count > 0 /\ PPJob(proc.job, proc.job.count - 1)
  BY <1>1, <1>2 DEF Core, ShapeInv, OngoingInv
<1>4. proc.job.base \in FramesOf(proc.job)
  BY <1>2, <1>3, BaseOf DEF PPJob
<1>5. Content["ongoingPPQ"] = SeqFrames(OP) /\ "ongoingPPQ" \in Containers
  BY ContentIs DEF OP, Queues
<1>6. proc.job.base \in Content["ongoingPPQ"]
  BY <1>1, <1>2, <1>4, <1>5, FramesOfMember
<1>7. \A c \in Containers : proc.job.base \in Content[c] => c = "ongoingPPQ"
  BY <1>5, <1>6 DEF Core, HeldInv, Disjoint
<1>8. Apart(OP)
  BY DEF Core, HeldInv, OP, Queues
<1>9. \A i \in DOMAIN OP : proc.job.base \in FramesOf(OP[i]) => i = Len(OP)
  BY <1>1, <1>2, <1>4, <1>8 DEF Apart
<1>10. proc.job.base \in Known
  BY <1>5, <1>6, KnownMembers DEF Core, HeldInv, All
<1>11. proc.job.src = <<proc.job.base[1], proc.job.count - 1>>
  BY <1>3 DEF PPJob
<1>12. Asked = <<proc.job.base[1], proc.job.count>>
  BY <1>11 DEF Asked
<1>13. Asked \notin Known
  <2>1. \A s \in Known : s[1] = proc.job.base[1] => s[2] < proc.job.count
    BY DEF Core, ShapeInv, DaemonInv
  <2>2. proc.job.count \in Nat
    BY <1>2 DEF Jobs
  <2>3. Asked[1] = proc.job.base[1] /\ Asked[2] = proc.job.count
    BY <1>12
  <2> QED
    BY <2>1, <2>2, <2>3
<1> QED
  BY <1>1, <1>2, <1>3, <1>7, <1>9, <1>10, <1>12, <1>13

(* No later pass of a job's picture becomes known but by the job itself.    *)
LEMMA BoundKept ==
  ASSUME PostTypes, Core, [Next]_vars, ~dangling', NEW job \in Jobs, NEW passes, PPJob(job, passes),
         Reprocess => (job.base = proc.job.base => job.count >= proc.job.count)
  PROVE  \A s \in Known' : s[1] = job.base[1] => s[2] <= job.count
<1>1. /\ \A s \in Known : s[1] = job.base[1] => s[2] <= job.count
      /\ job.count \in Nat /\ job.base[1] > 0 /\ job.base[2] = 0
  BY DEF PPJob, Bounded, Jobs
<1>2. CASE CapFrame
  <2>1. \A s \in Known' : s \in Known \/ s = <<next, 0>>
    BY <1>2, KnownByCapture
  <2> QED
    BY <1>1, <2>1
<1>3. CASE Reprocess
  <2>1. proc.pc = "daemon" /\ \A s \in Known' : s \in Known \/ s = Asked
    BY <1>3, DaemonAsked, KnownByAsking
  <2>2. /\ Asked = <<proc.job.base[1], proc.job.count>> /\ proc.job \in Jobs
        /\ proc.job.base[1] > 0 /\ proc.job.base[2] = 0
    BY <2>1, AskedApart DEF PPJob
  <2>3. Asked[1] = job.base[1] => job.base = proc.job.base
    <3>1. job.base = <<job.base[1], 0>>
      BY <1>1, BaseOf
    <3>2. proc.job.base = <<proc.job.base[1], 0>>
      BY <2>2, BaseOf
    <3>3. Asked[1] = proc.job.base[1]
      BY <2>2
    <3> QED
      BY <3>1, <3>2, <3>3
  <2>4. Asked[2] = proc.job.count /\ proc.job.count \in Nat
    BY <2>2 DEF Jobs
  <2> QED
    BY <1>1, <1>3, <2>1, <2>3, <2>4
<1>4. CASE ~CapFrame /\ ~Reprocess
  BY <1>1, <1>4, KnownKept
<1> QED
  BY <1>2, <1>3, <1>4

(* Jobs of a queue other than ongoingPPQ, and of a thread, are not the one  *)
(* that the daemon is asked for.                                            *)
LEMMA NotAsked ==
  ASSUME PostTypes, Core, ~dangling', Reprocess, NEW job \in Jobs, job.base[1] > 0, job.base[2] = 0,
         NEW c \in Containers, c # "ongoingPPQ", FramesOf(job) \subseteq Content[c]
  PROVE  job.base # proc.job.base
<1>1. job.base \in Content[c]
  BY BaseOf
<1>2. proc.pc = "daemon"
  BY DaemonAsked
<1> QED
  BY <1>1, <1>2, AskedApart

LEMMA JobsTyped ==
  ASSUME PostTypes, EncInv, [Next]_vars
  PROVE  \A n \in Queues : \A i \in DOMAIN q'[n] : q'[n][i] \in Jobs
<1>1. q' \in [Queues -> Seq(Jobs)]
  BY TypesKept DEF PostTypes
<1>2. \A n \in Queues : q'[n] \in Seq(Jobs)
  BY <1>1
<1> QED
  BY <1>2

LEMMA InputKept ==
  ASSUME PostTypes, EncInv, Core, [Next]_vars, ~dangling'
  PROVE  InputInv'
<1>1. ASSUME NEW job \in Jobs, From("inputPPQ", job)
      PROVE  /\ job.base[1] > 0 /\ job.base[2] = 0 /\ job.src = <<job.base[1], job.count>>
             /\ \A s \in Known' : s[1] = job.base[1] => s[2] <= job.count
  <2>1. PPJob(job, job.count) /\ (Reprocess => job.base # proc.job.base)
    <3>1. CASE \E k \in DOMAIN q["inputPPQ"] : job = q["inputPPQ"][k]
      <4>1. PICK k \in DOMAIN q["inputPPQ"] : job = q["inputPPQ"][k]
        BY <3>1
      <4>2. PPJob(job, job.count)
        BY <4>1 DEF Core, ShapeInv, InputInv
      <4>3. /\ "inputPPQ" \in Containers /\ Content["inputPPQ"] = SeqFrames(q["inputPPQ"])
            /\ FramesOf(job) \subseteq SeqFrames(q["inputPPQ"])
        BY <4>1, ContentIs, FramesOfMember DEF Queues
      <4>4. job.base[1] > 0 /\ job.base[2] = 0
        BY <4>2 DEF PPJob
      <4> QED
        BY <4>2, <4>3, <4>4, NotAsked
    <3>2. CASE Input = "inputPPQ" /\ cap.pc = "wait" /\ job = Job(cap.frame)
      <4>1. mode.passes > 0
        BY <3>2 DEF Input
      <4>2. job.src = cap.frame /\ job.base = cap.frame /\ job.count = 0 /\ cap.frame \in Frames
        BY <3>2, <4>1, JobTyped, ThreadRecords
      <4>3. /\ cap.frame[1] > 0 /\ cap.frame[2] = 0
            /\ \A s \in Known : s[1] = cap.frame[1] => s[2] = 0
        BY <3>2 DEF Core, ShapeInv, CapInv
      <4>4. cap.frame = <<cap.frame[1], 0>>
        BY <4>2, <4>3 DEF Frames
      <4>5. PPJob(job, job.count)
        BY <4>2, <4>3, <4>4 DEF PPJob, Bounded
      <4>6. "cap" \in Containers /\ Content["cap"] = {cap.frame} /\ FramesOf(job) \subseteq {cap.frame}
        BY <3>2, <4>2, ContentIs DEF CapFrames, FramesOf
      <4> QED
        BY <4>2, <4>3, <4>5, <4>6, NotAsked
    <3>3. CASE pp.pc = "job" /\ job = [pp.job EXCEPT !.src = pp.frame]
      <4>1. /\ PPJob(pp.job, pp.job.count - 1) /\ Matches(pp.job, pp.frame) /\ pp.job \in Jobs
        BY <3>3, ThreadRecords DEF Core, ShapeInv, TakenInv
      <4>2. job.src = pp.frame /\ job.base = pp.job.base /\ job.count = pp.job.count
        BY <3>3, <4>1 DEF Jobs
      <4>3. PPJob(job, job.count)
        BY <4>1, <4>2 DEF PPJob, Bounded, Matches
      <4>4. "pp" \in Containers /\ Content["pp"] = {pp.frame} \cup FramesOf(pp.job)
        BY <3>3, ContentIs DEF PPFrames
      <4>5. FramesOf(job) \subseteq Content["pp"]
        BY <4>2, <4>4 DEF FramesOf
      <4>6. job.base[1] > 0 /\ job.base[2] = 0
        BY <4>3 DEF PPJob
      <4> QED
        BY <4>3, <4>4, <4>5, <4>6, NotAsked
    <3> QED
      BY <1>1, <3>1, <3>2, <3>3 DEF From
  <2> QED
    BY <2>1, BoundKept DEF PPJob
<1>2. \A i \in DOMAIN q'["inputPPQ"] : From("inputPPQ", q'["inputPPQ"][i])
  BY JobsFrom DEF Queues
<1>3. \A i \in DOMAIN q'["inputPPQ"] : q'["inputPPQ"][i] \in Jobs
  BY JobsTyped DEF Queues
<1> QED
  BY <1>1, <1>2, <1>3 DEF InputInv, PPJob, Bounded

LEMMA OngoingKept ==
  ASSUME PostTypes, EncInv, Core, [Next]_vars, ~dangling'
  PROVE  OngoingInv'
<1>1. ASSUME NEW job \in Jobs, From("ongoingPPQ", job)
      PROVE  /\ job.count > 0
             /\ job.base[1] > 0 /\ job.base[2] = 0 /\ job.src = <<job.base[1], job.count - 1>>
             /\ \A s \in Known' : s[1] = job.base[1] => s[2] <= job.count
  <2>1. /\ job.count > 0 /\ PPJob(job, job.count - 1)
        /\ Reprocess => (job.base = proc.job.base => job.count >= proc.job.count)
    <3>1. CASE \E k \in DOMAIN OP : job = OP[k]
      <4>1. PICK k \in DOMAIN OP : job = OP[k]
        BY <3>1
      <4>2. job.count > 0 /\ PPJob(job, job.count - 1)
        BY <4>1 DEF Core, ShapeInv, OngoingInv
      <4>3. job.base \in FramesOf(OP[k])
        BY <4>1, <4>2, BaseOf DEF PPJob
      <4>4. ASSUME Reprocess, job.base = proc.job.base
            PROVE  job = proc.job
        <5>1. proc.pc = "daemon"
          BY <4>4, DaemonAsked
        <5> QED
          BY <4>1, <4>3, <4>4, <5>1, AskedApart
      <4>5. job.count \in Nat
        BY DEF Jobs
      <4> QED
        BY <4>2, <4>4, <4>5
    <3>2. CASE q["inputPPQ"] # <<>> /\ job = [q["inputPPQ"][1] EXCEPT !.count = @ + 1]
      <4>1. PICK h : h = q["inputPPQ"][1]
        OBVIOUS
      <4>2. 1 \in DOMAIN q["inputPPQ"] /\ h \in Jobs
        BY <3>2, <4>1, JobsOfQueue DEF Queues
      <4>3. PPJob(h, h.count) /\ h.count \in Nat
        BY <4>1, <4>2 DEF Core, ShapeInv, InputInv, Jobs
      <4>4. job.src = h.src /\ job.base = h.base /\ job.count = h.count + 1
        BY <3>2, <4>1, <4>2 DEF Jobs
      <4>5. job.count > 0 /\ job.count - 1 = h.count
        BY <4>3, <4>4
      <4>6. \A s \in Known : s[1] = job.base[1] => s[2] <= job.count
        <5>1. \A s \in Known : s[2] \in Nat
          BY KnownTyped DEF Frames
        <5>2. \A s \in Known : s[1] = h.base[1] => s[2] <= h.count
          BY <4>3 DEF PPJob, Bounded
        <5> QED
          BY <4>3, <4>4, <5>1, <5>2
      <4>7. PPJob(job, job.count - 1)
        BY <4>3, <4>4, <4>5, <4>6 DEF PPJob, Bounded
      <4>8. /\ "inputPPQ" \in Containers /\ Content["inputPPQ"] = SeqFrames(q["inputPPQ"])
            /\ FramesOf(h) \subseteq SeqFrames(q["inputPPQ"])
        BY <4>1, <4>2, ContentIs, FramesOfMember DEF Queues
      <4>9. FramesOf(job) = FramesOf(h)
        BY <4>4 DEF FramesOf
      <4>10. job.base[1] > 0 /\ job.base[2] = 0
        BY <4>7 DEF PPJob
      <4> QED
        BY <4>5, <4>7, <4>8, <4>9, <4>10, NotAsked
    <3> QED
      BY <1>1, <3>1, <3>2 DEF From, Input, OP
  <2> QED
    BY <2>1, BoundKept DEF PPJob
<1>2. \A i \in DOMAIN q'["ongoingPPQ"] : From("ongoingPPQ", q'["ongoingPPQ"][i])
  BY JobsFrom DEF Queues
<1>3. \A i \in DOMAIN q'["ongoingPPQ"] : q'["ongoingPPQ"][i] \in Jobs
  BY JobsTyped DEF Queues
<1> QED
  BY <1>1, <1>2, <1>3 DEF OngoingInv, OP, PPJob, Bounded

LEMMA JpegKept ==
  ASSUME PostTypes, EncInv, Core, [Next]_vars
  PROVE  JpegInv'
<1>1. ASSUME NEW n \in JpegQueues, NEW job \in Jobs, From(n, job)
      PROVE  job.src[1] > 0 /\ job.base[2] = 0
  <2>1. ASSUME NEW m \in JpegQueues, NEW k \in DOMAIN q[m], job.src = q[m][k].src, job.base = q[m][k].base
        PROVE  job.src[1] > 0 /\ job.base[2] = 0
    BY <2>1 DEF Core, ShapeInv, JpegInv, JpegJob, JpegQueues
  <2>2. CASE cap.pc = "wait" /\ job = Job(cap.frame)
    <3>1. job.src = cap.frame /\ (job.base = cap.frame \/ job.base = NoFrame)
      BY <2>2, JobTyped, ThreadRecords
    <3>2. cap.frame[1] > 0 /\ cap.frame[2] = 0 /\ NoFrame[2] = 0
      BY <2>2 DEF Core, ShapeInv, CapInv, NoFrame
    <3> QED
      BY <3>1, <3>2
  <2>3. CASE pp.pc = "job" /\ job = [pp.job EXCEPT !.src = pp.frame]
    <3>1. PPJob(pp.job, pp.job.count - 1) /\ Matches(pp.job, pp.frame) /\ pp.job \in Jobs
      BY <2>3, ThreadRecords DEF Core, ShapeInv, TakenInv
    <3>2. job.src = pp.frame /\ job.base = pp.job.base
      BY <2>3, <3>1 DEF Jobs
    <3> QED
      BY <3>1, <3>2 DEF PPJob, Matches
  <2> QED
    BY <1>1, <2>1, <2>2, <2>3 DEF From, SameFrames, JpegQueues
<1>2. \A n \in JpegQueues : \A i \in DOMAIN q'[n] : From(n, q'[n][i]) /\ q'[n][i] \in Jobs
  BY JobsFrom, JobsTyped DEF JpegQueues, Queues
<1>3. \A n \in JpegQueues : \A i \in DOMAIN q'[n] : q'[n][i].src[1] > 0 /\ q'[n][i].base[2] = 0
  BY <1>1, <1>2
<1>4. ASSUME proc'.pc = "release"
      PROVE  proc'.job.src[1] > 0 /\ proc'.job.base[2] = 0
  <2>1. CASE proc' = proc
    BY <1>4, <2>1 DEF Core, ShapeInv, JpegInv, JpegJob
  <2>2. CASE AbortJob /\ Has("ongoingJpegQ")
    <3>1. proc' = [pc |-> "release", job |-> Head(q["ongoingJpegQ"])] /\ q["ongoingJpegQ"] # <<>>
      BY <2>2 DEF AbortJob, Has
    <3>2. Head(q["ongoingJpegQ"]) = q["ongoingJpegQ"][1] /\ 1 \in DOMAIN q["ongoingJpegQ"]
      BY <3>1, JobsOfQueue DEF Queues
    <3>3. JpegJob(q["ongoingJpegQ"][1])
      BY <3>2 DEF Core, ShapeInv, JpegInv
    <3> QED
      BY <3>1, <3>2, <3>3 DEF JpegJob
  <2> QED
    BY <1>4, <2>1, <2>2, ThreadSteps
<1> QED
  BY <1>3, <1>4 DEF JpegInv, JpegJob, JpegQueues

(* Only the capture channel numbers pictures, and only takePicture says     *)
(* what they are for.                                                       *)
LEMMA PictureKept ==
  ASSUME [Next]_vars
  PROVE  /\ CapFrame \/ next' = next
         /\ (\E m \in Modes : TakePicture(m)) \/ (mode' = mode /\ first' = first)
<1> USE DEF takeVars, vars
<1>1. CASE CapFrame
  BY <1>1 DEF CapFrame
<1>2. CASE DataProcess \/ Deferred
  BY <1>2 DEF DataProcess, Deferred, DefStart, DefSession, StartData, NextJpegJob, StartJob, NoteJobId,
              NextPPJob, Reprocess, StopCapture, DropJob, StopData, AbortJob, ReleaseJob, StopDone, FlushQueue
<1>3. CASE ProcessData \/ CapSend \/ CapRefused \/ PostCapture
  BY <1>3 DEF ProcessData, CapSend, CapRefused, PostCapture, PPFrame, TakePPJob, ProcessPPData, PPSend
<1>4. CASE EncodeDone \/ JpegEvent \/ Stopping \/ CancelPicture \/ UNCHANGED vars
  BY <1>4 DEF EncodeDone, JpegEvent, Stopping, StopCaptureChannel, JoinPP, JoinCapture, CancelPicture
<1>5. CASE \E m \in Modes : TakePicture(m)
  BY <1>5 DEF TakePicture
<1> QED
  BY <1>1, <1>2, <1>3, <1>4, <1>5 DEF Next, Capture

LEMMA NextKept ==
  ASSUME PostTypes, Core, [Next]_vars, ~dangling'
  PROVE  NextInv'
<1>0. next \in Nat /\ next > 0 /\ \A s \in Known : s[1] \in Nat /\ s[1] < next
  BY KnownTyped DEF PostTypes, Core, ShapeInv, NextInv, Frames
<1>1. CASE CapFrame
  <2>1. next' = next + 1 /\ \A s \in Known' : s \in Known \/ s = <<next, 0>>
    BY <1>1, KnownByCapture DEF CapFrame
  <2> QED
    BY <1>0, <2>1 DEF NextInv
<1>2. CASE Reprocess
  <2>1. proc.pc = "daemon" /\ \A s \in Known' : s \in Known \/ s = Asked
    BY <1>2, DaemonAsked, KnownByAsking
  <2>2. Asked[1] = proc.job.base[1] /\ proc.job.base \in Known
    BY <2>1, AskedApart
  <2>3. CapFrame \/ next' = next
    BY PictureKept
  <2>4. ~CapFrame
    BY <1>2 DEF Reprocess, CapFrame, takeVars, GoTo, At, Known
  <2> QED
    BY <1>0, <2>1, <2>2, <2>3, <2>4 DEF NextInv
<1>3. CASE ~CapFrame /\ ~Reprocess
  BY <1>0, <1>3, KnownKept, PictureKept DEF NextInv
<1> QED
  BY <1>1, <1>2, <1>3

LEMMA CapKept ==
  ASSUME PostTypes, Core, [Next]_vars, ~dangling'
  PROVE  CapInv'
<1> SUFFICES ASSUME cap'.pc = "wait"
             PROVE  /\ cap'.frame[1] > 0 /\ cap'.frame[2] = 0
                    /\ \A s \in Known' : s[1] = cap'.frame[1] => s[2] = 0
  BY DEF CapInv
<1>1. CASE CapFrame
  <2>1. next \in Nat /\ next > 0 /\ \A s \in Known : s[1] \in Nat /\ s[1] < next
    BY KnownTyped DEF PostTypes, Core, ShapeInv, NextInv, Frames
  <2>2. cap'.frame = <<next, 0>> /\ \A s \in Known' : s \in Known \/ s = <<next, 0>>
    BY <1>1, KnownByCapture DEF CapFrame
  <2> QED
    BY <2>1, <2>2
<1>2. CASE cap.pc = "wait" /\ cap'.frame = cap.frame /\ ~CapFrame
  <2>1. /\ cap.frame[1] > 0 /\ cap.frame[2] = 0 /\ cap.frame \in Frames
        /\ \A s \in Known : s[1] = cap.frame[1] => s[2] = 0
    BY <1>2, ThreadRecords DEF Core, ShapeInv, CapInv
  <2>2. CASE Reprocess
    <3>1. proc.pc = "daemon" /\ \A s \in Known' : s \in Known \/ s = Asked
      BY <2>2, DaemonAsked, KnownByAsking
    <3>2. /\ Asked[1] = proc.job.base[1] /\ proc.job.base = <<proc.job.base[1], 0>>
          /\ \A c \in Containers : proc.job.base \in Content[c] => c = "ongoingPPQ"
      BY <3>1, AskedApart, BaseOf DEF PPJob
    <3>3. cap.frame = <<cap.frame[1], 0>>
      BY <2>1 DEF Frames
    <3>4. "cap" \in Containers /\ cap.frame \in Content["cap"]
      BY <1>2, ContentIs DEF CapFrames
    <3>5. cap.frame[1] # proc.job.base[1]
      BY <3>2, <3>3, <3>4
    <3> QED
      BY <1>2, <2>1, <3>1, <3>2, <3>5
  <2>3. CASE ~Reprocess
    BY <1>2, <2>1, <2>3, KnownKept
  <2> QED
    BY <2>2, <2>3
<1> QED
  BY <1>1, <1>2, ThreadSteps

(* While pictures are processed, or the state machine waits for a stop that *)
(* has not come to ongoingPPQ, that queue was not flushed.                  *)
LEMMA WorkUnflushed ==
  ASSUME PhaseInv, proc.pc \in WorkPcs
  PROVE  ~Flushed
BY DEF PhaseInv, Flushed, PPFlushed, WorkPcs

LEMMA DaemonKept ==
  ASSUME PostTypes, PhaseInv, Core, [Next]_vars, ~dangling'
  PROVE  DaemonInv'
<1> SUFFICES ASSUME proc'.pc = "daemon"
             PROVE  /\ Len(OP') > 0 /\ proc'.job = OP'[Len(OP')]
                    /\ \A s \in Known' : s[1] = proc'.job.base[1] => s[2] < proc'.job.count
  BY DEF DaemonInv
<1>0. OP \in Seq(Jobs) /\ Len(OP) \in Nat /\ q \in [Queues -> Seq(Jobs)]
  BY JobsOfQueue DEF OP, Queues, PostTypes
<1>1. CASE NextPPJob
  <2>1. /\ Has("inputPPQ")
        /\ proc' = [pc |-> "daemon", job |-> [Head(q["inputPPQ"]) EXCEPT !.count = @ + 1]]
        /\ q' = [q EXCEPT !["inputPPQ"] = Tail(@),
                          !["ongoingPPQ"] = Append(@, [Head(q["inputPPQ"]) EXCEPT !.count = @ + 1])]
    BY <1>1 DEF NextPPJob, GoTo
  <2>2. PICK h : h = Head(q["inputPPQ"])
    OBVIOUS
  <2>3. h \in Jobs /\ h = q["inputPPQ"][1] /\ 1 \in DOMAIN q["inputPPQ"]
    BY <2>1, <2>2, JobsOfQueue DEF Has, Queues
  <2>4. PICK job : job = [h EXCEPT !.count = @ + 1]
    OBVIOUS
  <2>5. job \in Jobs /\ job.base = h.base /\ job.count = h.count + 1 /\ h.count \in Nat
    BY <2>3, <2>4 DEF Jobs
  <2>6. OP' = Append(OP, job) /\ proc'.job = job
    BY <1>0, <2>1, <2>2, <2>4 DEF OP, Queues
  <2>7. PICK t : t = Append(OP, job)
    OBVIOUS
  <2>8. Len(t) = Len(OP) + 1 /\ t[Len(OP) + 1] = job
    BY <1>0, <2>5, <2>7, Appended
  <2>9. ~CapFrame /\ ~Reprocess
    <3>1. proc.pc = "reprocess" /\ proc'.pc = "daemon"
      BY <1>1, <2>1 DEF NextPPJob, At
    <3>2. CapFrame => proc' = proc
      BY DEF CapFrame
    <3>3. Reprocess => proc.pc = "daemon"
      BY DEF Reprocess, At
    <3> QED
      BY <3>1, <3>2, <3>3
  <2>10. \A s \in Known' : s \in Known
    BY <2>9, KnownKept
  <2>11. \A s \in Known : s[1] = h.base[1] => s[2] <= h.count
    BY <2>3 DEF Core, ShapeInv, InputInv, PPJob, Bounded
  <2>12. \A s \in Known : s[2] \in Nat
    BY KnownTyped DEF Frames
  <2>13. \A s \in Known' : s[1] = proc'.job.base[1] => s[2] < proc'.job.count
    BY <2>5, <2>6, <2>10, <2>11, <2>12
  <2> QED
    BY <1>0, <2>6, <2>7, <2>8, <2>13
<1>2. CASE proc' = proc /\ (OP' = OP \/ TakePPJob)
  <2>0. proc.pc = "daemon"
    BY <1>2
  <2>1. /\ Len(OP) > 0 /\ proc.job = OP[Len(OP)] /\ proc.job.count > 0 /\ proc.job.base \in Known
        /\ \A s \in Known : s[1] = proc.job.base[1] => s[2] < proc.job.count
    BY <2>0, AskedApart DEF Core, ShapeInv, DaemonInv
  <2>2. Len(OP') > 0 /\ OP'[Len(OP')] = OP[Len(OP)]
    <3>1. CASE OP' = OP
      BY <2>1, <3>1
    <3>2. CASE TakePPJob
      <4>1. OP' = Tail(OP) \/ OP' = OP
        BY <1>0, <3>2 DEF TakePPJob, Pop, OP, Queues, queueVars
      <4>2. ~Flushed
        BY <2>0, WorkUnflushed DEF WorkPcs
      <4>3. pp.pc = "wait" /\ daemon \in Seq(Frames) /\ Len(daemon) \in Nat
        BY <3>2, DaemonInHand DEF TakePPJob
      <4>4. Len(OP) >= 2
        BY <2>0, <4>2, <4>3 DEF Core, Lockstep, Waiting
      <4>5. PICK t : t = Tail(OP)
        OBVIOUS
      <4>6. OP # <<>>
        BY <4>4
      <4>7. Len(t) = Len(OP) - 1 /\ \A i \in 1 .. Len(OP) - 1 : t[i] = OP[i + 1]
        BY <1>0, <4>5, <4>6, HeadTailProperties
      <4>8. Len(OP) - 1 \in 1 .. Len(OP) - 1 /\ (Len(OP) - 1) + 1 = Len(OP) /\ Len(OP) - 1 > 0
        BY <1>0, <4>4
      <4>9. t[Len(t)] = OP[Len(OP)] /\ Len(t) > 0
        BY <4>7, <4>8
      <4> QED
        BY <2>1, <4>1, <4>5, <4>9
    <3> QED
      BY <1>2, <3>1, <3>2
  <2>3. \A s \in Known' : s[1] = proc.job.base[1] => s[2] < proc.job.count
    <3>1. ~Reprocess
      <4>1. Reprocess => proc'.pc = "capture"
        BY DaemonAsked
      <4> QED
        BY <1>2, <2>0, <4>1
    <3>2. CASE CapFrame
      <4>1. \A s \in Known' : s \in Known \/ s = <<next, 0>>
        BY <3>2, KnownByCapture
      <4> QED
        BY <2>1, <4>1
    <3>3. CASE ~CapFrame
      BY <2>1, <3>1, <3>3, KnownKept
    <3> QED
      BY <3>2, <3>3
  <2> QED
    BY <1>2, <2>1, <2>2, <2>3
<1> QED
  BY <1>1, <1>2, ThreadSteps

LEMMA TakenKept ==
  ASSUME PostTypes, PhaseInv, QueueInv, Core, [Next]_vars, ~dangling'
  PROVE  TakenInv'
<1>1. pp'.pc # "job" => pp'.job = NoJob
  BY ThreadSteps DEF Core, ShapeInv, TakenInv
<1>2. ASSUME pp'.pc = "job"
      PROVE  /\ pp'.job \in Jobs /\ pp'.job.count > 0 /\ PPJob(pp'.job, pp'.job.count - 1)
             /\ Matches(pp'.job, pp'.frame) /\ (Reprocess => pp'.job.base # proc.job.base)
  <2>1. CASE pp' = pp
    <3>1. pp.job \in Jobs /\ pp.job.count > 0 /\ PPJob(pp.job, pp.job.count - 1) /\ Matches(pp.job, pp.frame)
      BY <1>2, <2>1, ThreadRecords DEF Core, ShapeInv, TakenInv
    <3>2. "pp" \in Containers /\ FramesOf(pp.job) \subseteq Content["pp"]
      BY <1>2, <2>1, ContentIs DEF PPFrames
    <3>3. pp.job.base[1] > 0 /\ pp.job.base[2] = 0
      BY <3>1 DEF PPJob
    <3>4. Reprocess => pp.job.base # proc.job.base
      BY <3>1, <3>2, <3>3, NotAsked
    <3> QED
      BY <2>1, <3>1, <3>4
  <2>2. CASE TakePPJob /\ Has("ongoingPPQ")
    <3>0. pp = [pc |-> pp.pc, frame |-> pp.frame, job |-> pp.job] /\ pp.pc = "wait"
      BY <2>2, ThreadRecords DEF TakePPJob
    <3>1. PICK h : h = Head(q["ongoingPPQ"])
      OBVIOUS
    <3>2. pp' = [pc |-> "job", frame |-> pp.frame, job |-> h]
      BY <2>2, <3>0, <3>1 DEF TakePPJob
    <3>3. h = OP[1] /\ 1 \in DOMAIN OP /\ h \in Jobs
      BY <2>2, <3>1, JobsOfQueue DEF Has, OP, Queues
    <3>4. h.count > 0 /\ PPJob(h, h.count - 1)
      BY <3>3 DEF Core, ShapeInv, OngoingInv
    <3>5. ~Flushed
      BY <2>2 DEF Flushed, QueueInv, Has, Queues
    <3>6. Matches(h, pp.frame)
      BY <3>0, <3>3, <3>5 DEF Core, Lockstep
    <3>7. ~Reprocess
      <4>1. Reprocess => pp' = pp
        BY DaemonAsked
      <4> QED
        BY <3>0, <3>2, <4>1
    <3> QED
      BY <3>2, <3>3, <3>4, <3>6, <3>7
  <2> QED
    BY <1>2, <2>1, <2>2, ThreadSteps
<1>3. ASSUME pp'.pc = "job"
      PROVE  /\ pp'.job.count > 0
             /\ pp'.job.base[1] > 0 /\ pp'.job.base[2] = 0 /\ pp'.job.src = <<pp'.job.base[1], pp'.job.count - 1>>
             /\ \A s \in Known' : s[1] = pp'.job.base[1] => s[2] <= pp'.job.count
             /\ pp'.frame = <<pp'.job.base[1], pp'.job.count>>
  <2>1. PICK job : job = pp'.job
    OBVIOUS
  <2>2. /\ job \in Jobs /\ job.count > 0 /\ PPJob(job, job.count - 1)
        /\ pp'.frame = <<job.base[1], job.count>> /\ (Reprocess => job.base # proc.job.base)
    BY <1>2, <1>3, <2>1 DEF Matches
  <2>3. \A s \in Known' : s[1] = job.base[1] => s[2] <= job.count
    BY <2>2, BoundKept
  <2> QED
    BY <2>1, <2>2, <2>3 DEF PPJob
<1> QED
  BY <1>1, <1>3 DEF TakenInv, PPJob, Bounded, Matches

LEMMA ShapeKept ==
  ASSUME PostTypes, PhaseInv, QueueInv, EncInv, Core, [Next]_vars, ~dangling'
  PROVE  ShapeInv'
BY NextKept, CapKept, InputKept, OngoingKept, DaemonKept, TakenKept, JpegKept DEF ShapeInv

(* The daemon and the callback thread of the reprocess channel keep step    *)
(* with ongoingPPQ.                                                         *)
Pending == IF proc.pc = "daemon" THEN 1 ELSE 0

LEMMA LockstepSame ==
  ASSUME Lockstep, daemon' = daemon, OP' = OP, received' = received,
         pp' = pp \/ (pp.pc # "wait" /\ pp'.pc # "wait"),
         proc'.pc = "daemon" <=> proc.pc = "daemon", Flushed => Flushed'
  PROVE  Lockstep'
<1>1. Waiting' = Waiting /\ (pp'.pc = "wait" => pp.pc = "wait" /\ pp'.frame = pp.frame)
  BY DEF Waiting
<1>2. ~Flushed' => ~Flushed
  OBVIOUS
<1> QED
  BY <1>1, <1>2 DEF Lockstep, Matches

(* An empty daemon has nothing that could be out of step.                   *)
LEMMA LockstepEmpty ==
  ASSUME daemon' = <<>>, pp'.pc # "wait", Flushed' \/ (OP' = <<>> /\ proc'.pc # "daemon")
  PROVE  Lockstep'
<1>1. Waiting' = 0 /\ Len(daemon') = 0 /\ \A i : i \notin DOMAIN daemon'
  BY DEF Waiting
<1>2. Flushed' \/ (Len(OP') = 0 /\ proc'.pc # "daemon")
  OBVIOUS
<1> QED
  BY <1>1, <1>2 DEF Lockstep

LEMMA LockstepKept ==
  ASSUME PostTypes, PhaseInv, QueueInv, Core, [Next]_vars, ~dangling'
  PROVE  Lockstep'
<1> USE DEF queueVars, threadVars, takeVars, eventVars, frameVars
<1>0. /\ proc = [pc |-> proc.pc, job |-> proc.job] /\ q \in [Queues -> Seq(Jobs)]
      /\ pp = [pc |-> pp.pc, frame |-> pp.frame, job |-> pp.job]
  BY ThreadRecords DEF PostTypes
<1>1. CASE \E m \in Modes : TakePicture(m)
  <2>1. /\ UNCHANGED <<pp, daemon>> /\ received' = received /\ (Flushed => Flushed')
        /\ proc'.pc = "daemon" <=> proc.pc = "daemon"
    BY <1>0, <1>1 DEF TakePicture, Flushed, PPFlushed
  <2>2. OP' = OP
    BY <1>0, <1>1 DEF TakePicture, OP, Queues
  <2> QED
    BY <2>1, <2>2, LockstepSame DEF Core
<1>2. CASE DefStart
  <2>1. /\ UNCHANGED <<pp, daemon>> /\ received' = received /\ (Flushed => Flushed')
        /\ proc'.pc = "daemon" <=> proc.pc = "daemon"
    BY <1>0, <1>2 DEF DefStart, Flushed, PPFlushed
  <2>2. OP' = OP
    BY <1>0, <1>2 DEF DefStart, OP, Queues
  <2> QED
    BY <2>1, <2>2, LockstepSame DEF Core
<1>3. CASE DefSession
  <2>1. /\ UNCHANGED <<pp, daemon>> /\ received' = received /\ (Flushed => Flushed')
        /\ proc'.pc = "daemon" <=> proc.pc = "daemon"
    BY <1>0, <1>3 DEF DefSession, Flushed, PPFlushed
  <2>2. OP' = OP
    BY <1>0, <1>3 DEF DefSession, OP, Queues
  <2> QED
    BY <2>1, <2>2, LockstepSame DEF Core
<1>4. CASE CapFrame
  <2>1. /\ UNCHANGED <<q, pp, proc, sm, daemon>> /\ received' = received \cup {<<next, 0>>}
    BY <1>4 DEF CapFrame, Receive
  <2>2. \A i \in DOMAIN daemon : daemon[i] \notin received'
    BY <2>1 DEF Core, Lockstep
  <2>3. OP' = OP /\ Waiting' = Waiting /\ (Flushed' <=> Flushed)
    BY <2>1 DEF OP, Waiting, Flushed, PPFlushed
  <2> QED
    BY <2>1, <2>2, <2>3 DEF Core, Lockstep, Matches
<1>5. CASE ProcessData
  <2>1. /\ UNCHANGED <<pp, daemon>> /\ received' = received /\ (Flushed => Flushed')
        /\ proc'.pc = "daemon" <=> proc.pc = "daemon"
    BY <1>0, <1>5 DEF ProcessData, GiveBack, NoneReleased, Flushed, PPFlushed
  <2>2. OP' = OP
    BY <1>0, <1>5 DEF ProcessData, Put, Input, OP, Queues
  <2> QED
    BY <2>1, <2>2, LockstepSame DEF Core
<1>6. CASE CapSend
  <2>1. /\ UNCHANGED <<pp, daemon>> /\ received' = received /\ (Flushed => Flushed')
        /\ proc'.pc = "daemon" <=> proc.pc = "daemon"
    BY <1>0, <1>6 DEF CapSend, CapIdle, Flushed, PPFlushed
  <2>2. OP' = OP
    BY <1>0, <1>6 DEF CapSend, CapIdle, OP, Queues
  <2> QED
    BY <2>1, <2>2, LockstepSame DEF Core
<1>7. CASE CapRefused
  <2>1. /\ UNCHANGED <<pp, daemon>> /\ received' = received /\ (Flushed => Flushed')
        /\ proc'.pc = "daemon" <=> proc.pc = "daemon"
    BY <1>0, <1>7 DEF CapRefused, GiveBack, Flushed, PPFlushed
  <2>2. OP' = OP
    BY <1>0, <1>7 DEF CapRefused, GiveBack, OP, Queues
  <2> QED
    BY <2>1, <2>2, LockstepSame DEF Core
<1>8. CASE StartData
  <2>1. /\ UNCHANGED <<pp, daemon>> /\ received' = received /\ (Flushed => Flushed')
        /\ proc'.pc = "daemon" <=> proc.pc = "daemon"
    BY <1>0, <1>8 DEF StartData, Command, At, Flushed, PPFlushed
  <2>2. OP' = OP
    BY <1>0, <1>8 DEF StartData, Command, At, OP, Queues
  <2> QED
    BY <2>1, <2>2, LockstepSame DEF Core
<1>9. CASE NextJpegJob
  <2>1. /\ UNCHANGED <<pp, daemon>> /\ received' = received /\ (Flushed => Flushed')
        /\ proc'.pc = "daemon" <=> proc.pc = "daemon"
    BY <1>0, <1>9 DEF NextJpegJob, Command, At, GoTo, Flushed, PPFlushed
  <2>2. OP' = OP
    BY <1>0, <1>9 DEF NextJpegJob, Command, At, GoTo, OP, Queues
  <2> QED
    BY <2>1, <2>2, LockstepSame DEF Core
<1>10. CASE StartJob
  <2>1. /\ UNCHANGED <<pp, daemon>> /\ received' = received /\ (Flushed => Flushed')
        /\ proc'.pc = "daemon" <=> proc.pc = "daemon"
    BY <1>0, <1>10 DEF StartJob, At, GoTo, Release, GiveBack, NoneReleased, Flushed, PPFlushed
  <2>2. OP' = OP
    BY <1>0, <1>10 DEF StartJob, OP, Queues
  <2> QED
    BY <2>1, <2>2, LockstepSame DEF Core
<1>11. CASE NoteJobId
  <2>1. /\ UNCHANGED <<pp, daemon>> /\ received' = received /\ (Flushed => Flushed')
        /\ proc'.pc = "daemon" <=> proc.pc = "daemon"
    BY <1>0, <1>11 DEF NoteJobId, At, GoTo, Flushed, PPFlushed
  <2>2. OP' = OP
    BY <1>0, <1>11 DEF NoteJobId, At, GoTo, OP, Queues
  <2> QED
    BY <2>1, <2>2, LockstepSame DEF Core
<1>12. CASE NextPPJob
  <2>0. /\ UNCHANGED <<pp, sm, daemon, received>> /\ proc.pc = "reprocess"
        /\ proc'.pc \in {"daemon", "capture"} /\ (Flushed' <=> Flushed)
    BY <1>0, <1>12 DEF NextPPJob, At, GoTo, Flushed, PPFlushed
  <2>1. CASE q' = q /\ proc'.pc = "capture"
    BY <2>0, <2>1, LockstepSame DEF Core, OP
  <2>2. CASE /\ q["inputPPQ"] # <<>> /\ proc'.pc = "daemon"
             /\ q' = [q EXCEPT !["inputPPQ"] = Tail(@),
                               !["ongoingPPQ"] = Append(@, [Head(q["inputPPQ"]) EXCEPT !.count = @ + 1])]
    <3>1. PICK h : h = Head(q["inputPPQ"])
      OBVIOUS
    <3>2. h \in Jobs
      BY <2>2, <3>1, JobsOfQueue DEF Queues
    <3>3. PICK job : job = [h EXCEPT !.count = @ + 1]
      OBVIOUS
    <3>4. job \in Jobs
      BY <3>2, <3>3 DEF Jobs
    <3>5. OP' = Append(OP, job) /\ OP \in Seq(Jobs) /\ Len(OP) \in Nat
      BY <1>0, <2>2, <3>1, <3>3, JobsOfQueue DEF OP, Queues
    <3>6. PICK t : t = Append(OP, job)
      OBVIOUS
    <3>7. Len(t) = Len(OP) + 1 /\ \A i \in 1 .. Len(OP) : t[i] = OP[i]
      BY <3>4, <3>5, <3>6, Appended
    <3>8. Waiting' = Waiting /\ Waiting \in {0, 1} /\ (pp.pc = "wait" <=> Waiting = 1)
      BY <2>0 DEF Waiting
    <3>9. ASSUME ~Flushed'
          PROVE  /\ pp.pc = "wait" => Len(t) > 0 /\ Matches(t[1], pp.frame)
                 /\ Len(t) = Waiting + Len(daemon) + 1
                 /\ \A i \in DOMAIN daemon : Matches(t[i + Waiting], daemon[i])
      <4>1. /\ pp.pc = "wait" => Len(OP) > 0 /\ Matches(OP[1], pp.frame)
            /\ Len(OP) = Waiting + Len(daemon) + 0
            /\ \A i \in DOMAIN daemon : Matches(OP[i + Waiting], daemon[i])
        BY <2>0, <3>9 DEF Core, Lockstep
      <4>2. DOMAIN daemon = 1 .. Len(daemon) /\ Len(daemon) \in Nat
        BY DaemonInHand
      <4>3. \A i \in DOMAIN daemon : i + Waiting \in 1 .. Len(OP)
        BY <3>8, <4>1, <4>2
      <4>4. Len(OP) > 0 => 1 \in 1 .. Len(OP)
        BY <3>5
      <4> QED
        BY <3>5, <3>7, <3>8, <4>1, <4>2, <4>3, <4>4
    <3> QED
      BY <2>0, <2>2, <3>5, <3>6, <3>8, <3>9 DEF Core, Lockstep, Matches
  <2> QED
    BY <1>12, <2>1, <2>2 DEF NextPPJob, Has, GoTo
<1>13. CASE Reprocess
  <2>1. /\ UNCHANGED <<q, pp, sm>> /\ proc.pc = "daemon" /\ proc'.pc = "capture" /\ received' = received
        /\ Len(daemon') = Len(daemon) + 1 /\ DOMAIN daemon' = 1 .. Len(daemon) + 1
        /\ \A i \in 1 .. Len(daemon) : daemon'[i] = daemon[i]
        /\ daemon'[Len(daemon) + 1] = Asked
    BY <1>13, DaemonAsked DEF NoneReleased, frameVars
  <2>2. DOMAIN daemon = 1 .. Len(daemon) /\ Len(daemon) \in Nat
    BY DaemonInHand
  <2>3. /\ Asked \notin Known /\ Asked = <<proc.job.base[1], proc.job.count>> /\ proc.job.count > 0
        /\ proc.job = OP[Len(OP)]
    BY <2>1, AskedApart
  <2>4. \A i \in DOMAIN daemon : daemon[i] # Asked
    BY <2>3, KnownMembers
  <2>5. Asked \notin received /\ Asked[2] > 0
    BY <2>3, KnownMembers
  <2>6. \A i \in DOMAIN daemon' : (i \in DOMAIN daemon /\ daemon'[i] = daemon[i]) \/ (i = Len(daemon) + 1 /\ daemon'[i] = Asked)
    BY <2>1, <2>2
  <2>7. \A i, j \in DOMAIN daemon' : daemon'[i] = daemon'[j] => i = j
    BY <2>4, <2>6 DEF Core, Lockstep
  <2>8. \A i \in DOMAIN daemon' : daemon'[i] \notin received' /\ daemon'[i][2] > 0
    BY <2>1, <2>5, <2>6 DEF Core, Lockstep
  <2>9. ~Flushed /\ Waiting' = Waiting /\ OP' = OP /\ Waiting \in {0, 1}
    BY <2>1, WorkUnflushed DEF WorkPcs, Waiting, OP
  <2>10. /\ pp.pc = "wait" => Len(OP) > 0 /\ Matches(OP[1], pp.frame)
         /\ Len(OP) = Waiting + Len(daemon) + 1
         /\ \A i \in DOMAIN daemon : Matches(OP[i + Waiting], daemon[i])
    BY <2>1, <2>9 DEF Core, Lockstep
  <2>11. (Len(daemon) + 1) + Waiting = Len(OP)
    BY <2>2, <2>9, <2>10
  <2>12. Matches(OP[Len(OP)], Asked)
    BY <2>3 DEF Matches
  <2>13. \A i \in DOMAIN daemon' : Matches(OP[i + Waiting], daemon'[i])
    BY <2>6, <2>10, <2>11, <2>12
  <2>14. pp'.pc = "wait" => pp'.frame[2] > 0
    BY <2>1 DEF Core, Lockstep
  <2>15. Len(OP) = Waiting + Len(daemon') + 0
    BY <2>1, <2>2, <2>9, <2>10
  <2> QED
    BY <2>1, <2>7, <2>8, <2>9, <2>10, <2>13, <2>14, <2>15 DEF Lockstep, Matches
<1>14. CASE StopCapture
  <2>1. /\ UNCHANGED <<pp, daemon>> /\ received' = received /\ (Flushed => Flushed')
        /\ proc'.pc = "daemon" <=> proc.pc = "daemon"
    BY <1>0, <1>14 DEF StopCapture, At, GoTo, Flushed, PPFlushed
  <2>2. OP' = OP
    BY <1>0, <1>14 DEF StopCapture, At, GoTo, OP, Queues
  <2> QED
    BY <2>1, <2>2, LockstepSame DEF Core
<1>15. CASE DropJob
  <2>1. /\ UNCHANGED <<pp, daemon>> /\ received' = received /\ (Flushed => Flushed')
        /\ proc'.pc = "daemon" <=> proc.pc = "daemon"
    BY <1>0, <1>15 DEF DropJob, Command, At, Release, Flush, ReleaseAll, GiveBack, NoneReleased, Flushed, PPFlushed
  <2>2. OP' = OP
    BY <1>0, <1>15 DEF DropJob, Pop, Flush, OP, Queues
  <2> QED
    BY <2>1, <2>2, LockstepSame DEF Core
<1>16. CASE StopData
  <2>1. /\ UNCHANGED <<pp, daemon>> /\ received' = received /\ (Flushed => Flushed')
        /\ proc'.pc = "daemon" <=> proc.pc = "daemon"
    BY <1>0, <1>16 DEF StopData, Command, At, GoTo, Flushed, PPFlushed
  <2>2. OP' = OP
    BY <1>0, <1>16 DEF StopData, Command, At, GoTo, OP, Queues
  <2> QED
    BY <2>1, <2>2, LockstepSame DEF Core
<1>17. CASE AbortJob
  <2>1. /\ UNCHANGED <<pp, daemon>> /\ received' = received /\ (Flushed => Flushed')
        /\ proc'.pc = "daemon" <=> proc.pc = "daemon"
    BY <1>0, <1>17 DEF AbortJob, At, GoTo, Flushed, PPFlushed
  <2>2. OP' = OP
    BY <1>0, <1>17 DEF AbortJob, Pop, OP, Queues
  <2> QED
    BY <2>1, <2>2, LockstepSame DEF Core
<1>18. CASE ReleaseJob
  <2>1. /\ UNCHANGED <<pp, daemon>> /\ received' = received /\ (Flushed => Flushed')
        /\ proc'.pc = "daemon" <=> proc.pc = "daemon"
    BY <1>0, <1>18 DEF ReleaseJob, At, GoTo, Release, GiveBack, Flushed, PPFlushed
  <2>2. OP' = OP
    BY <1>0, <1>18 DEF ReleaseJob, At, GoTo, Release, GiveBack, OP, Queues
  <2> QED
    BY <2>1, <2>2, LockstepSame DEF Core
<1>19. CASE \/ FlushQueue("ongoingPPQ", "inputJpegQ") \/ FlushQueue("inputJpegQ", "inputPPQ") \/ FlushQueue("inputPPQ", "stopped")
  <2>1. /\ proc'.pc \in {"inputJpegQ", "inputPPQ", "stopped"} /\ UNCHANGED <<pp, daemon>>
    BY <1>19 DEF FlushQueue, GoTo
  <2>2. received' = received
    BY <1>19 DEF FlushQueue, Flush, ReleaseAll, GiveBack, NoneReleased
  <2>3. Flushed' /\ Waiting' = Waiting
    BY <2>1 DEF Flushed, PPFlushed, Waiting
  <2> QED
    BY <2>1, <2>2, <2>3 DEF Core, Lockstep
<1>20. CASE StopDone
  <2>1. /\ UNCHANGED <<pp, daemon>> /\ received' = received /\ (Flushed => Flushed')
        /\ proc'.pc = "daemon" <=> proc.pc = "daemon"
    BY <1>0, <1>20 DEF StopDone, At, GoTo, Flushed, PPFlushed
  <2>2. OP' = OP
    BY <1>0, <1>20 DEF StopDone, At, GoTo, OP, Queues
  <2> QED
    BY <2>1, <2>2, LockstepSame DEF Core
<1>21. CASE PPFrame
  <2>1. /\ Len(daemon) > 0 /\ 1 \in DOMAIN daemon /\ Len(daemon') = Len(daemon) - 1
        /\ DOMAIN daemon' = 1 .. Len(daemon) - 1
        /\ \A i \in 1 .. Len(daemon) - 1 : daemon'[i] = daemon[i + 1]
        /\ received' = received \cup {daemon[1]} /\ pp.pc = "idle"
        /\ pp'.pc = "wait" /\ pp'.frame = daemon[1]
    BY <1>21, HeadReceived
  <2>2. DOMAIN daemon = 1 .. Len(daemon) /\ Len(daemon) \in Nat
    BY DaemonInHand
  <2>3. \A i \in DOMAIN daemon' : i + 1 \in DOMAIN daemon /\ i + 1 # 1 /\ daemon'[i] = daemon[i + 1]
    BY <2>1, <2>2
  <2>4. \A i, j \in DOMAIN daemon : daemon[i] = daemon[j] => i = j
    BY DEF Core, Lockstep
  <2>5. \A i, j \in DOMAIN daemon' : daemon'[i] = daemon'[j] => i = j
    <3> TAKE i, j \in DOMAIN daemon'
    <3>1. daemon'[i] = daemon'[j] => i + 1 = j + 1
      BY <2>3, <2>4
    <3> QED
      BY <2>1, <3>1
  <2>6. \A i \in DOMAIN daemon' : daemon'[i] \notin received' /\ daemon'[i][2] > 0
    <3>1. \A i \in DOMAIN daemon' : daemon'[i] # daemon[1]
      BY <2>1, <2>3, <2>4
    <3> QED
      BY <2>1, <2>3, <3>1 DEF Core, Lockstep
  <2>7. pp'.frame[2] > 0
    BY <2>1 DEF Core, Lockstep
  <2>8. OP' = OP /\ (Flushed' <=> Flushed) /\ proc' = proc /\ Waiting' = 1 /\ Waiting = 0
    BY <1>21, <2>1 DEF PPFrame, OP, Flushed, PPFlushed, Waiting
  <2>9. ASSUME ~Flushed'
        PROVE  /\ Len(OP) > 0 /\ Matches(OP[1], daemon[1])
               /\ Len(OP) = 1 + Len(daemon') + Pending
               /\ \A i \in DOMAIN daemon' : Matches(OP[i + 1], daemon'[i])
    <3>1. /\ Len(OP) = 0 + Len(daemon) + Pending
          /\ \A i \in DOMAIN daemon : Matches(OP[i + 0], daemon[i])
      BY <2>8, <2>9 DEF Core, Lockstep, Pending
    <3>2. \A i \in DOMAIN daemon : Matches(OP[i], daemon[i])
      BY <2>2, <3>1
    <3>3. Pending \in {0, 1}
      BY DEF Pending
    <3> QED
      BY <2>1, <2>2, <2>3, <3>1, <3>2, <3>3
  <2> QED
    BY <2>1, <2>5, <2>6, <2>7, <2>8, <2>9 DEF Lockstep, Matches, Pending
<1>22. CASE TakePPJob
  <2>1. /\ pp.pc = "wait" /\ def = "done" /\ UNCHANGED <<proc, sm, daemon, received>>
    BY <1>22 DEF TakePPJob, NoneReleased
  <2>2. pp'.pc # "wait"
    <3>1. CASE pp' = [pp EXCEPT !.pc = "job", !.job = Head(q["ongoingPPQ"])]
      BY <1>0, <3>1
    <3>2. CASE pp' = [pc |-> "idle", frame |-> NoFrame, job |-> NoJob]
      BY <3>2
    <3> QED
      BY <1>22, <3>1, <3>2 DEF TakePPJob, PPIdle
  <2>3. (Flushed' <=> Flushed) /\ Waiting' = 0 /\ Waiting = 1
    BY <2>1, <2>2 DEF Flushed, PPFlushed, Waiting
  <2>4. ASSUME ~Flushed
        PROVE  /\ Len(OP') = 0 + Len(daemon) + Pending
               /\ \A i \in DOMAIN daemon : Matches(OP'[i + 0], daemon[i])
    <3>1. /\ Len(OP) > 0 /\ Len(OP) = 1 + Len(daemon) + Pending
          /\ \A i \in DOMAIN daemon : Matches(OP[i + 1], daemon[i])
      BY <2>1, <2>3, <2>4 DEF Core, Lockstep, Pending
    <3>2. OP \in Seq(Jobs) /\ OP # <<>>
      BY <3>1, JobsOfQueue DEF OP, Queues
    <3>3. Has("ongoingPPQ")
      BY <2>1, <2>4, <3>2 DEF Has, QueueInv, OP
    <3>4. OP' = Tail(OP)
      BY <1>0, <1>22, <3>3 DEF TakePPJob, Pop, OP, Queues
    <3>5. PICK t : t = Tail(OP)
      OBVIOUS
    <3>6. Len(t) = Len(OP) - 1 /\ \A i \in 1 .. Len(OP) - 1 : t[i] = OP[i + 1]
      BY <3>2, <3>5, HeadTailProperties
    <3>7. DOMAIN daemon = 1 .. Len(daemon) /\ Len(daemon) \in Nat /\ Pending \in {0, 1}
      BY DaemonInHand DEF Pending
    <3>8. \A i \in DOMAIN daemon : i + 0 = i /\ i \in 1 .. Len(OP) - 1
      BY <3>1, <3>7
    <3>9. Len(t) = 0 + Len(daemon) + Pending
      BY <3>1, <3>6, <3>7
    <3>10. \A i \in DOMAIN daemon : Matches(t[i + 0], daemon[i])
      BY <3>1, <3>6, <3>8
    <3> QED
      BY <3>4, <3>5, <3>9, <3>10
  <2> QED
    BY <2>1, <2>2, <2>3, <2>4 DEF Core, Lockstep, Matches, Pending
<1>23. CASE ProcessPPData
  <2>1. /\ UNCHANGED <<proc, sm, daemon>> /\ received' = received /\ pp.pc = "job"
    BY <1>23 DEF ProcessPPData, GiveBack
  <2>2. pp'.pc # "wait"
    <3>1. CASE pp' = [pp EXCEPT !.pc = "send", !.job = NoJob]
      BY <1>0, <3>1
    <3>2. CASE pp' = [pc |-> "idle", frame |-> NoFrame, job |-> NoJob]
      BY <3>2
    <3> QED
      BY <1>23, <3>1, <3>2 DEF ProcessPPData, PPIdle
  <2>3. OP' = OP
    BY <1>0, <1>23 DEF ProcessPPData, Put, OP, Queues
  <2> QED
    BY <2>1, <2>2, <2>3, LockstepSame DEF Core, Flushed, PPFlushed
<1>24. CASE PPSend
  <2>1. UNCHANGED <<q, proc, sm, daemon, received>> /\ pp.pc = "send" /\ pp'.pc = "idle"
    BY <1>24 DEF PPSend, PPIdle
  <2> QED
    BY <2>1, LockstepSame DEF Core, OP, Flushed, PPFlushed
<1>25. CASE EncodeDone
  <2>1. /\ UNCHANGED <<pp, daemon>> /\ received' = received /\ (Flushed => Flushed')
        /\ proc'.pc = "daemon" <=> proc.pc = "daemon"
    BY <1>0, <1>25 DEF EncodeDone, Flushed, PPFlushed
  <2>2. OP' = OP
    BY <1>0, <1>25 DEF EncodeDone, OP, Queues
  <2> QED
    BY <2>1, <2>2, LockstepSame DEF Core
<1>26. CASE JpegEvent
  <2>1. /\ UNCHANGED <<pp, daemon, proc, sm>> /\ received' = received
    BY <1>26 DEF JpegEvent, FlushDone, Release, GiveBack, NoneReleased
  <2>2. OP' = OP
    BY <1>0, <1>26, EventEffect DEF OP, Queues
  <2>3. Flushed => Flushed'
    BY <2>1 DEF Flushed, PPFlushed
  <2> QED
    BY <2>1, <2>2, <2>3, LockstepSame DEF Core
<1>27. CASE StopCaptureChannel
  <2>1. /\ UNCHANGED <<pp, daemon>> /\ received' = received /\ (Flushed => Flushed')
        /\ proc'.pc = "daemon" <=> proc.pc = "daemon"
    BY <1>0, <1>27 DEF StopCaptureChannel, Flushed, PPFlushed
  <2>2. OP' = OP
    BY <1>0, <1>27 DEF StopCaptureChannel, OP, Queues
  <2> QED
    BY <2>1, <2>2, LockstepSame DEF Core
<1>28. CASE CancelPicture
  <2>1. /\ UNCHANGED <<pp, daemon>> /\ received' = received /\ (Flushed => Flushed')
        /\ proc'.pc = "daemon" <=> proc.pc = "daemon"
    BY <1>0, <1>28 DEF CancelPicture, Flushed, PPFlushed
  <2>2. OP' = OP
    BY <1>0, <1>28 DEF CancelPicture, OP, Queues
  <2> QED
    BY <2>1, <2>2, LockstepSame DEF Core
<1>29. CASE JoinPP
  <2>1. daemon' = <<>> /\ sm' = "close" /\ pp' = pp /\ pp.pc = "idle"
    BY <1>29 DEF JoinPP
  <2> QED
    BY <2>1, LockstepEmpty DEF Flushed
<1>30. CASE JoinCapture
  <2>1. sm = "close" /\ UNCHANGED <<q, on, pp, proc, daemon>>
    BY <1>30 DEF JoinCapture
  <2>2. daemon = <<>> /\ pp.pc = "idle"
    BY <2>1 DEF PhaseInv
  <2>3. proc.pc # "daemon"
    BY <2>1 DEF PhaseInv, WorkPcs
  <2>4. OP = <<>>
    BY <2>1 DEF QueueInv, OP, Queues
  <2>5. OP' = OP
    BY <2>1 DEF OP
  <2> QED
    BY <2>1, <2>2, <2>3, <2>4, <2>5, LockstepEmpty
<1>31. CASE UNCHANGED vars
  <2>1. UNCHANGED <<q, pp, daemon, proc, sm, received>>
    BY <1>31 DEF vars
  <2> QED
    BY <2>1, LockstepSame DEF Core, OP, Flushed, PPFlushed
<1> QED
  BY <1>1, <1>2, <1>3, <1>4, <1>5, <1>6, <1>7, <1>8, <1>9, <1>10, <1>11, <1>12, <1>13, <1>14, <1>15, <1>16, <1>17, <1>18, <1>19, <1>20, <1>21, <1>22, <1>23, <1>24, <1>25, <1>26, <1>27, <1>28, <1>29, <1>30, <1>31
     DEF Next, Deferred, Capture, DataProcess, PostCapture, Stopping

(* What is freed and not given back, from takePicture until the stop.       *)
Open == active \/ def \in {"start", "wait"}
Lost == received \ (heap \cup back)
LostMay(s) == s[2] = 0 /\ mode.regular

LEMMA LostOfJob ==
  ASSUME NEW job, NEW s, s \in FramesOf(job), s \notin Returns("ongoingJpegQ", job)
  PROVE  s = job.base /\ job.rel
BY DEF FramesOf, Returns, JpegReturns, PPQueues

(* An encoded job gives everything back but the base of a regular capture.  *)
LEMMA LostByEncoding ==
  ASSUME PostTypes, Core, active, NEW i \in DOMAIN OJ, Release("ongoingJpegQ", OJ[i])
  PROVE  \A s \in Lost' : s \in Lost \/ LostMay(s)
<1>1. /\ received' = received /\ heap' = heap \ FramesOf(OJ[i])
      /\ back' = back \cup Returns("ongoingJpegQ", OJ[i])
  BY DEF Release, GiveBack
<1>2. OJ[i].base[2] = 0 /\ (OJ[i].rel => mode.regular)
  BY DEF Core, ShapeInv, JpegInv, JpegJob, RelInv, OJ, Queues
<1> QED
  BY <1>1, <1>2, LostOfJob DEF Lost, LostMay

(* Nothing is flushed while the data process thread waits for START.        *)
LEMMA NothingToFlush ==
  ASSUME NEW n, q[n] = <<>>, Flush(n)
  PROVE  Lost' = Lost
<1>1. ToSet(q[n]) = {}
  BY DEF ToSet
<1>2. UNION {FramesOf(job) : job \in ToSet(q[n])} = {} /\ UNION {Returns(n, job) : job \in ToSet(q[n])} = {}
  BY <1>1
<1> QED
  BY <1>2 DEF Flush, ReleaseAll, GiveBack, NoneReleased, frameVars, Lost

LEMMA LostKept ==
  ASSUME PostTypes, PhaseInv, QueueInv, EncInv, Core, [Next]_vars, ~dangling', Open'
  PROVE  (\E m \in Modes : TakePicture(m))
         \/ (Open /\ \A s \in Lost' : s \in Lost \/ LostMay(s))
<1> USE DEF queueVars, threadVars, takeVars, eventVars, frameVars
<1>1. CASE \E m \in Modes : TakePicture(m)
  BY <1>1
<1>2. CASE DefStart
  BY <1>2 DEF DefStart, Open, Lost
<1>3. CASE DefSession
  BY <1>3 DEF DefSession, Open, Lost
<1>4. CASE CapFrame
  BY <1>4 DEF CapFrame, Receive, Open, Lost
<1>5. CASE ProcessData
  BY <1>5 DEF ProcessData, GiveBack, NoneReleased, Open, Lost
<1>6. CASE CapSend
  BY <1>6 DEF CapSend, Open, Lost
<1>7. CASE CapRefused
  BY <1>7 DEF CapRefused, GiveBack, Open, Lost
<1>8. CASE StartData
  <2>1. cmds # <<>> /\ cmds[1] = "START" /\ 1 \in DOMAIN cmds
    BY <1>8, CommandTaken, EmptySeq DEF StartData, PostTypes
  <2>2. def = "wait"
    BY <2>1 DEF PhaseInv
  <2> QED
    BY <1>8, <2>2 DEF StartData, Open, Lost
<1>9. CASE NextJpegJob
  BY <1>9 DEF NextJpegJob, Open, Lost
<1>10. CASE StartJob
  <2>1. proc.pc = "encode" /\ active' = active /\ def' = def
    BY <1>10 DEF StartJob, At
  <2>2. active
    BY <2>1 DEF PhaseInv, WorkPcs
  <2>3. CASE NoneReleased
    BY <2>1, <2>3 DEF NoneReleased, Open, Lost
  <2>4. CASE Release("ongoingJpegQ", proc.job)
    <3>1. Len(OJ) > 0 /\ proc.job = OJ[Len(OJ)]
      BY <2>1 DEF EncInv, LastJob, Encoding
    <3>2. PICK i \in DOMAIN OJ : proc.job = OJ[i]
      BY <3>1, JobsInHand
    <3> QED
      BY <2>2, <2>4, <3>2, LostByEncoding DEF Open
  <2> QED
    BY <1>10, <2>3, <2>4 DEF StartJob
<1>11. CASE NoteJobId
  BY <1>11 DEF NoteJobId, Open, Lost
<1>12. CASE NextPPJob
  BY <1>12 DEF NextPPJob, Open, Lost
<1>13. CASE Reprocess
  BY <1>13 DEF Reprocess, NoneReleased, Open, Lost
<1>14. CASE StopCapture
  BY <1>14 DEF StopCapture, Open, Lost
<1>15. CASE DropJob
  <2>1. proc.pc = "idle" /\ ~active
    BY <1>15 DEF DropJob, Command, At
  <2>2. \A n \in Queues : q[n] = <<>>
    BY <2>1 DEF QueueInv, StopPcs
  <2>3. q["inputPPQ"] = <<>> /\ Flush("inputPPQ")
    BY <1>15, <2>2 DEF DropJob, Has, Queues
  <2>4. Lost' = Lost /\ (Open' <=> Open)
    BY <1>15, <2>3, NothingToFlush DEF DropJob, Open
  <2> QED
    BY <2>4
<1>16. CASE StopData
  <2>1. cmds # <<>> /\ cmds[1] = "STOP" /\ 1 \in DOMAIN cmds
    BY <1>16, CommandTaken, EmptySeq DEF StopData, PostTypes
  <2>2. def \in {"done", "failed"}
    BY <2>1 DEF PhaseInv
  <2> QED
    BY <1>16, <2>2 DEF StopData, Open
<1>17. CASE AbortJob
  BY <1>17 DEF AbortJob, Open, Lost
<1>18. CASE ReleaseJob
  <2>1. proc.pc \in StopPcs /\ active' = active /\ def' = def
    BY <1>18 DEF ReleaseJob, At, StopPcs
  <2>2. ~Open'
    BY <2>1 DEF PhaseInv, Open
  <2> QED
    BY <2>2
<1>19. CASE \/ FlushQueue("ongoingPPQ", "inputJpegQ") \/ FlushQueue("inputJpegQ", "inputPPQ") \/ FlushQueue("inputPPQ", "stopped")
  <2>1. proc.pc \in StopPcs /\ active' = active /\ def' = def
    BY <1>19 DEF FlushQueue, At, StopPcs
  <2>2. ~Open'
    BY <2>1 DEF PhaseInv, Open
  <2> QED
    BY <2>2
<1>20. CASE StopDone
  BY <1>20 DEF StopDone, Open, Lost
<1>21. CASE PPFrame
  BY <1>21 DEF PPFrame, Receive, Open, Lost
<1>22. CASE TakePPJob
  <2>1. pp.pc = "wait" /\ def = "done" /\ active' = active /\ def' = def
    BY <1>22 DEF TakePPJob
  <2>2. CASE ~active
    BY <2>1, <2>2 DEF Open
  <2>3. CASE active
    <3>1. ~Flushed /\ on["ongoingPPQ"]
      BY <2>3 DEF PhaseInv, QueueInv, Flushed, PPFlushed, StopPcs, Queues
    <3>2. Len(OP) > 0
      BY <2>1, <3>1 DEF Core, Lockstep
    <3>3. Has("ongoingPPQ")
      BY <3>1, <3>2 DEF Has, OP
    <3> QED
      BY <1>22, <2>1, <2>3, <3>3 DEF TakePPJob, NoneReleased, Open, Lost
  <2> QED
    BY <2>2, <2>3
<1>23. CASE ProcessPPData
  <2>1. pp.pc = "job" /\ active' = active /\ def' = def
    BY <1>23 DEF ProcessPPData
  <2>2. def \in {"session", "done"}
    BY <2>1 DEF PhaseInv
  <2>3. CASE ~active
    BY <2>1, <2>2, <2>3 DEF Open
  <2>4. CASE active
    <3>1. \A n \in Queues : on[n]
      BY <2>4 DEF QueueInv
    <3>2. GiveBack(PassDone(pp.job), PassDone(pp.job))
      BY <1>23, <3>1 DEF ProcessPPData, Queues
    <3> QED
      BY <2>1, <2>4, <3>2 DEF GiveBack, Open, Lost
  <2> QED
    BY <2>3, <2>4
<1>24. CASE PPSend
  BY <1>24 DEF PPSend, Open, Lost
<1>25. CASE EncodeDone
  BY <1>25 DEF EncodeDone, Open, Lost
<1>26. CASE JpegEvent
  <2>1. active' = active /\ def' = def
    BY <1>26 DEF JpegEvent
  <2>2. CASE NoneReleased
    BY <2>1, <2>2 DEF NoneReleased, Open, Lost
  <2>3. CASE \E i \in DOMAIN OJ : Release("ongoingJpegQ", OJ[i])
    <3>1. PICK i \in DOMAIN OJ : Release("ongoingJpegQ", OJ[i])
      BY <2>3
    <3>2. CASE active
      BY <2>1, <3>1, <3>2, LostByEncoding DEF Open
    <3>3. CASE ~active
      <4>1. proc.pc \in StopPcs
        BY <3>3 DEF QueueInv, OJ, Queues
      <4> QED
        BY <2>1, <3>3, <4>1 DEF PhaseInv, Open
    <3> QED
      BY <3>2, <3>3
  <2> QED
    BY <1>26, <2>2, <2>3, EventEffect
<1>27. CASE StopCaptureChannel
  BY <1>27 DEF StopCaptureChannel, Open, Lost
<1>28. CASE CancelPicture
  BY <1>28 DEF CancelPicture, Open, Lost
<1>29. CASE JoinPP
  BY <1>29 DEF JoinPP, Open, Lost
<1>30. CASE JoinCapture
  <2>1. ~active
    BY <1>30 DEF JoinCapture, PhaseInv
  <2> QED
    BY <1>30, <2>1 DEF JoinCapture, Open
<1>31. CASE UNCHANGED vars
  BY <1>31 DEF vars, Open, Lost
<1> QED
  BY <1>1, <1>2, <1>3, <1>4, <1>5, <1>6, <1>7, <1>8, <1>9, <1>10, <1>11, <1>12, <1>13, <1>14, <1>15, <1>16, <1>17, <1>18, <1>19, <1>20, <1>21, <1>22, <1>23, <1>24, <1>25, <1>26, <1>27, <1>28, <1>29, <1>30, <1>31
     DEF Next, Deferred, Capture, DataProcess, PostCapture, Stopping

(* Only START makes the data process thread active.                         *)
LEMMA ActiveKept ==
  ASSUME [Next]_vars
  PROVE  active' => active \/ StartData
<1> USE DEF threadVars, vars
<1>1. CASE Deferred \/ Capture \/ PostCapture
  BY <1>1 DEF Deferred, Capture, PostCapture, DefStart, DefSession, CapFrame, ProcessData, CapSend,
              CapRefused, PPFrame, TakePPJob, ProcessPPData, PPSend
<1>2. CASE DataProcess
  BY <1>2 DEF DataProcess, NextJpegJob, StartJob, NoteJobId, NextPPJob, Reprocess, StopCapture, DropJob,
              StopData, AbortJob, ReleaseJob, StopDone, FlushQueue
<1>3. CASE EncodeDone \/ JpegEvent \/ Stopping \/ CancelPicture \/ UNCHANGED vars
  BY <1>3 DEF EncodeDone, JpegEvent, Stopping, StopCaptureChannel, JoinPP, JoinCapture, CancelPicture
<1>4. CASE \E m \in Modes : TakePicture(m)
  BY <1>4 DEF TakePicture
<1> QED
  BY <1>1, <1>2, <1>3, <1>4 DEF Next

LEMMA RelKept ==
  ASSUME PostTypes, PhaseInv, QueueInv, EncInv, Core, [Next]_vars, ~dangling'
  PROVE  RelInv'
<1>1. ASSUME active'
      PROVE  /\ \A n \in Queues : \A i \in DOMAIN q'[n] : q'[n][i].rel => mode'.regular
             /\ pp'.job.rel => mode'.regular
  <2>1. CASE StartData
    <3>1. /\ cmds # <<>> /\ cmds[1] = "START" /\ proc.pc = "idle" /\ 1 \in DOMAIN cmds
      BY <2>1, CommandTaken, EmptySeq DEF StartData, PostTypes
    <3>2. def = "wait" /\ ~active
      BY <3>1 DEF PhaseInv
    <3>3. \A n \in Queues : q[n] = <<>>
      BY <3>1, <3>2 DEF QueueInv, StopPcs
    <3>4. pp.pc = "idle"
      BY <3>2 DEF PhaseInv
    <3>5. pp.job = NoJob
      BY <3>4 DEF Core, ShapeInv, TakenInv
    <3>6. ~NoJob.rel
      BY DEF NoJob
    <3>7. q' = q /\ pp' = pp
      BY <2>1 DEF StartData
    <3> QED
      BY <3>3, <3>5, <3>6, <3>7
  <2>2. CASE active
    <3>1. ~(\E m \in Modes : TakePicture(m))
      BY <2>2 DEF TakePicture, PhaseInv
    <3>2. mode' = mode
      BY <3>1, PictureKept
    <3>3. /\ \A n \in Queues : \A i \in DOMAIN q[n] : q[n][i].rel => mode.regular
          /\ pp.job.rel => mode.regular
      BY <2>2 DEF Core, RelInv
    <3>4. ASSUME NEW n \in Queues, NEW job \in Jobs, From(n, job)
          PROVE  job.rel => mode.regular
      <4>1. CASE cap.pc = "wait" /\ job = Job(cap.frame)
        <5>1. job.rel = (mode.passes > 0 /\ mode.regular)
          BY <4>1, JobTyped, ThreadRecords
        <5> QED
          BY <5>1
      <4>2. CASE pp.pc = "job" /\ job = [pp.job EXCEPT !.src = pp.frame]
        <5>1. job.rel = pp.job.rel
          BY <4>2, ThreadRecords DEF Jobs
        <5> QED
          BY <3>3, <5>1
      <4>3. CASE q["inputPPQ"] # <<>> /\ job = [q["inputPPQ"][1] EXCEPT !.count = @ + 1]
        <5>1. 1 \in DOMAIN q["inputPPQ"] /\ q["inputPPQ"][1] \in Jobs
          BY <4>3, JobsOfQueue DEF Queues
        <5>2. job.rel = q["inputPPQ"][1].rel
          BY <4>3, <5>1 DEF Jobs
        <5> QED
          BY <3>3, <5>1, <5>2 DEF Queues
      <4>4. CASE \E m \in Queues : \E k \in DOMAIN q[m] : job.rel = q[m][k].rel
        BY <3>3, <4>4
      <4> QED
        BY <3>4, <4>1, <4>2, <4>3, <4>4 DEF From, SameFrames, JpegQueues, Queues
    <3>5. \A n \in Queues : \A i \in DOMAIN q'[n] : q'[n][i].rel => mode.regular
      BY <3>4, JobsFrom, JobsTyped
    <3>6. pp'.job.rel => mode.regular
      <4>1. CASE pp'.pc # "job"
        <5>1. pp'.job = NoJob
          BY <4>1, ThreadSteps DEF Core, ShapeInv, TakenInv
        <5> QED
          BY <5>1 DEF NoJob
      <4>2. CASE pp' = pp
        BY <3>3, <4>2
      <4>3. CASE TakePPJob /\ Has("ongoingPPQ")
        <5>1. pp = [pc |-> pp.pc, frame |-> pp.frame, job |-> pp.job]
          BY ThreadRecords
        <5>2. pp'.job = Head(q["ongoingPPQ"]) /\ q["ongoingPPQ"] # <<>>
          BY <4>3, <5>1 DEF TakePPJob, Has
        <5>3. Head(q["ongoingPPQ"]) = q["ongoingPPQ"][1] /\ 1 \in DOMAIN q["ongoingPPQ"]
          BY <5>2, JobsOfQueue DEF Queues
        <5> QED
          BY <3>3, <5>2, <5>3 DEF Queues
      <4> QED
        BY <4>1, <4>2, <4>3, ThreadSteps
    <3> QED
      BY <3>2, <3>5, <3>6
  <2> QED
    BY <1>1, <2>1, <2>2, ActiveKept
<1>2. ASSUME Open'
      PROVE  \A s \in Lost' : s[1] < first' \/ (s[2] = 0 /\ mode'.regular)
  <2>1. CASE \E m \in Modes : TakePicture(m)
    <3>1. first' = next /\ received' = received
      BY <2>1 DEF TakePicture, frameVars
    <3>2. \A s \in received : s[1] < next
      BY KnownMembers DEF Core, ShapeInv, NextInv
    <3> QED
      BY <3>1, <3>2 DEF Lost
  <2>2. CASE ~(\E m \in Modes : TakePicture(m))
    <3>1. mode' = mode /\ first' = first
      BY <2>2, PictureKept
    <3>2. Open /\ \A s \in Lost' : s \in Lost \/ LostMay(s)
      BY <1>2, <2>2, LostKept
    <3>3. \A s \in Lost : s[1] < first \/ (s[2] = 0 /\ mode.regular)
      BY <3>2 DEF Core, RelInv, Open, Lost
    <3> QED
      BY <3>1, <3>2, <3>3 DEF LostMay
  <2> QED
    BY <2>1, <2>2
<1> QED
  BY <1>1, <1>2 DEF RelInv, Open, Lost

LEMMA CoreKept ==
  ASSUME PicInv, Core, [Next]_vars, ~dangling'
  PROVE  Core'
BY HeldKept, ShapeKept, LockstepKept, RelKept DEF Core, PicInv

-----------------------------------------------------------------------------
(* The theorems about frames.                                               *)

(* A freed job that ongoingPPQ still points to ends the model; until then   *)
(* everything holds, and then the encoder still has its frames.             *)
CoreInv ==
    /\ PicInv
    /\ dangling \/ Core
    /\ dangling => EncoderOwnsFrame

LEMMA CoreInit ==
  ASSUME Init
  PROVE  Core
<1>1. \A n \in Queues : q[n] = <<>>
  BY DEF Init
<1>2. /\ cap.pc = "idle" /\ pp.pc = "idle" /\ pp.job = NoJob /\ proc.pc = "idle"
      /\ received = {} /\ heap = {} /\ back = {} /\ ~twice /\ daemon = <<>> /\ ~active /\ next = 1
  BY DEF Init
<1>3. Known = {} /\ OP = <<>>
  BY <1>1, <1>2, KnownMembers DEF OP, Queues
<1>4. HeldInv
  <2>1. \A n \in Queues : Apart(q[n])
    BY <1>1, FramesOfNone
  <2>2. \A c \in Containers : Content[c] = {}
    <3>1. \A n \in Queues : SeqFrames(q[n]) = {}
      BY <1>1, FramesOfNone
    <3>2. CapFrames = {} /\ PPFrames = {} /\ ProcFrames = {}
      BY <1>2 DEF CapFrames, PPFrames, ProcFrames
    <3> QED
      BY <3>1, <3>2, ContentIs
  <2>3. Disjoint(Content) /\ All(Content) = {}
    BY <2>2 DEF Disjoint, All
  <2> QED
    BY <1>2, <2>1, <2>3 DEF HeldInv
<1>5. ShapeInv
  BY <1>1, <1>2, <1>3 DEF ShapeInv, NextInv, CapInv, InputInv, OngoingInv, DaemonInv, TakenInv, JpegInv, Queues
<1>6. Lockstep
  <2>1. Waiting = 0 /\ Len(daemon) = 0 /\ Len(OP) = 0 /\ \A i : i \notin DOMAIN daemon
    BY <1>2, <1>3 DEF Waiting
  <2> QED
    BY <1>2, <2>1 DEF Lockstep
<1>7. RelInv
  BY <1>2 DEF RelInv
<1> QED
  BY <1>4, <1>5, <1>6, <1>7 DEF Core

(* What the encoder reads belongs to a job of ongoingJpegQ.                 *)
LEMMA EncoderReads ==
  ASSUME PostTypes, EncInv, Core
  PROVE  \A e \in enc : e.src \in Content["ongoingJpegQ"]
<1>1. Content["ongoingJpegQ"] = SeqFrames(OJ)
  BY ContentIs DEF OJ, Queues
<1> SUFFICES ASSUME NEW e \in enc
             PROVE  \E i \in DOMAIN OJ : e.src \in FramesOf(OJ[i])
  BY <1>1, FramesOfMember
<1>2. \E i \in DOMAIN OJ : e.src = OJ[i].src
  <2>1. CASE proc.pc = "note" /\ e.src = proc.job.src
    <3>1. Len(OJ) > 0 /\ proc.job = OJ[Len(OJ)]
      BY <2>1 DEF EncInv, LastJob, Encoding
    <3>2. Len(OJ) \in DOMAIN OJ
      BY <3>1, JobsInHand
    <3> QED
      BY <2>1, <3>1, <3>2
  <2> QED
    BY <2>1 DEF EncInv, EncOwned
<1>3. PICK i \in DOMAIN OJ : e.src = OJ[i].src
  BY <1>2
<1>4. OJ[i].src # NoFrame
  BY SourcesReal DEF Core, OJ, Queues
<1> QED
  BY <1>3, <1>4 DEF FramesOf

LEMMA OwnedByEncoder ==
  ASSUME PostTypes, EncInv, Core
  PROVE  EncoderOwnsFrame
<1>1. Content["ongoingJpegQ"] \subseteq heap
  BY ContentIs DEF Core, HeldInv, All, Queues
<1> QED
  BY <1>1, EncoderReads DEF EncoderOwnsFrame

(* Only a failing reprocess call leaves a freed job behind.                 *)
LEMMA DanglingBy ==
  ASSUME Next
  PROVE  Reprocess \/ (dangling' <=> dangling)
<1>1. CASE Deferred \/ Capture \/ PostCapture
  BY <1>1 DEF Deferred, Capture, PostCapture, DefStart, DefSession, CapFrame, ProcessData, CapSend,
              CapRefused, PPFrame, TakePPJob, ProcessPPData, PPSend
<1>2. CASE DataProcess
  BY <1>2 DEF DataProcess, StartData, NextJpegJob, StartJob, NoteJobId, NextPPJob, StopCapture, DropJob,
              StopData, AbortJob, ReleaseJob, StopDone, FlushQueue
<1>3. CASE EncodeDone \/ JpegEvent \/ Stopping \/ CancelPicture
  BY <1>3 DEF EncodeDone, JpegEvent, Stopping, StopCaptureChannel, JoinPP, JoinCapture, CancelPicture
<1>4. CASE \E m \in Modes : TakePicture(m)
  BY <1>4 DEF TakePicture
<1> QED
  BY <1>1, <1>2, <1>3, <1>4 DEF Next

(* The job freed there shares no frame with a job of the encoder.           *)
LEMMA OwnedAfterFailure ==
  ASSUME PicInv, Core, Reprocess, dangling', ~dangling
  PROVE  EncoderOwnsFrame'
<1>1. /\ proc.pc = "daemon" /\ heap' = heap \ FramesOf(proc.job) /\ enc' = enc
  BY DEF Reprocess, At, Release, GiveBack
<1>2. Len(OP) \in DOMAIN OP /\ proc.job = OP[Len(OP)]
  BY <1>1, AskedApart DEF PicInv
<1>3. /\ Content["ongoingPPQ"] = SeqFrames(OP) /\ "ongoingPPQ" \in Containers
      /\ "ongoingJpegQ" \in Containers
  BY ContentIs DEF OP, Queues
<1>4. FramesOf(proc.job) \subseteq Content["ongoingPPQ"]
  BY <1>2, <1>3, FramesOfMember
<1>5. Content["ongoingPPQ"] \cap Content["ongoingJpegQ"] = {}
  BY <1>3 DEF Core, HeldInv, Disjoint
<1>6. Content["ongoingJpegQ"] \subseteq heap
  BY <1>3 DEF Core, HeldInv, All
<1>7. \A e \in enc : e.src \in Content["ongoingJpegQ"]
  BY EncoderReads DEF PicInv
<1> QED
  BY <1>1, <1>4, <1>5, <1>6, <1>7 DEF EncoderOwnsFrame

LEMMA CoreInvariance == Spec => []CoreInv
<1>1. Init => CoreInv
  BY PicInvInit, CoreInit DEF CoreInv, Init
<1>2. CoreInv /\ [Next]_vars => CoreInv'
  <2> SUFFICES ASSUME CoreInv, [Next]_vars
               PROVE  CoreInv'
    OBVIOUS
  <2>1. PicInv'
    BY TypesKept, PhaseKept, QueueKept, EncKept DEF PicInv, CoreInv
  <2>2. CASE UNCHANGED vars /\ dangling
    <3>1. dangling' /\ enc' = enc /\ heap' = heap
      BY <2>2 DEF vars, eventVars, frameVars
    <3> QED
      BY <2>1, <2>2, <3>1 DEF CoreInv, EncoderOwnsFrame
  <2>3. CASE ~dangling
    <3>1. CASE dangling'
      <4>1. Next
        BY <2>3, <3>1 DEF vars
      <4>2. Reprocess
        BY <2>3, <3>1, <4>1, DanglingBy
      <4> QED
        BY <2>1, <2>3, <3>1, <4>2, OwnedAfterFailure DEF CoreInv
    <3>2. CASE ~dangling'
      BY <2>1, <2>3, <3>2, CoreKept DEF CoreInv
    <3> QED
      BY <3>1, <3>2
  <2> QED
    BY <2>2, <2>3 DEF Next
<1> QED
  BY <1>1, <1>2, PTL DEF Spec

(* The encoder never reads a frame that was given back or freed: its frames *)
(* are those of a job of ongoingJpegQ, and nobody else has them.            *)
THEOREM EncoderOwnsFrameAlways == Spec => []EncoderOwnsFrame
<1>1. CoreInv => EncoderOwnsFrame
  BY OwnedByEncoder DEF CoreInv, PicInv
<1> QED
  BY <1>1, CoreInvariance, PTL

(* Who holds a superbuf, told by the containers.                            *)
LEMMA HoldersAre ==
  ASSUME NEW s, NEW h
  PROVE  h \in Holders(s) <=>
           \/ \E n \in Queues : \E i \in DOMAIN q[n] : h = <<n, i>> /\ s \in FramesOf(q[n][i])
           \/ h = <<"cap", 0>> /\ s \in CapFrames
           \/ h = <<"pp", 0>> /\ s \in PPFrames
           \/ h = <<"proc", 0>> /\ s \in ProcFrames
<1> DEFINE queued == UNION {{<<n, i>> : i \in {j \in DOMAIN q[n] : s \in FramesOf(q[n][j])}} : n \in Queues}
           c == IF cap.pc = "wait" /\ cap.frame = s THEN {<<"cap", 0>>} ELSE {}
           p == IF pp.pc \in {"wait", "job"} /\ s \in {pp.frame} \cup FramesOf(pp.job)
                  THEN {<<"pp", 0>>} ELSE {}
           r == IF proc.pc = "release" /\ s \in FramesOf(proc.job) THEN {<<"proc", 0>>} ELSE {}
<1>1. h \in queued <=> \E n \in Queues : \E i \in DOMAIN q[n] : h = <<n, i>> /\ s \in FramesOf(q[n][i])
  OBVIOUS
<1>2. h \in c <=> h = <<"cap", 0>> /\ s \in CapFrames
  BY DEF CapFrames
<1>3. h \in p <=> h = <<"pp", 0>> /\ s \in PPFrames
  BY DEF PPFrames
<1>4. h \in r <=> h = <<"proc", 0>> /\ s \in ProcFrames
  BY DEF ProcFrames
<1>5. Holders(s) = queued \cup c \cup p \cup r
  BY DEF Holders
<1> HIDE DEF queued, c, p, r
<1> QED
  BY <1>1, <1>2, <1>3, <1>4, <1>5

(* Containers do not overlap, and neither do the jobs of a queue: a copy    *)
(* has one holder.                                                          *)
LEMMA OneHolder ==
  ASSUME PostTypes, HeldInv, NEW s
  PROVE  Cardinality(Holders(s)) = IF s \in heap THEN 1 ELSE 0
<1>0. \A n \in Queues : n \in Containers /\ Content[n] = SeqFrames(q[n]) /\ n \notin {"cap", "pp", "proc"}
  BY ContentIs
<1>1. ASSUME NEW h \in Holders(s)
      PROVE  /\ h[1] \in Containers /\ s \in Content[h[1]]
             /\ \/ h[1] \in {"cap", "pp", "proc"} /\ h = <<h[1], 0>>
                \/ h[1] \in Queues /\ \E i \in DOMAIN q[h[1]] : h = <<h[1], i>> /\ s \in FramesOf(q[h[1]][i])
  <2>1. CASE \E n \in Queues : \E i \in DOMAIN q[n] : h = <<n, i>> /\ s \in FramesOf(q[n][i])
    <3>1. PICK n \in Queues : \E i \in DOMAIN q[n] : h = <<n, i>> /\ s \in FramesOf(q[n][i])
      BY <2>1
    <3>2. PICK i \in DOMAIN q[n] : h = <<n, i>> /\ s \in FramesOf(q[n][i])
      BY <3>1
    <3>3. h[1] = n
      BY <3>2
    <3>4. s \in SeqFrames(q[n])
      BY <3>2, FramesOfMember
    <3> QED
      BY <1>0, <3>2, <3>3, <3>4
  <2>2. CASE h = <<"cap", 0>> /\ s \in CapFrames
    <3>1. h[1] = "cap"
      BY <2>2
    <3> QED
      BY <2>2, <3>1, ContentIs
  <2>3. CASE h = <<"pp", 0>> /\ s \in PPFrames
    <3>1. h[1] = "pp"
      BY <2>3
    <3> QED
      BY <2>3, <3>1, ContentIs
  <2>4. CASE h = <<"proc", 0>> /\ s \in ProcFrames
    <3>1. h[1] = "proc"
      BY <2>4
    <3> QED
      BY <2>4, <3>1, ContentIs
  <2> QED
    BY <1>1, <2>1, <2>2, <2>3, <2>4, HoldersAre
<1>2. \A h, g \in Holders(s) : h = g
  <2> SUFFICES ASSUME NEW h \in Holders(s), NEW g \in Holders(s)
               PROVE  h = g
    OBVIOUS
  <2>1. PICK c \in Containers : h[1] = c /\ g[1] = c
    BY <1>1 DEF HeldInv, Disjoint
  <2>2. CASE c \in Queues
    <3>1. PICK i \in DOMAIN q[c] : h = <<c, i>> /\ s \in FramesOf(q[c][i])
      BY <1>0, <1>1, <2>1, <2>2
    <3>2. PICK j \in DOMAIN q[c] : g = <<c, j>> /\ s \in FramesOf(q[c][j])
      BY <1>0, <1>1, <2>1, <2>2
    <3>3. i = j
      BY <2>2, <3>1, <3>2 DEF HeldInv, Apart
    <3> QED
      BY <3>1, <3>2, <3>3
  <2>3. CASE c \notin Queues
    BY <1>1, <2>1, <2>3
  <2> QED
    BY <2>2, <2>3
<1>3. CASE s \in heap
  <2>1. PICK c \in Containers : s \in Content[c]
    BY <1>3 DEF HeldInv, All
  <2>2. \E h : h \in Holders(s)
    <3>1. CASE c \in Queues
      <4>1. PICK i \in DOMAIN q[c] : s \in FramesOf(q[c][i])
        BY <1>0, <2>1, <3>1 DEF SeqFrames, ToSet
      <4>2. <<c, i>> \in Holders(s)
        BY <3>1, <4>1, HoldersAre
      <4> QED
        BY <4>2
    <3>2. CASE c = "cap"
      BY <2>1, <3>2, ContentIs, HoldersAre
    <3>3. CASE c = "pp"
      BY <2>1, <3>3, ContentIs, HoldersAre
    <3>4. CASE c = "proc"
      BY <2>1, <3>4, ContentIs, HoldersAre
    <3> QED
      BY <3>1, <3>2, <3>3, <3>4, ContentIs
  <2>3. PICK h : h \in Holders(s)
    BY <2>2
  <2>4. Holders(s) = {h}
    BY <1>2, <2>3
  <2>5. Cardinality({h}) = 1
    BY FS_Singleton
  <2> QED
    BY <1>3, <2>4, <2>5
<1>4. CASE s \notin heap
  <2>1. \A h : h \notin Holders(s)
    BY <1>1, <1>4 DEF HeldInv, All
  <2>2. Holders(s) = {}
    BY <2>1
  <2> QED
    BY <1>4, <2>2, FS_EmptySet
<1> QED
  BY <1>3, <1>4

(* Every superbuf is freed once and given back at most once; until it is    *)
(* freed exactly one queue or thread has it, and of what an active          *)
(* post-processor freed only the source of a regular capture is not given   *)
(* back.                                                                    *)
THEOREM FramesConservedAlways == Spec => []FramesConserved
<1>1. CoreInv => FramesConserved
  <2> SUFFICES ASSUME CoreInv, ~dangling
               PROVE  /\ ~twice
                      /\ \A s \in received : Cardinality(Holders(s)) = IF s \in heap THEN 1 ELSE 0
                      /\ active => \A s \in received \ (heap \cup back) :
                                      s[1] < first \/ (s[2] = 0 /\ mode.regular)
    BY DEF FramesConserved
  <2>1. PostTypes /\ HeldInv /\ RelInv
    BY DEF CoreInv, PicInv, Core
  <2>2. ~twice
    BY <2>1 DEF HeldInv
  <2>3. \A s \in received : Cardinality(Holders(s)) = IF s \in heap THEN 1 ELSE 0
    BY <2>1, OneHolder
  <2>4. active => \A s \in received \ (heap \cup back) : s[1] < first \/ (s[2] = 0 /\ mode.regular)
    BY <2>1 DEF RelInv
  <2> QED
    BY <2>2, <2>3, <2>4
<1> QED
  BY <1>1, CoreInvariance, PTL
=============================================================================
