--------------------------- MODULE MmJpegRefinement ---------------------------
(***************************************************************************)
(* Every step of MmJpeg keeps JpegInv and is a step of JpegService, so the *)
(* encoder implements its abstract service and loses no session handle.    *)
(***************************************************************************)
EXTENDS MmJpegProofs, FiniteSetTheorems

-----------------------------------------------------------------------------
(* The encoder reads the buffers of one job at a time.                      *)

ServiceStep == [Service!Next]_(Service!vars)

LEMMA OneReader ==
  ASSUME JpegInv, NEW s \in Slots, omx[s].busy # None
  PROVE  /\ omx[s].busy \in Jobs /\ Reading = {omx[s].busy}
         /\ \A u \in Slots : u # s => omx[u].busy = None
<1>1. omx[s].busy \in Jobs
  BY DEF JpegInv, JpegTypes, TypeSlots, Components
<1>2. ASSUME NEW u \in Slots, omx[u].busy # None
      PROVE  u = s
  <2>1. ongoing = <<Entry(s)>> \/ BeingAborted(s)
    BY DEF JpegInv, EncodeInv
  <2>2. ongoing = <<Entry(u)>> \/ BeingAborted(u)
    BY <1>2 DEF JpegInv, EncodeInv
  <2> QED
    BY <2>1, <2>2 DEF BeingAborted, Entry
<1> QED
  BY <1>1, <1>2 DEF Reading

LEMMA NoReader ==
  ASSUME \A u \in Slots : omx[u].busy = None
  PROVE  Reading = {}
BY DEF Reading

(* Steps that leave status and answers alone, and read on or read less.     *)
LEMMA Silent ==
  ASSUME JpegInv, UNCHANGED <<status, answers>>,
         \A u \in Slots : omx'[u].busy = omx[u].busy \/ omx'[u].busy = None
  PROVE  ServiceStep
<1>1. CASE \A u \in Slots : omx[u].busy = None
  <2>1. Reading = {} /\ Reading' = {}
    BY <1>1 DEF Reading
  <2> QED
    BY <2>1 DEF ServiceStep, Service!vars
<1>2. CASE \E u \in Slots : omx[u].busy # None
  <2>1. PICK s \in Slots : omx[s].busy # None
    BY <1>2
  <2>2. omx[s].busy \in Jobs /\ Reading = {omx[s].busy} /\ \A u \in Slots : u # s => omx[u].busy = None
    BY <2>1, OneReader
  <2>3. \A u \in Slots : u # s => omx'[u].busy = None
    BY <2>2
  <2>4. CASE omx'[s].busy = omx[s].busy
    <3>1. Reading' = Reading
      BY <2>1, <2>2, <2>3, <2>4 DEF Reading
    <3> QED
      BY <3>1 DEF ServiceStep, Service!vars
  <2>5. CASE omx'[s].busy = None
    <3>1. Reading' = {}
      BY <2>3, <2>5 DEF Reading
    <3>2. Service!Cease(omx[s].busy)
      BY <2>2, <3>1 DEF Service!Cease
    <3> QED
      BY <2>2, <3>2 DEF ServiceStep, Service!Next
  <2> QED
    BY <2>4, <2>5
<1> QED
  BY <1>1, <1>2

-----------------------------------------------------------------------------
(* Steps that move no job and end none: they change states and handles, and *)
(* at most a component that is not encoding for real comes to rest.         *)

KeepsSession(u) == /\ ses'[u].active = ses[u].active /\ ses'[u].job = ses[u].job
                   /\ ses'[u].encoding = ses[u].encoding
KeepsAbort(u)  == \/ ses'[u].abort = ses[u].abort
                  \/ ses[u].abort = "INIT" /\ ses'[u].abort = "DONE" /\ omx'[u].busy = None
KeepsBusy(u)   == omx'[u].busy = omx[u].busy \/ (omx'[u].busy = None /\ ~Encodes(u))
KeepsGoal(u)   == omx'[u].goal = omx[u].goal \/ ~Encodes(u)
KeepsHandle(u) == \/ ses'[u].handles = ses[u].handles /\ omx'[u].cb = omx[u].cb
                  \/ /\ ses'[u].handles = ses[u].handles + 1
                     /\ omx[u].cb # "none" /\ omx'[u].cb = "none"
Quiet(u) == KeepsSession(u) /\ KeepsAbort(u) /\ KeepsBusy(u) /\ KeepsGoal(u) /\ KeepsHandle(u)

KeepsClients == \A c \in Clients : /\ hal'[c].session = hal[c].session
                                   /\ hal'[c].need = hal[c].need /\ hal'[c].made = hal[c].made
QuietStep == /\ UNCHANGED <<todo, ongoing, api, status, answers>>
             /\ KeepsClients /\ \A u \in Slots : Quiet(u)

LEMMA QuietEncodes ==
  ASSUME JpegInv, NEW u \in Slots, Quiet(u), Encodes(u)'
  PROVE  Encodes(u)
BY DEF Quiet, KeepsSession, KeepsAbort, Encodes

LEMMA QuietCalls ==
  ASSUME JpegInv, QuietStep
  PROVE  CallInv' /\ ClientInv'
<1>1. ASSUME api.ses \in Slots
      PROVE  ses[api.ses].abort = "DONE" => ses'[api.ses].abort = "DONE"
  BY <1>1 DEF QuietStep, Quiet, KeepsAbort
<1>2. CallInv'
  BY <1>1 DEF JpegInv, CallInv, QuietStep, NoEntry, OfSession
<1>3. ClientInv'
  BY Identifiers DEF JpegInv, ClientInv, QuietStep, KeepsClients, Open
<1> QED
  BY <1>2, <1>3

LEMMA QuietEncode ==
  ASSUME JpegInv, QuietStep
  PROVE  EncodeInv'
<1> SUFFICES ASSUME NEW s \in Slots
             PROVE  /\ omx'[s].busy # None =>
                         /\ ses'[s].encoding /\ ses'[s].abort # "DONE" /\ omx'[s].busy = ses'[s].job
                         /\ ongoing' = <<Entry(s)'>> \/ BeingAborted(s)'
                         /\ ses'[s].handles = 0 /\ omx'[s].cb = "none"
                    /\ Encodes(s)' => omx'[s].busy # None /\ omx'[s].goal = "none"
                    /\ ses'[s].abort = "INIT" => ses'[s].encoding /\ api'.ses = s /\ api'.pc = "aborting"
                    /\ ~ses'[s].active => ~ses'[s].encoding
  BY DEF EncodeInv
<1>1. Quiet(s) /\ UNCHANGED <<ongoing, api>>
  BY DEF QuietStep
<1>2. ASSUME omx'[s].busy # None
      PROVE  /\ ses'[s].encoding /\ ses'[s].abort # "DONE" /\ omx'[s].busy = ses'[s].job
             /\ ongoing' = <<Entry(s)'>> \/ BeingAborted(s)'
             /\ ses'[s].handles = 0 /\ omx'[s].cb = "none"
  <2>1. omx'[s].busy = omx[s].busy /\ ses'[s].abort = ses[s].abort
    BY <1>1, <1>2 DEF Quiet, KeepsBusy, KeepsAbort
  <2>2. Entry(s)' = Entry(s) /\ BeingAborted(s)' = BeingAborted(s)
    BY <1>1 DEF Quiet, KeepsSession, Entry, BeingAborted
  <2> QED
    BY <1>1, <1>2, <2>1, <2>2 DEF JpegInv, EncodeInv, Quiet, KeepsSession, KeepsHandle
<1>3. Encodes(s)' => omx'[s].busy # None /\ omx'[s].goal = "none"
  BY <1>1, QuietEncodes DEF JpegInv, EncodeInv, Quiet, KeepsBusy, KeepsGoal
<1>4. ses'[s].abort = "INIT" => ses'[s].encoding /\ api'.ses = s /\ api'.pc = "aborting"
  BY <1>1 DEF JpegInv, EncodeInv, Quiet, KeepsAbort, KeepsSession
<1>5. ~ses'[s].active => ~ses'[s].encoding
  BY <1>1 DEF JpegInv, EncodeInv, Quiet, KeepsSession
<1> QED
  BY <1>2, <1>3, <1>4, <1>5

LEMMA QuietQueues ==
  ASSUME JpegInv, QuietStep
  PROVE  QueueInv'
<1>1. UNCHANGED <<todo, ongoing, status, answers>>
  BY DEF QuietStep
<1>2. \A j : Open(j)' <=> Open(j)
  BY <1>1 DEF Open
<1>3. \A e \in Entries : EntryOk(e) => EntryOk(e)'
  <2>1. \A c \in Clients : SessionOf(c)' = SessionOf(c)
    BY DEF QuietStep, KeepsClients, SessionOf
  <2> QED
    BY <1>1, <1>2, <2>1, Identifiers DEF EntryOk, Entries, QuietStep, Quiet, KeepsSession
<1>4. \A i \in DOMAIN todo : todo[i] \in Entries
  BY DEF JpegInv, JpegTypes, TypeQueues
<1>5. \A i \in DOMAIN ongoing : ongoing[i] \in Entries
  BY DEF JpegInv, JpegTypes, TypeQueues
<1>6. \A i \in DOMAIN todo' : EntryOk(todo[i])'
  BY <1>1, <1>3, <1>4 DEF JpegInv, QueueInv
<1>7. \A i \in DOMAIN ongoing' : EntryOk(ongoing[i])'
  BY <1>1, <1>3, <1>5 DEF JpegInv, QueueInv
<1>8. \A s \in Slots : omx'[s].busy # None =>
          Open(omx[s].busy)' /\ \A i \in DOMAIN todo : todo[i].job # omx'[s].busy
  <2> SUFFICES ASSUME NEW s \in Slots, omx'[s].busy # None
               PROVE  Open(omx[s].busy)' /\ \A i \in DOMAIN todo : todo[i].job # omx'[s].busy
    OBVIOUS
  <2>1. omx'[s].busy = omx[s].busy
    BY DEF QuietStep, Quiet, KeepsBusy
  <2>2. Open(omx[s].busy) /\ \A i \in DOMAIN todo : todo[i].job # omx[s].busy
    BY <2>1 DEF JpegInv, QueueInv
  <2> QED
    BY <1>1, <2>1, <2>2 DEF Open
<1> QED
  BY <1>1, <1>6, <1>7, <1>8 DEF JpegInv, QueueInv, JobsDiffer

LEMMA QuietHandles ==
  ASSUME JpegInv, QuietStep
  PROVE  HandleInv'
<1> SUFFICES ASSUME NEW s \in Slots, ses'[s].active
             PROVE  \/ ses'[s].handles + Using(s)' = 1
                    \/ /\ ses'[s].handles + Using(s)' = 0
                       /\ ses'[s].abort # "NONE" \/ (api'.ses = s /\ api'.pc \in {"purge", "abort", "aborting"})
  BY DEF HandleInv
<1>1. Quiet(s) /\ UNCHANGED <<ongoing, api>> /\ ses[s].handles \in Nat
  BY DEF QuietStep, JpegInv, JpegTypes, TypeSlots, Sessions
<1>2. ses'[s].handles + Using(s)' = ses[s].handles + Using(s)
  <2>1. OfSession(ongoing, s)' = OfSession(ongoing, s)
    BY <1>1 DEF OfSession
  <2>2. CASE ses'[s].handles = ses[s].handles /\ omx'[s].cb = omx[s].cb
    BY <2>1, <2>2 DEF Using
  <2>3. CASE ses'[s].handles = ses[s].handles + 1 /\ omx[s].cb # "none" /\ omx'[s].cb = "none"
    BY <1>1, <2>1, <2>3 DEF Using
  <2> QED
    BY <1>1, <2>2, <2>3 DEF Quiet, KeepsHandle
<1>3. ses[s].active /\ (ses[s].abort # "NONE" => ses'[s].abort # "NONE")
  BY <1>1 DEF Quiet, KeepsSession, KeepsAbort
<1> QED
  BY <1>1, <1>2, <1>3 DEF JpegInv, HandleInv

LEMMA QuietService ==
  ASSUME JpegInv, QuietStep
  PROVE  ServiceStep
BY Silent DEF QuietStep, Quiet, KeepsBusy

LEMMA QuietKeeps ==
  ASSUME JpegInv, QuietStep, JpegTypes', LockInv', ChangeInv'
  PROVE  JpegInv' /\ ServiceStep
BY QuietCalls, QuietEncode, QuietQueues, QuietHandles, QuietService DEF JpegInv

(* A change of state in progress goes on, for a session that does not encode. *)
Under == {"send", "exec", "wait"}
Moves(t) == \/ run'[t] = run[t]
            \/ /\ run[t].at \in Under /\ run'[t].ses = run[t].ses
               /\ run'[t].at \in Under => run'[t].goals # <<>>

LEMMA ResultMoves ==
  ASSUME NEW r \in Changes, r.goals # <<>>
  PROVE  /\ GoOn(r).ses = r.ses /\ (GoOn(r).at \in Under => GoOn(r).goals # <<>>)
         /\ Fail(r).ses = r.ses /\ (Fail(r).at \in Under => Fail(r).goals # <<>>)
<1>1. r.goals \in Seq(Goals)
  BY DEF Changes
<1>2. ASSUME Len(r.goals) # 1
      PROVE  Tail(r.goals) # <<>>
  <2>1. /\ Len(r.goals) \in Nat /\ Len(r.goals) # 0
        /\ Tail(r.goals) \in Seq(Goals) /\ Len(Tail(r.goals)) = Len(r.goals) - 1
    BY <1>1, HeadTailProperties, EmptySeq
  <2>2. Len(Tail(r.goals)) # 0
    BY <1>2, <2>1
  <2> QED
    BY <2>1, <2>2, EmptySeq
<1>3. GoOn(r).ses = r.ses /\ (GoOn(r).at \in Under => GoOn(r).goals # <<>>)
  BY <1>2 DEF GoOn, Under, Changes
<1>4. Fail(r).ses = r.ses /\ (Fail(r).at \in Under => Fail(r).goals # <<>>)
  <2>1. CASE r.strict
    BY <2>1 DEF Fail, Under, Changes
  <2>2. CASE ~r.strict
    BY <2>2, <1>3 DEF Fail
  <2> QED
    BY <2>1, <2>2
<1> QED
  BY <1>3, <1>4

LEMMA ChangeGoesOn ==
  ASSUME JpegInv, QuietStep, UNCHANGED <<lock, mgr, inprogress>>,
         \A t \in {"mgr", "api"} : Moves(t)
  PROVE  LockInv' /\ ChangeInv'
<1>1. UNCHANGED <<ongoing, api>>
  BY DEF QuietStep
<1>2. LockInv'
  <2>1. ASSUME mgr.pc \in MgrBusy
        PROVE  /\ mgr.ses \in Slots /\ ongoing = <<Entry(mgr.ses)>>'
               /\ ~ses'[mgr.ses].encoding /\ ses'[mgr.ses].abort = "NONE"
    <3>1. /\ mgr.ses \in Slots /\ ongoing = <<Entry(mgr.ses)>>
          /\ ~ses[mgr.ses].encoding /\ ses[mgr.ses].abort = "NONE"
      BY <2>1 DEF JpegInv, LockInv
    <3>2. /\ ses'[mgr.ses].job = ses[mgr.ses].job /\ ses'[mgr.ses].encoding = ses[mgr.ses].encoding
          /\ ses'[mgr.ses].abort = ses[mgr.ses].abort
      BY <3>1 DEF QuietStep, Quiet, KeepsSession, KeepsAbort
    <3> QED
      BY <3>1, <3>2 DEF Entry
  <2> QED
    BY <1>1, <2>1 DEF JpegInv, LockInv, Entry
<1>3. ASSUME NEW t \in {"mgr", "api"}, run'[t].at \in Under
      PROVE  run'[t].ses \in Slots /\ run'[t].goals # <<>> /\ ~Encodes(run[t].ses)'
  <2>1. run[t].at \in Under /\ run'[t].ses = run[t].ses
    BY <1>3 DEF Moves
  <2>2. run[t].ses \in Slots /\ run[t].goals # <<>> /\ ~Encodes(run[t].ses)
    BY <2>1 DEF Under, JpegInv, ChangeInv
  <2>3. PICK u \in Slots : u = run[t].ses
    BY <2>2
  <2>4. ~Encodes(u)'
    BY <2>2, <2>3, QuietEncodes DEF QuietStep
  <2>5. ~Encodes(run[t].ses)'
    BY <2>1, <2>3, <2>4
  <2>6. run'[t].goals # <<>>
    BY <1>3, <2>2 DEF Moves
  <2> QED
    BY <2>1, <2>2, <2>5, <2>6
<1>4. run'["mgr"].at # "ok" => run["mgr"].at # "ok"
  BY DEF Moves, Under
<1>5. run'["api"].at # "ok" => run["api"].at # "ok"
  BY DEF Moves, Under
<1>6. ChangeInv'
  BY <1>1, <1>3, <1>4, <1>5 DEF JpegInv, ChangeInv, Under
<1> QED
  BY <1>2, <1>6

LEMMA SendCommandStep ==
  ASSUME JpegInv, NEW t \in {"mgr", "api"}, SendCommand(t)
  PROVE  JpegInv' /\ ServiceStep
<1> DEFINE r == run[t]
<1>1. /\ r \in Changes /\ r.goals # <<>> /\ r.ses \in Slots /\ ~Encodes(r.ses)
      /\ ses \in [Slots -> Sessions] /\ omx \in [Slots -> Components]
      /\ run \in [{"mgr", "api"} -> Changes] /\ r.at = "send"
  BY DEF JpegInv, JpegTypes, TypeThreads, TypeSlots, ChangeInv, SendCommand
<1>2. \A p \in {"mgr", "api"} : Moves(p)
  <2>1. run' = [run EXCEPT ![t] = GoOn(r)] \/ run' = [run EXCEPT ![t] = Fail(r)]
        \/ run' = [run EXCEPT ![t] = [r EXCEPT !.at = "exec"]]
    BY DEF SendCommand
  <2>2. r.at \in Under /\ [r EXCEPT !.at = "exec"].ses = r.ses /\ [r EXCEPT !.at = "exec"].goals = r.goals
    BY <1>1 DEF Under, Changes
  <2> QED
    BY <1>1, <2>1, <2>2, ResultMoves DEF Moves
<1>3. QuietStep
  <2>1. ses' = ses \/ ses' = [ses EXCEPT ![r.ses] = [ses[r.ses] EXCEPT !.pending = TRUE]]
    BY DEF SendCommand, sessionVars
  <2>2. omx' = omx \/ omx' = [omx EXCEPT ![r.ses] = [omx[r.ses] EXCEPT !.goal = Head(r.goals).to]]
    BY DEF SendCommand, sessionVars
  <2>3. ASSUME NEW u \in Slots
        PROVE  Quiet(u)
    <3>1. ses[u] \in Sessions /\ omx[u] \in Components
      BY <1>1
    <3>2. ses'[u] = ses[u] \/ ses'[u] = [ses[u] EXCEPT !.pending = TRUE]
      BY <1>1, <2>1
    <3>3. omx'[u] = omx[u] \/ (u = r.ses /\ omx'[u] = [omx[u] EXCEPT !.goal = Head(r.goals).to])
      BY <1>1, <2>2
    <3>4. KeepsSession(u) /\ ses'[u].abort = ses[u].abort /\ ses'[u].handles = ses[u].handles
      BY <3>1, <3>2 DEF KeepsSession, Sessions
    <3>5. omx'[u].busy = omx[u].busy /\ omx'[u].cb = omx[u].cb /\ KeepsGoal(u)
      BY <1>1, <3>1, <3>3 DEF KeepsGoal, Components
    <3> QED
      BY <3>4, <3>5 DEF Quiet, KeepsAbort, KeepsBusy, KeepsHandle
  <2> QED
    BY <2>3 DEF QuietStep, KeepsClients, SendCommand, queueVars, clientVars
<1>4. UNCHANGED <<lock, mgr, inprogress>>
  BY DEF SendCommand
<1> QED
  BY <1>2, <1>3, <1>4, ChangeGoesOn, SendCommandTypes, QuietKeeps

LEMMA ExecStep ==
  ASSUME JpegInv, NEW t \in {"mgr", "api"}, Exec(t)
  PROVE  JpegInv' /\ ServiceStep
<1> DEFINE r == run[t]
           b == IF Head(r.goals).to = "Executing" THEN omx[r.ses].bufs ELSE Head(r.goals).to = "Idle"
<1>1. /\ r \in Changes /\ r.goals # <<>> /\ r.ses \in Slots
      /\ ses \in [Slots -> Sessions] /\ omx \in [Slots -> Components]
      /\ run \in [{"mgr", "api"} -> Changes] /\ r.at = "exec"
  BY DEF JpegInv, JpegTypes, TypeThreads, TypeSlots, ChangeInv, Exec
<1>2. \A p \in {"mgr", "api"} : Moves(p)
  <2>1. run' = [run EXCEPT ![t] = GoOn(r)] \/ run' = [run EXCEPT ![t] = Fail(r)]
        \/ run' = [run EXCEPT ![t] = [r EXCEPT !.at = "wait"]]
    BY DEF Exec
  <2>2. r.at \in Under /\ [r EXCEPT !.at = "wait"].ses = r.ses /\ [r EXCEPT !.at = "wait"].goals = r.goals
    BY <1>1 DEF Under, Changes
  <2> QED
    BY <1>1, <2>1, <2>2, ResultMoves DEF Moves
<1>3. QuietStep
  <2>1. omx' = omx \/ omx' = [omx EXCEPT ![r.ses] = [omx[r.ses] EXCEPT !.bufs = b]]
    BY DEF Exec
  <2> HIDE DEF b
  <2>2. ASSUME NEW u \in Slots
        PROVE  Quiet(u)
    <3>1. ses'[u] = ses[u] /\ omx[u] \in Components
      BY <1>1 DEF Exec
    <3>2. omx'[u] = omx[u] \/ omx'[u] = [omx[u] EXCEPT !.bufs = b]
      BY <1>1, <2>1
    <3>3. omx'[u].busy = omx[u].busy /\ omx'[u].cb = omx[u].cb /\ omx'[u].goal = omx[u].goal
      BY <3>1, <3>2 DEF Components
    <3> QED
      BY <3>1, <3>3 DEF Quiet, KeepsSession, KeepsAbort, KeepsBusy, KeepsGoal, KeepsHandle
  <2> QED
    BY <2>2 DEF QuietStep, KeepsClients, Exec, queueVars
<1>4. UNCHANGED <<lock, mgr, inprogress>>
  BY DEF Exec
<1> QED
  BY <1>2, <1>3, <1>4, ChangeGoesOn, ExecTypes, QuietKeeps

(* A signal lets those go on that wait for the session.                     *)
LEMMA SignalMoves ==
  ASSUME JpegInv, NEW s \in Slots, run' = Signalled(s) \/ run' = run
  PROVE  \A t \in {"mgr", "api"} : Moves(t)
<1> SUFFICES ASSUME NEW t \in {"mgr", "api"}
             PROVE  Moves(t)
  OBVIOUS
<1>1. run'[t] = run[t] \/ (run[t].at = "wait" /\ run'[t] = GoOn(run[t]))
  BY DEF Signalled
<1>2. run[t] \in Changes /\ (run[t].at = "wait" => run[t].goals # <<>>)
  BY DEF JpegInv, JpegTypes, TypeThreads, ChangeInv
<1> QED
  BY <1>1, <1>2, ResultMoves DEF Moves, Under

(* A command completes: its component was not encoding.                     *)
LEMMA CompleteStep ==
  ASSUME JpegInv, NEW s \in Slots, Complete(s)
  PROVE  JpegInv' /\ ServiceStep
<1>1. /\ ses \in [Slots -> Sessions] /\ omx \in [Slots -> Components]
      /\ ses[s] \in Sessions /\ omx[s] \in Components
  BY DEF JpegInv, JpegTypes, TypeSlots
<1>2. ~Encodes(s)
  BY DEF Complete, JpegInv, EncodeInv
<1>3. \A t \in {"mgr", "api"} : Moves(t)
  BY SignalMoves DEF Complete
<1>4. QuietStep
  <2>1. ASSUME NEW u \in Slots, u # s
        PROVE  ses'[u] = ses[u] /\ omx'[u] = omx[u]
    BY <1>1, <2>1 DEF Complete
  <2>2. omx'[s].busy = None /\ omx'[s].cb = omx[s].cb
    BY <1>1 DEF Complete, Components
  <2>3. \/ ses'[s] = [ses[s] EXCEPT !.abort = "DONE"] /\ ses[s].abort = "INIT"
        \/ ses'[s] = [ses[s] EXCEPT !.pending = FALSE]
    BY <1>1 DEF Complete
  <2>4. KeepsSession(s) /\ ses'[s].handles = ses[s].handles
    BY <1>1, <2>3 DEF KeepsSession, Sessions
  <2>5. KeepsAbort(s)
    BY <1>1, <2>2, <2>3 DEF KeepsAbort, Sessions
  <2>6. ASSUME NEW u \in Slots
        PROVE  Quiet(u)
    BY <1>2, <2>1, <2>2, <2>4, <2>5
       DEF Quiet, KeepsSession, KeepsAbort, KeepsBusy, KeepsGoal, KeepsHandle
  <2> QED
    BY <2>6 DEF QuietStep, KeepsClients, Complete, queueVars, clientVars
<1>5. UNCHANGED <<lock, mgr, inprogress>>
  BY DEF Complete
<1> QED
  BY <1>3, <1>4, <1>5, ChangeGoesOn, ComponentTypes, QuietKeeps DEF ComponentStep

(* mm_jpegenc_job_done ends: the handle is the session's again.             *)
LEMMA HandleBackStep ==
  ASSUME JpegInv, NEW s \in Slots, HandleBack(s)
  PROVE  JpegInv' /\ ServiceStep
<1>1. /\ ses \in [Slots -> Sessions] /\ omx \in [Slots -> Components]
      /\ ses[s] \in Sessions /\ omx[s] \in Components
  BY DEF JpegInv, JpegTypes, TypeSlots
<1>2. \A t \in {"mgr", "api"} : Moves(t)
  BY SignalMoves DEF HandleBack
<1>3. QuietStep
  <2>1. ASSUME NEW u \in Slots, u # s
        PROVE  ses'[u] = ses[u] /\ omx'[u] = omx[u]
    BY <1>1, <2>1 DEF HandleBack
  <2>2. ses'[s] = [ses[s] EXCEPT !.handles = ses[s].handles + 1] /\ omx'[s] = [omx[s] EXCEPT !.cb = "none"]
    BY <1>1 DEF HandleBack
  <2>3. KeepsSession(s) /\ ses'[s].handles = ses[s].handles + 1 /\ ses'[s].abort = ses[s].abort
    BY <1>1, <2>2 DEF KeepsSession, Sessions
  <2>4. omx'[s].cb = "none" /\ omx'[s].busy = omx[s].busy /\ omx'[s].goal = omx[s].goal
    BY <1>1, <2>2 DEF Components
  <2>5. omx[s].cb # "none"
    BY DEF HandleBack
  <2>6. ASSUME NEW u \in Slots
        PROVE  Quiet(u)
    BY <2>1, <2>3, <2>4, <2>5
       DEF Quiet, KeepsSession, KeepsAbort, KeepsBusy, KeepsGoal, KeepsHandle
  <2> QED
    BY <2>6 DEF QuietStep, KeepsClients, HandleBack, clientVars
<1>4. UNCHANGED <<lock, mgr, inprogress>>
  BY DEF HandleBack
<1> QED
  BY <1>2, <1>3, <1>4, ChangeGoesOn, ComponentTypes, QuietKeeps DEF ComponentStep

(* An error nobody is told of: of a component that is being aborted, or one *)
(* that was changing its state.                                             *)
LEMMA QuietErrorStep ==
  ASSUME JpegInv, NEW s \in Slots, EventError(s), ses[s].abort = "INIT" \/ ~ses[s].encoding
  PROVE  JpegInv' /\ ServiceStep
<1>1. /\ ses \in [Slots -> Sessions] /\ omx \in [Slots -> Components]
      /\ ses[s] \in Sessions /\ omx[s] \in Components
  BY DEF JpegInv, JpegTypes, TypeSlots
<1>2. ~Encodes(s)
  BY DEF Encodes
<1>3. \A t \in {"mgr", "api"} : Moves(t)
  BY SignalMoves DEF EventError
<1>4. QuietStep
  <2> DEFINE calm == [[omx[s] EXCEPT !.busy = None] EXCEPT !.goal = "none"]
  <2>1. ASSUME NEW u \in Slots, u # s
        PROVE  ses'[u] = ses[u] /\ omx'[u] = omx[u]
    BY <1>1, <2>1 DEF EventError
  <2>2. omx'[s] = calm
    BY <1>1 DEF EventError
  <2>3. omx'[s].busy = None /\ omx'[s].cb = omx[s].cb
    BY <1>1, <2>2 DEF Components
  <2>4. \/ ses'[s] = [ses[s] EXCEPT !.abort = "DONE"] /\ ses[s].abort = "INIT"
        \/ ses'[s] = [ses[s] EXCEPT !.error = TRUE]
    BY <1>1 DEF EventError
  <2>5. KeepsSession(s) /\ ses'[s].handles = ses[s].handles
    BY <1>1, <2>4 DEF KeepsSession, Sessions
  <2>6. KeepsAbort(s)
    BY <1>1, <2>3, <2>4 DEF KeepsAbort, Sessions
  <2>7. ASSUME NEW u \in Slots
        PROVE  Quiet(u)
    BY <1>2, <2>1, <2>3, <2>5, <2>6
       DEF Quiet, KeepsSession, KeepsAbort, KeepsBusy, KeepsGoal, KeepsHandle
  <2> QED
    BY <2>7 DEF QuietStep, KeepsClients, EventError
<1>5. UNCHANGED <<lock, mgr, inprogress>>
  BY DEF EventError
<1> QED
  BY <1>3, <1>4, <1>5, ChangeGoesOn, ComponentTypes, QuietKeeps DEF ComponentStep

(* A picture that is ready when its job is being aborted.                   *)
LEMMA QuietFillDoneStep ==
  ASSUME JpegInv, NEW s \in Slots, FillDone(s), ses[s].abort # "NONE"
  PROVE  JpegInv' /\ ServiceStep
<1>1. omx \in [Slots -> Components] /\ omx[s] \in Components
  BY DEF JpegInv, JpegTypes, TypeSlots
<1>2. UNCHANGED <<ses, run, lock, mgr, inprogress>>
  BY DEF FillDone
<1>3. QuietStep
  <2>1. omx' = [omx EXCEPT ![s] = [omx[s] EXCEPT !.busy = None]]
    BY DEF FillDone
  <2>2. ASSUME NEW u \in Slots, u # s
        PROVE  omx'[u] = omx[u]
    BY <1>1, <2>1, <2>2
  <2>3. omx'[s].busy = None /\ omx'[s].cb = omx[s].cb /\ ~Encodes(s)
    BY <1>1, <2>1 DEF Components, Encodes
  <2>4. ASSUME NEW u \in Slots
        PROVE  Quiet(u)
    BY <1>2, <2>2, <2>3
       DEF Quiet, KeepsSession, KeepsAbort, KeepsBusy, KeepsGoal, KeepsHandle
  <2> QED
    BY <2>4 DEF QuietStep, KeepsClients, FillDone
<1>4. \A t \in {"mgr", "api"} : Moves(t)
  BY <1>2 DEF Moves
<1> QED
  BY <1>2, <1>3, <1>4, ChangeGoesOn, ComponentTypes, QuietKeeps DEF ComponentStep

(* The job manager wakes up, finds nothing it can start, or goes on with    *)
(* the configuration of the sessions.                                       *)
LEMMA QuietMgrStep ==
  ASSUME JpegInv,
         \/ Wake \/ Retired \/ Configured
         \/ TakeJob /\ (todo = <<>> \/ ses[Head(todo).ses].handles = 0)
  PROVE  JpegInv' /\ ServiceStep
<1>1. /\ ses \in [Slots -> Sessions] /\ omx \in [Slots -> Components] /\ mgr \in MgrPlaces
      /\ run \in [{"mgr", "api"} -> Changes]
  BY DEF JpegInv, JpegTypes, TypeSlots, TypeThreads
<1>2. QuietStep
  <2>1. \/ ses' = ses
        \/ inprogress \in Slots /\ ses' = [ses EXCEPT ![inprogress] = [ses[inprogress] EXCEPT !.config = FALSE]]
        \/ mgr.ses \in Slots /\ ses' = [ses EXCEPT ![mgr.ses] = [ses[mgr.ses] EXCEPT !.config = TRUE]]
    BY DEF Wake, TakeJob, Retired, Configured, sessionVars, JpegInv, LockInv, MgrBusy, JpegTypes, TypeThreads
  <2>2. omx' = omx
    BY DEF Wake, TakeJob, Retired, Configured, sessionVars
  <2>3. ASSUME NEW u \in Slots
        PROVE  Quiet(u)
    <3>1. ses[u] \in Sessions
      BY <1>1
    <3>2. ses'[u] = ses[u] \/ ses'[u] = [ses[u] EXCEPT !.config = FALSE] \/ ses'[u] = [ses[u] EXCEPT !.config = TRUE]
      BY <1>1, <2>1
    <3>3. KeepsSession(u) /\ ses'[u].abort = ses[u].abort /\ ses'[u].handles = ses[u].handles
      BY <3>1, <3>2 DEF KeepsSession, Sessions
    <3> QED
      BY <2>2, <3>3 DEF Quiet, KeepsAbort, KeepsBusy, KeepsGoal, KeepsHandle
  <2> QED
    BY <2>3 DEF QuietStep, KeepsClients, Wake, TakeJob, Retired, Configured, queueVars, clientVars
<1>3. JpegTypes'
  BY MgrTypes, TakeJobTypes
<1>4. CASE Wake \/ (TakeJob /\ (todo = <<>> \/ ses[Head(todo).ses].handles = 0))
  <2>1. /\ UNCHANGED <<ses, ongoing, inprogress, lock, api, run>>
        /\ mgr.pc \in {"wait", "lock"} /\ mgr'.pc \in {"wait", "lock"}
        /\ mgr'.pc = "lock" => ongoing = <<>>
    BY <1>1, <1>4 DEF Wake, TakeJob, MgrPlaces, sessionVars
  <2>2. LockInv'
    BY <2>1 DEF JpegInv, LockInv, MgrBusy
  <2>3. ChangeInv'
    BY <2>1 DEF JpegInv, ChangeInv, Encodes
  <2> QED
    BY <1>2, <1>3, <2>2, <2>3, QuietKeeps
<1>5. CASE Retired \/ Configured
  <2>1. /\ UNCHANGED <<ongoing, lock, api>> /\ mgr.pc \in MgrBusy /\ mgr' = [mgr EXCEPT !.pc = mgr'.pc]
        /\ mgr'.pc \in {"configure", "go"} /\ run["mgr"].at = "ok"
    BY <1>1, <1>5 DEF Retired, Configured, MgrBusy, MgrPlaces, queueVars
  <2>2. /\ mgr.ses \in Slots /\ mgr'.ses = mgr.ses /\ ongoing = <<Entry(mgr.ses)>>
        /\ ~ses[mgr.ses].encoding /\ ses[mgr.ses].abort = "NONE"
    BY <1>1, <2>1 DEF JpegInv, LockInv, MgrPlaces
  <2>3. /\ ses'[mgr.ses].job = ses[mgr.ses].job /\ ses'[mgr.ses].encoding = ses[mgr.ses].encoding
        /\ ses'[mgr.ses].abort = ses[mgr.ses].abort
    BY <1>2, <2>2 DEF QuietStep, Quiet, KeepsSession, KeepsAbort
  <2>4. LockInv'
    BY <2>1, <2>2, <2>3 DEF JpegInv, LockInv, MgrBusy, Entry
  <2>5. /\ run'["api"] = run["api"]
        /\ run'["mgr"] = run["mgr"] \/ (run' = [run EXCEPT !["mgr"] = Change(mgr.ses, Configure, TRUE)] /\ mgr'.pc = "configure")
    BY <1>1, <1>5 DEF Retired, Configured, MgrPlaces
  <2>6. ChangeInv'
    <3>1. ASSUME NEW u \in Slots, ~Encodes(u)
          PROVE  ~Encodes(u)'
      BY <1>2, <3>1, QuietEncodes DEF QuietStep
    <3>2. ASSUME run'["mgr"].at \in Under
          PROVE  run'["mgr"].ses \in Slots /\ run'["mgr"].goals # <<>> /\ ~Encodes(run["mgr"].ses)'
      <4>1. run' = [run EXCEPT !["mgr"] = Change(mgr.ses, Configure, TRUE)]
        BY <2>1, <2>5, <3>2 DEF Under
      <4>2. run'["mgr"].ses = mgr.ses /\ run'["mgr"].goals = Configure
        BY <1>1, <4>1 DEF Change
      <4>3. PICK u \in Slots : u = mgr.ses
        BY <2>2
      <4>4. ~Encodes(u)'
        BY <2>2, <3>1, <4>3 DEF Encodes
      <4> QED
        BY <4>2, <4>3, <4>4, ChangeTypes
    <3>3. ASSUME run'["api"].at \in Under
          PROVE  run'["api"].ses \in Slots /\ run'["api"].goals # <<>> /\ ~Encodes(run["api"].ses)'
      <4>1. run["api"].ses \in Slots /\ run["api"].goals # <<>> /\ ~Encodes(run["api"].ses)
        BY <2>5, <3>3 DEF Under, JpegInv, ChangeInv
      <4>2. PICK u \in Slots : u = run["api"].ses
        BY <4>1
      <4>3. ~Encodes(u)'
        BY <3>1, <4>1, <4>2
      <4> QED
        BY <2>5, <4>1, <4>2, <4>3
    <3>4. run'["api"].at # "ok" => api'.pc = "run"
      BY <2>1, <2>5 DEF JpegInv, ChangeInv
    <3>5. run'["mgr"].at # "ok" => mgr'.pc \in {"retire", "configure"}
      BY <2>1, <2>5
    <3> QED
      BY <3>2, <3>3, <3>4, <3>5 DEF ChangeInv, Under
  <2> QED
    BY <1>2, <1>3, <2>4, <2>6, QuietKeeps
<1> QED
  BY <1>4, <1>5

-----------------------------------------------------------------------------
(* Steps that answer a job: a picture, an error while encoding, GiveUp.     *)

LEMMA EntryOfQueue ==
  ASSUME JpegInv
  PROVE  /\ \A i \in DOMAIN todo : todo[i] \in Entries /\ todo[i].job \in Jobs /\ todo[i].ses \in Slots
         /\ \A i \in DOMAIN ongoing : ongoing[i] \in Entries /\ ongoing[i].job \in Jobs /\ ongoing[i].ses \in Slots
<1>1. todo \in Seq(Entries) /\ ongoing \in Seq(Entries)
  BY DEF JpegInv, JpegTypes, TypeQueues
<1>2. \A e \in Entries : e.job \in Jobs /\ e.ses \in Slots
  BY DEF Entries
<1> QED
  BY <1>1, <1>2

LEMMA AnsweredQueues ==
  ASSUME JpegInv, NEW j \in Jobs, Open(j),
         \A i \in DOMAIN todo : todo[i].job # j,
         UNCHANGED <<todo, hal, api, status>>, ongoing' = <<>>,
         answers' = [answers EXCEPT ![j] = @ + 1],
         \A u \in Slots : ses'[u].active = ses[u].active /\ omx'[u].busy = None
  PROVE  QueueInv' /\ ClientInv'
<1>1. answers \in [Jobs -> Nat]
  BY DEF JpegInv, JpegTypes, TypeClients
<1>2. \A k \in Jobs : k # j => answers'[k] = answers[k]
  BY <1>1
<1>3. answers'[j] # 0
  BY <1>1
<1>4. ASSUME NEW i \in DOMAIN todo
      PROVE  EntryOk(todo[i])'
  <2>1. EntryOk(todo[i]) /\ todo[i].job \in Jobs /\ todo[i].ses \in Slots
    BY EntryOfQueue DEF JpegInv, QueueInv
  <2> QED
    BY <1>2, <2>1 DEF EntryOk, Open, SessionOf
<1>5. QueueInv'
  BY <1>4 DEF JpegInv, QueueInv, JobsDiffer
<1>6. status[j] = "accepted"
  BY DEF Open
<1>7. ClientInv'
  BY <1>2, <1>3, <1>6 DEF JpegInv, ClientInv, Open
<1> QED
  BY <1>5, <1>7

LEMMA AnsweredService ==
  ASSUME JpegInv, NEW j \in Jobs, Open(j), UNCHANGED status,
         answers' = [answers EXCEPT ![j] = @ + 1],
         Reading' = Reading \ {j}
  PROVE  ServiceStep
<1>1. answers' = [answers EXCEPT ![j] = 1]
  BY DEF Open, JpegInv, JpegTypes, TypeClients
<1>2. Service!Answer(j)
  BY <1>1 DEF Service!Answer, Open
<1> QED
  BY <1>2 DEF ServiceStep, Service!Next

(* A component that reads a job that is not being aborted ends it.          *)
EndsJob(s) ==
    /\ omx[s].busy # None /\ ses[s].abort = "NONE" /\ omx[s].cb = "none"
    /\ answers' = [answers EXCEPT ![ses[s].job] = @ + 1]
    /\ JobDone(s)
    /\ \A u \in Slots : u # s => ses'[u] = ses[u] /\ omx'[u] = omx[u]
    /\ ses'[s].active = ses[s].active /\ ses'[s].handles = ses[s].handles /\ ses'[s].job = ses[s].job
    /\ ses'[s].abort = "NONE" /\ ~ses'[s].encoding
    /\ omx'[s].busy = None /\ omx'[s].cb # "none"
    /\ UNCHANGED <<todo, inprogress, lock, mgr, api, run, hal, status>>

LEMMA EndsJobStep ==
  ASSUME JpegInv, NEW s \in Slots, EndsJob(s), JpegTypes'
  PROVE  JpegInv' /\ ServiceStep
<1> DEFINE j == ses[s].job
<1>1. /\ omx[s].busy = j /\ j \in Jobs /\ Reading = {j} /\ ses[s].encoding
      /\ \A u \in Slots : u # s => omx[u].busy = None
      /\ ongoing = <<Entry(s)>> \/ BeingAborted(s)
      /\ ses[s].handles = 0 /\ omx[s].cb = "none"
  BY OneReader DEF EndsJob, JpegInv, EncodeInv
<1>2. Open(j) /\ \A i \in DOMAIN todo : todo[i].job # j
  <2>1. Open(omx[s].busy) /\ \A i \in DOMAIN todo : todo[i].job # omx[s].busy
    BY <1>1, Identifiers DEF JpegInv, QueueInv
  <2> QED
    BY <1>1, <2>1
<1>3. UNCHANGED <<todo, inprogress, lock, mgr, api, run, hal, status>>
  BY DEF EndsJob
<1>4. ongoing' = <<>>
  <2>1. CASE ongoing = <<Entry(s)>>
    <3>1. Entry(s) \in Entries /\ Entry(s).job = j
      BY <1>1 DEF Entry, Entries
    <3>2. Without(<<Entry(s)>>, Entry(s).job) = <<>>
      BY <3>1, Single
    <3> QED
      BY <2>1, <3>1, <3>2 DEF EndsJob, JobDone
  <2>2. CASE BeingAborted(s)
    BY <2>2 DEF BeingAborted, EndsJob, JobDone, Without
  <2> QED
    BY <1>1, <2>1, <2>2
<1>5. mgr.pc \notin MgrBusy
  <2> SUFFICES ASSUME mgr.pc \in MgrBusy
               PROVE  FALSE
    OBVIOUS
  <2>1. mgr.ses \in Slots /\ ongoing = <<Entry(mgr.ses)>> /\ ~ses[mgr.ses].encoding
    BY DEF JpegInv, LockInv
  <2>2. ongoing = <<Entry(s)>>
    BY <1>1, <2>1 DEF BeingAborted
  <2> QED
    BY <1>1, <2>1, <2>2 DEF Entry
<1>6. \A u \in Slots : omx'[u].busy = None /\ ses'[u].active = ses[u].active
  BY <1>1 DEF EndsJob
<1>7. \A u \in Slots : ~Encodes(u)'
  BY <1>1 DEF EndsJob, Encodes, JpegInv, EncodeInv
<1>8. LockInv'
  BY <1>3, <1>4, <1>5 DEF JpegInv, LockInv
<1>9. ChangeInv'
  <2>1. ASSUME NEW t \in {"mgr", "api"}, run'[t].at \in Under
        PROVE  run'[t].ses \in Slots /\ run'[t].goals # <<>> /\ ~Encodes(run[t].ses)'
    <3>1. run[t].ses \in Slots /\ run[t].goals # <<>> /\ run'[t] = run[t]
      BY <1>3, <2>1 DEF Under, JpegInv, ChangeInv
    <3>2. PICK u \in Slots : u = run[t].ses
      BY <3>1
    <3>3. ~Encodes(u)'
      BY <1>7
    <3> QED
      BY <3>1, <3>2, <3>3
  <2> QED
    BY <1>3, <2>1 DEF JpegInv, ChangeInv, Under
<1>10. CallInv'
  <2>1. NoEntry(api.ses) => NoEntry(api.ses)'
    BY <1>3, <1>4 DEF NoEntry, OfSession
  <2>2. api.ses \in Slots => ses'[api.ses].abort = ses[api.ses].abort
    BY DEF EndsJob
  <2> QED
    BY <1>3, <1>4, <2>1, <2>2 DEF JpegInv, CallInv
<1>11. EncodeInv'
  <2>1. ASSUME NEW u \in Slots
        PROVE  /\ ses'[u].abort = "INIT" => ses'[u].encoding /\ api'.ses = u /\ api'.pc = "aborting"
               /\ ~ses'[u].active => ~ses'[u].encoding
    BY <1>3 DEF EndsJob, JpegInv, EncodeInv
  <2> QED
    BY <1>6, <1>7, <2>1 DEF EncodeInv
<1>12. QueueInv' /\ ClientInv'
  BY <1>1, <1>2, <1>3, <1>4, <1>6, AnsweredQueues DEF EndsJob
<1>13. HandleInv'
  <2> SUFFICES ASSUME NEW u \in Slots, ses'[u].active
               PROVE  \/ ses'[u].handles + Using(u)' = 1
                      \/ /\ ses'[u].handles + Using(u)' = 0
                         /\ ses'[u].abort # "NONE" \/ (api'.ses = u /\ api'.pc \in {"purge", "abort", "aborting"})
    BY DEF HandleInv
  <2>1. OfSession(ongoing, u)' = {}
    BY <1>4 DEF OfSession
  <2>2. CASE u = s
    BY <1>1, <2>1, <2>2 DEF Using, EndsJob
  <2>3. CASE u # s
    <3>1. OfSession(ongoing, u) = {}
      <4>1. CASE ongoing = <<Entry(s)>>
        BY <2>3, <4>1 DEF OfSession, Entry
      <4>2. CASE ongoing = <<>>
        BY <4>2 DEF OfSession
      <4> QED
        BY <1>1, <4>1, <4>2 DEF BeingAborted
    <3>2. ses'[u] = ses[u] /\ omx'[u] = omx[u]
      BY <2>3 DEF EndsJob
    <3>3. Using(u)' = Using(u)
      BY <2>1, <3>1, <3>2 DEF Using
    <3> QED
      BY <1>3, <3>2, <3>3 DEF JpegInv, HandleInv
  <2> QED
    BY <2>2, <2>3
<1>14. ServiceStep
  <2>1. Reading' = {}
    BY <1>6 DEF Reading
  <2> QED
    BY <1>1, <1>2, <1>3, <2>1, AnsweredService DEF EndsJob
<1> QED
  BY <1>8, <1>9, <1>10, <1>11, <1>12, <1>13, <1>14 DEF JpegInv

LEMMA EventErrorStep ==
  ASSUME JpegInv, NEW s \in Slots, EventError(s)
  PROVE  JpegInv' /\ ServiceStep
<1>1. /\ ses \in [Slots -> Sessions] /\ omx \in [Slots -> Components]
      /\ ses[s] \in Sessions /\ omx[s] \in Components
  BY DEF JpegInv, JpegTypes, TypeSlots
<1>2. CASE ses[s].abort # "INIT" /\ ses[s].encoding
  <2>1. omx[s].busy # None /\ ses[s].abort = "NONE"
    <3>1. ses[s].abort = "NONE"
      BY <1>1, <1>2 DEF EventError, JpegInv, EncodeInv, Sessions
    <3> QED
      BY <1>2, <3>1 DEF JpegInv, EncodeInv, Encodes
  <2>2. /\ ses' = [ses EXCEPT ![s] = [[ses[s] EXCEPT !.error = TRUE] EXCEPT !.encoding = FALSE]]
        /\ omx' = [omx EXCEPT ![s] = [[[omx[s] EXCEPT !.busy = None] EXCEPT !.goal = "none"] EXCEPT !.cb = "error"]]
    BY <1>1, <1>2 DEF EventError
  <2>3. /\ ses'[s].active = ses[s].active /\ ses'[s].handles = ses[s].handles
        /\ ses'[s].job = ses[s].job /\ ses'[s].abort = "NONE" /\ ~ses'[s].encoding
    BY <1>1, <2>1, <2>2 DEF Sessions
  <2>4. omx'[s].busy = None /\ omx'[s].cb = "error"
    BY <1>1, <2>2 DEF Components
  <2>5. \A u \in Slots : u # s => ses'[u] = ses[u] /\ omx'[u] = omx[u]
    BY <1>1, <2>2
  <2>6. EndsJob(s)
    BY <1>2, <2>1, <2>3, <2>4, <2>5 DEF EndsJob, EventError
  <2> QED
    BY <2>6, EndsJobStep, ComponentTypes DEF ComponentStep
<1> QED
  BY <1>2, QuietErrorStep

LEMMA FillDoneStep ==
  ASSUME JpegInv, NEW s \in Slots, FillDone(s)
  PROVE  JpegInv' /\ ServiceStep
<1>1. /\ ses \in [Slots -> Sessions] /\ omx \in [Slots -> Components]
      /\ ses[s] \in Sessions /\ omx[s] \in Components
  BY DEF JpegInv, JpegTypes, TypeSlots
<1>2. CASE ses[s].abort = "NONE"
  <2>1. /\ ses' = [ses EXCEPT ![s] = [ses[s] EXCEPT !.encoding = FALSE]]
        /\ omx' = [omx EXCEPT ![s] = [[omx[s] EXCEPT !.busy = None] EXCEPT !.cb = "done"]]
    BY <1>1, <1>2 DEF FillDone
  <2>2. /\ ses'[s].active = ses[s].active /\ ses'[s].handles = ses[s].handles
        /\ ses'[s].job = ses[s].job /\ ses'[s].abort = "NONE" /\ ~ses'[s].encoding
    BY <1>1, <1>2, <2>1 DEF Sessions
  <2>3. omx'[s].busy = None /\ omx'[s].cb = "done"
    BY <1>1, <2>1 DEF Components
  <2>4. \A u \in Slots : u # s => ses'[u] = ses[u] /\ omx'[u] = omx[u]
    BY <1>1, <2>1
  <2>5. EndsJob(s)
    BY <1>2, <2>2, <2>3, <2>4 DEF EndsJob, FillDone
  <2> QED
    BY <2>5, EndsJobStep, ComponentTypes DEF ComponentStep
<1> QED
  BY <1>2, QuietFillDoneStep

-----------------------------------------------------------------------------
(* The job manager with job_lock: no call is under way and nothing encodes. *)

LEMMA NoCall ==
  ASSUME JpegInv, lock # "api"
  PROVE  /\ api = Idle /\ run["api"].at = "ok"
         /\ \A u \in Slots : ses[u].abort # "INIT" /\ ~BeingAborted(u)
         /\ \A u \in Slots : omx[u].busy # None => ongoing = <<Entry(u)>>
<1>1. api.pc = "done"
  BY DEF JpegInv, LockInv
<1>2. api = Idle
  BY <1>1 DEF JpegInv, CallInv
<1>3. run["api"].at = "ok"
  BY <1>1 DEF JpegInv, ChangeInv
<1>4. \A u \in Slots : ses[u].abort # "INIT" /\ ~BeingAborted(u)
  BY <1>1 DEF JpegInv, EncodeInv, BeingAborted
<1> QED
  BY <1>2, <1>3, <1>4 DEF JpegInv, EncodeInv

LEMMA NothingEncodes ==
  ASSUME JpegInv, lock # "api", ongoing = <<>> \/ mgr.pc \in MgrBusy
  PROVE  \A u \in Slots : omx[u].busy = None /\ ~Encodes(u)
<1>1. ASSUME NEW u \in Slots, omx[u].busy # None
      PROVE  FALSE
  <2>1. ongoing = <<Entry(u)>> /\ ses[u].encoding
    BY <1>1, NoCall DEF JpegInv, EncodeInv
  <2>2. mgr.pc \in MgrBusy
    BY <2>1
  <2>3. ongoing = <<Entry(mgr.ses)>> /\ ~ses[mgr.ses].encoding
    BY <2>2 DEF JpegInv, LockInv
  <2> QED
    BY <2>1, <2>3 DEF Entry
<1> QED
  BY <1>1 DEF JpegInv, EncodeInv

LEMMA MgrHolds ==
  ASSUME JpegInv, mgr.pc \in MgrBusy
  PROVE  LET s == mgr.ses IN
         /\ lock = "mgr" /\ s \in Slots /\ ongoing = <<Entry(s)>> /\ Entry(s) \in Entries
         /\ ses[s].job \in Jobs /\ Open(ses[s].job) /\ ses[s].active
         /\ \A i \in DOMAIN todo : todo[i].job # ses[s].job
         /\ ses[s].handles = 0 /\ omx[s].cb = "none" /\ ses[s].abort = "NONE"
         /\ \A u \in Slots : u # s => OfSession(ongoing, u) = {}
<1> DEFINE s == mgr.ses
<1>1. lock = "mgr" /\ s \in Slots /\ ongoing = <<Entry(s)>> /\ ses[s].abort = "NONE"
  BY DEF JpegInv, LockInv
<1>2. 1 \in DOMAIN ongoing /\ ongoing[1] = Entry(s)
  BY <1>1
<1>3. Entry(s) \in Entries /\ EntryOk(Entry(s)) /\ \A i \in DOMAIN todo : todo[i].job # Entry(s).job
  BY <1>2, EntryOfQueue DEF JpegInv, QueueInv
<1>4. ses[s].job \in Jobs /\ Open(ses[s].job) /\ ses[s].active
  BY <1>3 DEF Entry, Entries, EntryOk
<1>5. OfSession(ongoing, s) # {}
  BY <1>2 DEF OfSession, Entry
<1>6. ses[s].handles = 0 /\ omx[s].cb = "none"
  <2>1. ses[s].handles \in Nat
    BY <1>1 DEF JpegInv, JpegTypes, TypeSlots, Sessions
  <2>2. ses[s].handles + Using(s) = 1 \/ ses[s].handles + Using(s) = 0
    BY <1>1, <1>4 DEF JpegInv, HandleInv
  <2> QED
    BY <1>5, <2>1, <2>2 DEF Using
<1>7. \A u \in Slots : u # s => OfSession(ongoing, u) = {}
  BY <1>1 DEF OfSession, Entry
<1> QED
  BY <1>1, <1>3, <1>4, <1>6, <1>7 DEF Entry

(* Whatever failed, the job manager answers the job and gives up its handle. *)
LEMMA GiveUpStep ==
  ASSUME JpegInv, GiveUp
  PROVE  JpegInv' /\ ServiceStep
<1> DEFINE s == mgr.ses
           j == ses[s].job
<1>1. mgr.pc \in MgrBusy
  BY DEF GiveUp, MgrBusy
<1>2. /\ lock = "mgr" /\ s \in Slots /\ ongoing = <<Entry(s)>> /\ Entry(s) \in Entries
      /\ j \in Jobs /\ Open(j) /\ ses[s].active
      /\ \A i \in DOMAIN todo : todo[i].job # j
      /\ ses[s].handles = 0 /\ omx[s].cb = "none" /\ ses[s].abort = "NONE"
      /\ \A u \in Slots : u # s => OfSession(ongoing, u) = {}
  BY <1>1, MgrHolds
<1>3. api = Idle /\ run["api"].at = "ok" /\ \A u \in Slots : ses[u].abort # "INIT"
  BY <1>2, NoCall
<1>4. \A u \in Slots : omx[u].busy = None /\ ~Encodes(u)
  BY <1>1, <1>2, NothingEncodes
<1>5. /\ ses \in [Slots -> Sessions] /\ ses[s] \in Sessions /\ run \in [{"mgr", "api"} -> Changes]
  BY <1>2 DEF JpegInv, JpegTypes, TypeSlots, TypeThreads
<1>6. /\ UNCHANGED <<omx, todo, inprogress, api, hal, status>>
      /\ answers' = [answers EXCEPT ![j] = @ + 1]
      /\ lock' = "free" /\ mgr'.pc = "wait" /\ run' = [run EXCEPT !["mgr"] = Still]
  BY DEF GiveUp
<1>7. ongoing' = <<>>
  <2>1. Without(<<Entry(s)>>, Entry(s).job) = <<>>
    BY <1>2, Single
  <2> QED
    BY <1>2, <2>1 DEF GiveUp, JobDone, Entry
<1>8. ses' = [ses EXCEPT ![s] = [[ses[s] EXCEPT !.encoding = FALSE] EXCEPT !.handles = ses[s].handles + 1]]
  BY <1>5, <1>2 DEF GiveUp, Sessions
<1>9. /\ \A u \in Slots : u # s => ses'[u] = ses[u]
      /\ ses'[s].active = ses[s].active /\ ses'[s].abort = ses[s].abort
      /\ ~ses'[s].encoding /\ ses'[s].handles = 1
  <2> DEFINE v == [ses[s] EXCEPT !.encoding = FALSE]
  <2>1. /\ ses'[s] = [v EXCEPT !.handles = ses[s].handles + 1]
        /\ \A u \in Slots : u # s => ses'[u] = ses[u]
    BY <1>2, <1>5, <1>8
  <2>2. v \in Sessions /\ v.active = ses[s].active /\ v.abort = ses[s].abort /\ ~v.encoding
    BY <1>5 DEF Sessions
  <2> HIDE DEF v
  <2>3. ses'[s].active = v.active /\ ses'[s].abort = v.abort /\ ses'[s].encoding = v.encoding
        /\ ses'[s].handles = ses[s].handles + 1
    BY <2>1, <2>2 DEF Sessions
  <2>4. ses'[s].handles = 1
    BY <1>2, <2>3
  <2>5. ~ses'[s].encoding
    BY <2>2, <2>3
  <2> QED
    BY <2>1, <2>2, <2>3, <2>4, <2>5
<1>10. JpegTypes'
  BY MgrTypes
<1>11. LockInv'
  BY <1>3, <1>6, <1>7 DEF LockInv, MgrBusy, Idle
<1>12. ChangeInv'
  BY <1>3, <1>5, <1>6 DEF ChangeInv, Still
<1>13. CallInv'
  BY <1>3, <1>6 DEF CallInv, Idle
<1>14. EncodeInv'
  BY <1>3, <1>4, <1>6, <1>9 DEF JpegInv, EncodeInv, Encodes
<1>15. QueueInv' /\ ClientInv'
  <2>1. \A u \in Slots : ses'[u].active = ses[u].active /\ omx'[u].busy = None
    BY <1>4, <1>6, <1>9
  <2> HIDE DEF j, s
  <2> QED
    BY <1>2, <1>6, <1>7, <2>1, AnsweredQueues
<1>16. HandleInv'
  <2>1. ASSUME NEW u \in Slots
        PROVE  Using(u)' = IF omx[u].cb # "none" THEN 1 ELSE 0
    BY <1>6, <1>7 DEF Using, OfSession
  <2>2. ASSUME NEW u \in Slots, ses'[u].active
        PROVE  \/ ses'[u].handles + Using(u)' = 1
               \/ ses'[u].handles + Using(u)' = 0 /\ ses'[u].abort # "NONE"
    <3>1. CASE u = s
      BY <1>2, <1>9, <2>1, <3>1
    <3>2. CASE u # s
      <4>1. Using(u) = IF omx[u].cb # "none" THEN 1 ELSE 0
        BY <1>2, <3>2 DEF Using
      <4>2. Using(u)' = Using(u) /\ ses'[u] = ses[u]
        BY <1>9, <2>1, <3>2, <4>1
      <4> QED
        BY <1>3, <2>2, <4>2 DEF JpegInv, HandleInv, Idle
    <3> QED
      BY <3>1, <3>2
  <2> QED
    BY <2>2 DEF HandleInv
<1>17. ServiceStep
  <2>1. Reading' = {} /\ Reading = {}
    BY <1>4, <1>6 DEF Reading
  <2> HIDE DEF j, s
  <2> QED
    BY <1>2, <1>6, <2>1, AnsweredService
<1> QED
  BY <1>10, <1>11, <1>12, <1>13, <1>14, <1>15, <1>16, <1>17 DEF JpegInv

-----------------------------------------------------------------------------
(* The job manager takes a job and has it encoded.                          *)

LEMMA TakeJobStep ==
  ASSUME JpegInv, TakeJob
  PROVE  JpegInv' /\ ServiceStep
<1>1. CASE todo = <<>> \/ ses[Head(todo).ses].handles = 0
  BY <1>1, QuietMgrStep
<1>2. CASE ~(todo = <<>> \/ ses[Head(todo).ses].handles = 0)
  <2>0. PICK n \in Entries : n = Head(todo)
    BY <1>2, Taken
  <2> DEFINE s == n.ses
  <2>1. /\ s \in Slots /\ n.job \in Jobs
        /\ TakenSession(n) \in Sessions /\ ses' = [ses EXCEPT ![s] = TakenSession(n)]
    BY <1>2, <2>0, Taken
  <2>2. /\ ses \in [Slots -> Sessions] /\ ses[s] \in Sessions /\ run \in [{"mgr", "api"} -> Changes]
        /\ todo \in Seq(Entries) /\ inprogress \in Slots \cup {None}
    BY <2>1 DEF JpegInv, JpegTypes, TypeSlots, TypeThreads, TypeQueues
  <2>3. /\ mgr.pc = "lock" /\ lock = "free" /\ ongoing = <<>>
        /\ omx[s].cb = "none" /\ ses[s].handles # 0 /\ todo # <<>>
    BY <1>2, <2>0 DEF TakeJob, JpegInv, LockInv
  <2>4. api = Idle /\ run["api"].at = "ok" /\ \A u \in Slots : ses[u].abort # "INIT"
    BY <2>3, NoCall
  <2>5. \A u \in Slots : omx[u].busy = None /\ ~Encodes(u)
    BY <2>3, NothingEncodes
  <2>6. /\ UNCHANGED <<omx, inprogress, api, hal, status, answers>>
        /\ lock' = "mgr" /\ todo' = Tail(todo) /\ ongoing' = Append(ongoing, n)
    BY <1>2, <2>0 DEF TakeJob, clientVars
  <2>7. \/ /\ run' = [run EXCEPT !["mgr"] = Still]
           /\ mgr' = [ses |-> s, pc |-> "go"]
        \/ /\ run' = [run EXCEPT !["mgr"] = Change(s, Configure, TRUE)]
           /\ mgr' = [ses |-> s, pc |-> "configure"]
        \/ /\ run' = [run EXCEPT !["mgr"] = Change(inprogress, Retire, TRUE)]
           /\ mgr' = [ses |-> s, pc |-> "retire"] /\ inprogress # None
    BY <1>2, <2>0 DEF TakeJob
  <2>8. /\ mgr'.ses = s /\ mgr'.pc \in MgrBusy /\ (mgr'.pc = "retire" => inprogress # None)
        /\ run'["api"] = run["api"]
    <3>1. run'["api"] = run["api"]
      BY <2>2, <2>7
    <3>2. mgr'.ses = s /\ mgr'.pc \in MgrBusy
      BY <2>7 DEF MgrBusy, Change
    <3>3. mgr'.pc = "retire" => inprogress # None
      BY <2>7 DEF Change
    <3> QED
      BY <3>1, <3>2, <3>3
  <2>9. ongoing' = <<n>>
    BY <2>3, <2>6, Single
  <2>10. /\ \A u \in Slots : u # s => ses'[u] = ses[u]
         /\ ses'[s].active = ses[s].active /\ ses'[s].abort = "NONE" /\ ~ses'[s].encoding
         /\ ses'[s].job = n.job /\ ses'[s].handles = ses[s].handles - 1
    BY <2>1, <2>2 DEF TakenSession, Sessions
  <2>11. \A u \in Slots : ~Encodes(u)' /\ ses'[u].active = ses[u].active /\ ses'[u].abort # "INIT"
    BY <2>4, <2>5, <2>10 DEF Encodes
  <2>12. LockInv'
    <3>1. Entry(s)' = n
      BY <2>1, <2>10 DEF Entry, Entries
    <3>2. Entry(mgr.ses)' = n
      BY <2>8, <3>1 DEF Entry
    <3>3. Len(ongoing') <= 1
      BY <2>9
    <3> QED
      BY <2>1, <2>4, <2>6, <2>8, <2>9, <2>10, <3>2, <3>3 DEF LockInv, MgrBusy, Idle
  <2>13. ChangeInv'
    <3>1. ASSUME run'["mgr"].at # "ok"
          PROVE  /\ mgr'.pc \in {"retire", "configure"}
                 /\ run'["mgr"].ses \in Slots /\ run'["mgr"].goals # <<>>
      BY <2>1, <2>2, <2>7, <3>1, ChangeTypes DEF Change, Still
    <3>2. ASSUME run'["mgr"].at # "ok"
          PROVE  ~Encodes(run["mgr"].ses)'
      <4>1. PICK u \in Slots : u = run'["mgr"].ses
        BY <3>1, <3>2
      <4>2. ~Encodes(u)'
        BY <2>11
      <4> QED
        BY <4>1, <4>2
    <3> QED
      BY <2>4, <2>8, <3>1, <3>2 DEF ChangeInv
  <2>14. CallInv'
    BY <2>4, <2>6 DEF CallInv, Idle
  <2>15. EncodeInv'
    <3>1. \A u \in Slots : ~ses'[u].active => ~ses'[u].encoding
      BY <2>10 DEF JpegInv, EncodeInv
    <3> QED
      BY <2>5, <2>6, <2>11, <3>1 DEF EncodeInv
  <2>16. EntryOk(n) /\ \A e \in Entries : EntryOk(e) => EntryOk(e)'
    <3>1. EntryOk(n)
      BY <2>0, <2>2, <2>3, TakeHead DEF JpegInv, QueueInv
    <3>2. \A e \in Entries : EntryOk(e) => EntryOk(e)'
      BY <2>6, <2>11 DEF EntryOk, Open, SessionOf, Entries
    <3> QED
      BY <3>1, <3>2
  <2>17. QueueInv'
    <3>1. /\ Within(Tail(todo), todo) /\ JobsDiffer(Tail(todo))
          /\ \A k \in DOMAIN Tail(todo) : Tail(todo)[k].job # n.job
      BY <2>0, <2>2, <2>3, TakeHead DEF JpegInv, QueueInv
    <3>2. \A i \in DOMAIN todo' : EntryOk(todo[i])'
      BY <2>6, <2>16, <3>1, EntryOfQueue DEF Within, JpegInv, QueueInv
    <3>3. DOMAIN ongoing' = {1} /\ ongoing'[1] = n
      BY <2>9
    <3>4. \A i \in DOMAIN ongoing' : EntryOk(ongoing[i])'
      BY <2>16, <3>3
    <3> QED
      BY <2>5, <2>6, <3>1, <3>2, <3>3, <3>4 DEF QueueInv, JobsDiffer
  <2>18. ClientInv'
    BY <2>6 DEF JpegInv, ClientInv, Open
  <2>19. HandleInv'
    <3> SUFFICES ASSUME NEW u \in Slots, ses'[u].active
                 PROVE  \/ ses'[u].handles + Using(u)' = 1
                        \/ ses'[u].handles + Using(u)' = 0 /\ ses'[u].abort # "NONE"
      BY DEF HandleInv
    <3>1. OfSession(ongoing, u) = {}
      BY <2>3 DEF OfSession
    <3>2. OfSession(ongoing, u)' = IF u = s THEN {1} ELSE {}
      BY <2>9 DEF OfSession
    <3>3. \/ ses[u].handles + Using(u) = 1
          \/ ses[u].handles + Using(u) = 0 /\ ses[u].abort # "NONE"
      BY <2>4, <2>11 DEF JpegInv, HandleInv, Idle
    <3>4. CASE u = s
      <4>1. Using(u) = 0
        BY <2>3, <3>1, <3>4 DEF Using
      <4>3. Using(u)' = 1
        <5>1. omx'[u].cb = "none" /\ OfSession(ongoing, u)' # {}
          BY <2>3, <2>6, <3>2, <3>4
        <5> QED
          BY <5>1 DEF Using
      <4>2. ses'[u].handles = ses[u].handles - 1 /\ ses[u].handles \in Nat
        BY <2>2, <2>10, <3>4 DEF Sessions
      <4> QED
        BY <2>3, <3>3, <3>4, <4>1, <4>2, <4>3
    <3>5. CASE u # s
      <4>1. Using(u)' = Using(u) /\ ses'[u] = ses[u]
        BY <2>6, <2>10, <3>1, <3>2, <3>5 DEF Using
      <4> QED
        BY <3>3, <4>1
    <3> QED
      BY <3>4, <3>5
  <2>20. ServiceStep
    BY <2>6, Silent
  <2> QED
    BY <2>12, <2>13, <2>14, <2>15, <2>17, <2>18, <2>19, <2>20, TakeJobTypes DEF JpegInv
<1> QED
  BY <1>1, <1>2

(* The component gets the buffers of the job. *)
LEMMA EncodeStep ==
  ASSUME JpegInv, Encode
  PROVE  JpegInv' /\ ServiceStep
<1>1. mgr.pc \in MgrBusy /\ mgr.pc = "go"
  BY DEF Encode, MgrBusy
<1>2. PICK s \in Slots : s = mgr.ses
  BY <1>1, MgrHolds
<1> DEFINE j == ses[s].job
<1>3. /\ lock = "mgr" /\ ongoing = <<Entry(s)>> /\ j \in Jobs /\ Open(j) /\ ses[s].active
      /\ \A i \in DOMAIN todo : todo[i].job # j
      /\ ses[s].handles = 0 /\ omx[s].cb = "none" /\ ses[s].abort = "NONE"
  BY <1>1, <1>2, MgrHolds
<1>4. api = Idle /\ run["api"].at = "ok" /\ \A u \in Slots : ses[u].abort # "INIT"
  BY <1>3, NoCall
<1>5. \A u \in Slots : omx[u].busy = None /\ ~Encodes(u)
  BY <1>1, <1>3, NothingEncodes
<1>6. /\ ses \in [Slots -> Sessions] /\ ses[s] \in Sessions
      /\ omx \in [Slots -> Components] /\ omx[s] \in Components
  BY DEF JpegInv, JpegTypes, TypeSlots
<1>7. /\ UNCHANGED <<todo, ongoing, api, run, hal, status, answers>>
      /\ mgr' = [pc |-> "wait", ses |-> None] /\ lock' = "free" /\ omx[s].goal = "none"
      /\ ses' = [ses EXCEPT ![s] = [ses[s] EXCEPT !.encoding = TRUE]]
      /\ omx' = [omx EXCEPT ![s] = [omx[s] EXCEPT !.busy = ses[s].job]]
  BY <1>2 DEF Encode, queueVars, clientVars
<1>8. /\ \A u \in Slots : u # s => ses'[u] = ses[u] /\ omx'[u] = omx[u]
      /\ ses'[s].active = ses[s].active /\ ses'[s].job = j /\ ses'[s].handles = 0
      /\ ses'[s].abort = "NONE" /\ ses'[s].encoding = TRUE
  BY <1>3, <1>6, <1>7 DEF Sessions
<1>9. omx'[s].busy = j /\ omx'[s].goal = "none" /\ omx'[s].cb = "none"
  BY <1>3, <1>6, <1>7 DEF Components
<1>10. LockInv'
  <2>1. mgr'.pc = "wait" /\ Len(ongoing') <= 1
    BY <1>7 DEF JpegInv, LockInv
  <2> QED
    BY <1>4, <1>7, <2>1 DEF LockInv, MgrBusy, Idle
<1>11. ChangeInv'
  <2>1. run["mgr"].at = "ok"
    BY <1>1 DEF JpegInv, ChangeInv
  <2> QED
    BY <1>4, <1>7, <2>1 DEF ChangeInv
<1>12. CallInv'
  BY <1>4, <1>7 DEF CallInv, Idle
<1>13. EncodeInv'
  <2> SUFFICES ASSUME NEW u \in Slots
               PROVE  /\ omx'[u].busy # None =>
                           /\ ses'[u].encoding /\ ses'[u].abort # "DONE" /\ omx'[u].busy = ses'[u].job
                           /\ ongoing' = <<Entry(u)'>>
                           /\ ses'[u].handles = 0 /\ omx'[u].cb = "none"
                      /\ Encodes(u)' => omx'[u].busy # None /\ omx'[u].goal = "none"
                      /\ ses'[u].abort # "INIT"
                      /\ ~ses'[u].active => ~ses'[u].encoding
    BY DEF EncodeInv
  <2>1. CASE u = s
    <3>1. Entry(s)' = Entry(s) /\ j # None
      BY <1>3, <1>8, Identifiers DEF Entry
    <3> QED
      BY <1>3, <1>7, <1>8, <1>9, <2>1, <3>1
  <2>2. CASE u # s
    BY <1>4, <1>5, <1>8, <2>2 DEF JpegInv, EncodeInv, Encodes
  <2> QED
    BY <2>1, <2>2
<1>14. \A u \in Slots : ses'[u].active = ses[u].active
  BY <1>8
<1>15. QueueInv'
  <2>1. \A e \in Entries : EntryOk(e) => EntryOk(e)'
    BY <1>7, <1>14 DEF EntryOk, Open, SessionOf, Entries
  <2>2. Open(j)'
    BY <1>3, <1>7 DEF Open
  <2>3. \A u \in Slots : omx'[u].busy # None =>
           Open(omx[u].busy)' /\ \A i \in DOMAIN todo : todo[i].job # omx'[u].busy
    <3> SUFFICES ASSUME NEW u \in Slots, omx'[u].busy # None
                 PROVE  Open(omx[u].busy)' /\ \A i \in DOMAIN todo : todo[i].job # omx'[u].busy
      OBVIOUS
    <3>1. omx'[u].busy = j
      BY <1>5, <1>8, <1>9
    <3> QED
      BY <1>3, <1>7, <3>1 DEF Open
  <2> QED
    BY <1>7, <2>1, <2>3, EntryOfQueue DEF JpegInv, QueueInv, JobsDiffer
<1>16. ClientInv'
  BY <1>7 DEF JpegInv, ClientInv, Open
<1>17. HandleInv'
  <2>1. \A u \in Slots : Using(u)' = Using(u)
    <3>1. \A u \in Slots : omx'[u].cb = omx[u].cb
      BY <1>3, <1>8, <1>9
    <3> QED
      BY <1>7, <3>1 DEF Using, OfSession
  <2>2. \A u \in Slots : ses'[u].handles = ses[u].handles /\ ses'[u].abort = ses[u].abort
    BY <1>3, <1>8
  <2> QED
    BY <1>4, <1>7, <1>14, <2>1, <2>2 DEF JpegInv, HandleInv
<1>18. ServiceStep
  <2>1. Reading = {}
    BY <1>5 DEF Reading
  <2>2. Reading' = {j}
    <3>1. j # None
      BY <1>3, Identifiers
    <3>2. \A u \in Slots : omx'[u].busy = IF u = s THEN j ELSE None
      BY <1>5, <1>8, <1>9
    <3> HIDE DEF j
    <3> QED
      BY <3>1, <3>2 DEF Reading
  <2> HIDE DEF j
  <2>3. Service!Begin(j)
    BY <1>3, <1>7, <2>1, <2>2 DEF Service!Begin, Open
  <2> QED
    BY <1>3, <2>3 DEF ServiceStep, Service!Next
<1> QED
  BY <1>10, <1>11, <1>12, <1>13, <1>15, <1>16, <1>17, <1>18, MgrTypes DEF JpegInv

-----------------------------------------------------------------------------
(* Sessions are created.                                                    *)

LEMMA Calling ==
  ASSUME JpegInv, NEW c \in Clients, NEW pc, CanCall(c, pc)
  PROVE  /\ api = Idle /\ lock = "free" /\ mgr.pc \notin MgrBusy /\ hal[c].pc = pc
         /\ run["mgr"].at = "ok" /\ run["api"].at = "ok"
         /\ \A u \in Slots : ses[u].abort # "INIT" /\ ~BeingAborted(u)
         /\ \A u \in Slots : omx[u].busy # None => ongoing = <<Entry(u)>>
<1>1. api = Idle /\ lock = "free" /\ hal[c].pc = pc
  BY DEF CanCall
<1>2. mgr.pc \notin MgrBusy
  BY <1>1 DEF JpegInv, LockInv
<1>3. run["mgr"].at = "ok"
  BY <1>2 DEF JpegInv, ChangeInv, MgrBusy
<1> QED
  BY <1>1, <1>2, <1>3, NoCall

(* A client that needs a session has no job open. *)
LEMMA NoJobOpen ==
  ASSUME JpegInv, NEW c \in Clients, hal[c].need \/ Pending(c) = {}
  PROVE  \A j \in Jobs : Open(j) => j[1] # c
BY DEF JpegInv, ClientInv, Open, Pending

(* Entries whose job belongs to other clients.                              *)
LEMMA OthersEntries ==
  ASSUME JpegInv, NEW c \in Clients, hal[c].need \/ Pending(c) = {},
         UNCHANGED <<status, answers>>,
         \A d \in Clients : d # c => hal'[d] = hal[d],
         \A u \in Slots : ses[u].active => ses'[u].active
  PROVE  \A e \in Entries : EntryOk(e) => EntryOk(e)'
<1> SUFFICES ASSUME NEW e \in Entries, EntryOk(e)
             PROVE  EntryOk(e)'
  OBVIOUS
<1>1. e.job \in Jobs /\ e.ses \in Slots
  BY DEF Entries
<1>2. e.job[1] \in Clients /\ e.job[1] # c
  BY <1>1, NoJobOpen, Identifiers DEF EntryOk
<1>3. SessionOf(e.job[1])' = SessionOf(e.job[1])
  BY <1>2 DEF SessionOf
<1> QED
  BY <1>1, <1>3 DEF EntryOk, Open

LEMMA CreateStep ==
  ASSUME JpegInv, NEW c \in Clients, Create(c)
  PROVE  JpegInv' /\ ServiceStep
<1>1. /\ api = Idle /\ lock = "free" /\ mgr.pc \notin MgrBusy
      /\ run["mgr"].at = "ok" /\ run["api"].at = "ok"
      /\ \A u \in Slots : ses[u].abort # "INIT" /\ ~BeingAborted(u)
      /\ \A u \in Slots : omx[u].busy # None => ongoing = <<Entry(u)>>
  BY Calling DEF Create
<1>2. /\ ses \in [Slots -> Sessions] /\ omx \in [Slots -> Components]
      /\ hal \in [Clients -> HalStates] /\ run \in [{"mgr", "api"} -> Changes]
  BY DEF JpegInv, JpegTypes, TypeSlots, TypeThreads, TypeClients
<1>3. /\ UNCHANGED <<todo, ongoing, mgr, inprogress, status, answers>>
      /\ hal[c].need
  BY DEF Create, queueVars
<1>4. /\ \A d \in Clients : d # c => hal'[d] = hal[d]
      /\ hal'[c].made = hal[c].made
  <2>1. ASSUME NEW s, Opened(c, s)
        PROVE  /\ \A d \in Clients : d # c => hal'[d] = hal[d]
               /\ hal'[c].made = hal[c].made
    BY <1>2, <2>1 DEF Opened, HalStates
  <2> QED
    BY <2>1 DEF Create
<1>5. JpegTypes'
  BY ClientTypes DEF ClientStep
<1>6. \A j \in Jobs : Open(j) => j[1] # c
  BY <1>3, NoJobOpen
<1>7. CASE FreeSlots(c) = {}
  <2>1. UNCHANGED <<ses, omx, lock, api, run>>
    BY <1>7 DEF Create, sessionVars
  <2>2. LockInv' /\ ChangeInv' /\ CallInv' /\ EncodeInv' /\ HandleInv'
    <3>1. LockInv' /\ ChangeInv'
      BY <1>3, <2>1 DEF JpegInv, LockInv, ChangeInv, Entry, Encodes
    <3>2. CallInv' /\ EncodeInv'
      BY <1>3, <2>1 DEF JpegInv, CallInv, EncodeInv, NoEntry, OfSession, Entry, BeingAborted, Encodes
    <3>3. HandleInv'
      BY <1>3, <2>1 DEF JpegInv, HandleInv, Using, OfSession
    <3> QED
      BY <3>1, <3>2, <3>3
  <2>3. \A e \in Entries : EntryOk(e) => EntryOk(e)'
    BY <1>3, <1>4, <2>1, OthersEntries
  <2>4. QueueInv'
    BY <1>3, <2>1, <2>3, EntryOfQueue DEF JpegInv, QueueInv, JobsDiffer, Open
  <2>5. ClientInv'
    BY <1>1, <1>3, <1>4, <1>6, <2>1, Identifiers DEF JpegInv, ClientInv, Open, Idle
  <2>6. ServiceStep
    BY <1>3, <2>1, Silent
  <2> QED
    BY <1>5, <2>2, <2>4, <2>5, <2>6 DEF JpegInv
<1>8. CASE FreeSlots(c) # {}
  <2>1. PICK s \in FreeSlots(c) :
           /\ ses' = [ses EXCEPT ![s] = Fresh]
           /\ omx' = [omx EXCEPT ![s] = NoComponent]
           /\ IF inprogress = None
                THEN /\ lock' = "api" /\ Call(c, "create", s, None, "run")
                     /\ run' = [run EXCEPT !["api"] = Change(s, Configure, TRUE)]
                ELSE UNCHANGED <<lock, api, run>>
    BY <1>8 DEF Create
  <2>2. s \in Slots /\ ~ses[s].active /\ ~ses[s].encoding /\ omx[s].busy = None
    BY DEF FreeSlots, JpegInv, EncodeInv
  <2>3. /\ \A u \in Slots : u # s => ses'[u] = ses[u] /\ omx'[u] = omx[u]
        /\ ses'[s] = Fresh /\ omx'[s] = NoComponent
    BY <1>2, <2>1, <2>2
  <2>4. OfSession(ongoing, s) = {}
    <3>1. \A i \in DOMAIN ongoing : ses[ongoing[i].ses].active
      BY DEF JpegInv, QueueInv, EntryOk
    <3> QED
      BY <2>2, <3>1 DEF OfSession
  <2>5. \/ UNCHANGED <<lock, api, run>>
        \/ /\ lock' = "api" /\ run'["mgr"] = run["mgr"]
           /\ api' = [call |-> "create", client |-> c, ses |-> s, job |-> None, pc |-> "run"]
           /\ run'["api"] = Change(s, Configure, TRUE)
    BY <1>2, <2>1 DEF Call
  <2> DEFINE Called == /\ lock' = "api" /\ api'.pc = "run" /\ api'.call = "create"
                       /\ api'.client = c /\ api'.ses = s
  <2>51. UNCHANGED <<lock, api>> \/ Called
    BY <2>5 DEF Change
  <2>6. LockInv'
    BY <1>1, <1>3, <2>51 DEF JpegInv, LockInv, Idle
  <2>7. ChangeInv'
    <3>1. CASE UNCHANGED <<lock, api, run>>
      BY <1>1, <1>3, <3>1 DEF ChangeInv
    <3>2. CASE ~UNCHANGED <<lock, api, run>>
      <4>1. /\ run'["mgr"].at = "ok" /\ api'.pc = "run"
            /\ run'["api"] = [ses |-> s, goals |-> Configure, strict |-> TRUE, at |-> "send"]
        BY <1>1, <2>5, <3>2 DEF Change
      <4>2. run'["api"].ses = s /\ run'["api"].goals # <<>>
        BY <4>1, ChangeTypes
      <4>3. ~Encodes(s)'
        BY <2>3 DEF Encodes, Fresh
      <4>4. ~Encodes(run["api"].ses)'
        BY <4>2, <4>3
      <4> QED
        BY <2>2, <4>1, <4>2, <4>4 DEF ChangeInv
    <3> QED
      BY <3>1, <3>2
  <2>8. CallInv'
    BY <1>1, <2>2, <2>51 DEF CallInv, Idle
  <2>9. \A u \in Slots : u # s => Entry(u)' = Entry(u)
    BY <2>3 DEF Entry
  <2>10. EncodeInv'
    <3> SUFFICES ASSUME NEW u \in Slots
                 PROVE  /\ omx'[u].busy # None =>
                             /\ ses'[u].encoding /\ ses'[u].abort # "DONE" /\ omx'[u].busy = ses'[u].job
                             /\ ongoing' = <<Entry(u)'>>
                             /\ ses'[u].handles = 0 /\ omx'[u].cb = "none"
                        /\ Encodes(u)' => omx'[u].busy # None /\ omx'[u].goal = "none"
                        /\ ses'[u].abort # "INIT"
                        /\ ~ses'[u].active => ~ses'[u].encoding
      BY DEF EncodeInv
    <3>1. CASE u = s
      BY <2>3, <3>1 DEF Fresh, NoComponent, Encodes
    <3>2. CASE u # s
      BY <1>1, <1>3, <2>3, <2>9, <3>2 DEF JpegInv, EncodeInv, Encodes
    <3> QED
      BY <3>1, <3>2
  <2>11. \A e \in Entries : EntryOk(e) => EntryOk(e)'
    <3>1. \A u \in Slots : ses[u].active => ses'[u].active
      BY <2>2, <2>3
    <3> QED
      BY <1>3, <1>4, <3>1, OthersEntries
  <2>12. QueueInv'
    <3>1. \A u \in Slots : omx'[u].busy = omx[u].busy
      BY <2>2, <2>3 DEF NoComponent
    <3> QED
      BY <1>3, <2>11, <3>1, EntryOfQueue DEF JpegInv, QueueInv, JobsDiffer, Open
  <2>13. ClientInv'
    <3>1. api'.client = c \/ api'.call = "none"
      BY <1>1, <2>51 DEF Idle
    <3>2. \A j \in Jobs : Open(j) => ~(api'.call = "create" /\ api'.client = j[1])
      BY <1>6, <3>1
    <3> QED
      BY <1>3, <1>4, <1>6, <3>2, Identifiers DEF JpegInv, ClientInv, Open
  <2>14. HandleInv'
    <3> SUFFICES ASSUME NEW u \in Slots, ses'[u].active
                 PROVE  \/ ses'[u].handles + Using(u)' = 1
                        \/ ses'[u].handles + Using(u)' = 0 /\ ses'[u].abort # "NONE"
      BY DEF HandleInv
    <3>1. OfSession(ongoing, u)' = OfSession(ongoing, u)
      BY <1>3 DEF OfSession
    <3>2. CASE u = s
      <4>1. Using(u)' = 0 /\ ses'[u].handles = 1
        BY <2>3, <2>4, <3>1, <3>2 DEF Using, Fresh, NoComponent
      <4> QED
        BY <4>1
    <3>3. CASE u # s
      <4>1. Using(u)' = Using(u) /\ ses'[u] = ses[u]
        BY <2>3, <3>1, <3>3 DEF Using
      <4> QED
        BY <1>1, <4>1 DEF JpegInv, HandleInv, Idle
    <3> QED
      BY <3>2, <3>3
  <2>15. ServiceStep
    <3>1. \A u \in Slots : omx'[u].busy = omx[u].busy
      BY <2>2, <2>3 DEF NoComponent
    <3> QED
      BY <1>3, <3>1, Silent
  <2> QED
    BY <1>5, <2>6, <2>7, <2>8, <2>10, <2>12, <2>13, <2>14, <2>15 DEF JpegInv
<1> QED
  BY <1>7, <1>8

-----------------------------------------------------------------------------
(* Steps of the calls that leave every slot as it is.                       *)

SameSlot(u) == /\ ses'[u].active = ses[u].active /\ ses'[u].job = ses[u].job
               /\ ses'[u].encoding = ses[u].encoding /\ ses'[u].abort = ses[u].abort
               /\ ses'[u].handles = ses[u].handles
               /\ omx'[u].busy = omx[u].busy /\ omx'[u].goal = omx[u].goal /\ omx'[u].cb = omx[u].cb
Stopping == {"purge", "abort", "aborting"}

LEMMA SameSlots ==
  ASSUME JpegInv, UNCHANGED ongoing, \A u \in Slots : SameSlot(u),
         api.pc \in Stopping => /\ api'.ses = api.ses /\ api'.pc \in Stopping
                                /\ api.pc = "aborting" => api'.pc = "aborting"
  PROVE  EncodeInv' /\ HandleInv'
<1>1. ASSUME NEW u \in Slots
      PROVE  /\ Entry(u)' = Entry(u) /\ Using(u)' = Using(u) /\ (Encodes(u)' <=> Encodes(u))
             /\ BeingAborted(u) => BeingAborted(u)'
  <2>1. SameSlot(u)
    OBVIOUS
  <2>2. Entry(u)' = Entry(u) /\ (Encodes(u)' <=> Encodes(u))
    BY <2>1 DEF SameSlot, Entry, Encodes
  <2>3. Using(u)' = Using(u)
    BY <2>1 DEF SameSlot, Using, OfSession
  <2>4. BeingAborted(u) => BeingAborted(u)'
    BY DEF BeingAborted, Stopping
  <2> QED
    BY <2>2, <2>3, <2>4
<1>2. EncodeInv'
  <2> SUFFICES ASSUME NEW u \in Slots
               PROVE  /\ omx'[u].busy # None =>
                           /\ ses'[u].encoding /\ ses'[u].abort # "DONE" /\ omx'[u].busy = ses'[u].job
                           /\ ongoing' = <<Entry(u)'>> \/ BeingAborted(u)'
                           /\ ses'[u].handles = 0 /\ omx'[u].cb = "none"
                      /\ Encodes(u)' => omx'[u].busy # None /\ omx'[u].goal = "none"
                      /\ ses'[u].abort = "INIT" => ses'[u].encoding /\ api'.ses = u /\ api'.pc = "aborting"
                      /\ ~ses'[u].active => ~ses'[u].encoding
    BY DEF EncodeInv
  <2>1. SameSlot(u)
    OBVIOUS
  <2>2. omx'[u].busy # None =>
          /\ ses'[u].encoding /\ ses'[u].abort # "DONE" /\ omx'[u].busy = ses'[u].job
          /\ ongoing' = <<Entry(u)'>> \/ BeingAborted(u)'
          /\ ses'[u].handles = 0 /\ omx'[u].cb = "none"
    BY <1>1, <2>1 DEF SameSlot, JpegInv, EncodeInv
  <2>3. Encodes(u)' => omx'[u].busy # None /\ omx'[u].goal = "none"
    BY <1>1, <2>1 DEF SameSlot, JpegInv, EncodeInv
  <2>4. ses'[u].abort = "INIT" => ses'[u].encoding /\ api'.ses = u /\ api'.pc = "aborting"
    BY <2>1 DEF SameSlot, JpegInv, EncodeInv, Stopping
  <2>5. ~ses'[u].active => ~ses'[u].encoding
    BY <2>1 DEF SameSlot, JpegInv, EncodeInv
  <2> QED
    BY <2>2, <2>3, <2>4, <2>5
<1>3. HandleInv'
  <2> SUFFICES ASSUME NEW u \in Slots, ses'[u].active
               PROVE  \/ ses'[u].handles + Using(u)' = 1
                      \/ /\ ses'[u].handles + Using(u)' = 0
                         /\ ses'[u].abort # "NONE" \/ (api'.ses = u /\ api'.pc \in Stopping)
    BY DEF HandleInv, Stopping
  <2>1. SameSlot(u)
    OBVIOUS
  <2>2. \/ ses[u].handles + Using(u) = 1
        \/ /\ ses[u].handles + Using(u) = 0
           /\ ses[u].abort # "NONE" \/ (api.ses = u /\ api.pc \in Stopping)
    BY <2>1 DEF SameSlot, JpegInv, HandleInv, Stopping
  <2>3. ses'[u].handles + Using(u)' = ses[u].handles + Using(u)
    BY <1>1, <2>1 DEF SameSlot
  <2> QED
    BY <2>1, <2>2, <2>3 DEF SameSlot
<1> QED
  BY <1>2, <1>3

LEMMA CreateReturnsStep ==
  ASSUME JpegInv, CreateReturns
  PROVE  JpegInv' /\ ServiceStep
<1>1. /\ ses \in [Slots -> Sessions] /\ api \in Calls /\ hal \in [Clients -> HalStates]
      /\ run \in [{"mgr", "api"} -> Changes]
  BY DEF JpegInv, JpegTypes, TypeSlots, TypeThreads, TypeClients
<1>2. /\ api.call = "create" /\ api.pc = "run" /\ lock = "api" /\ api.ses \in Slots /\ api.client \in Clients
      /\ mgr.pc \notin MgrBusy
  BY <1>1 DEF CreateReturns, JpegInv, CallInv, LockInv, Calls
<1>3. /\ UNCHANGED <<omx, todo, ongoing, mgr, status, answers>>
      /\ lock' = "free" /\ api' = Idle /\ run' = [run EXCEPT !["api"] = Still]
      /\ ses' = ses \/ ses' = [ses EXCEPT ![api.ses] = [ses[api.ses] EXCEPT !.config = TRUE]]
      /\ hal' = hal \/ hal' = [hal EXCEPT ![api.client] = [hal[api.client] EXCEPT !.need = TRUE]]
  BY DEF CreateReturns, queueVars
<1>4. ASSUME NEW u \in Slots
      PROVE  SameSlot(u)
  <2>1. ses[u] \in Sessions /\ (ses'[u] = ses[u] \/ ses'[u] = [ses[u] EXCEPT !.config = TRUE])
    BY <1>1, <1>3
  <2> QED
    BY <1>3, <2>1 DEF SameSlot, Sessions
<1>5. ASSUME NEW c \in Clients
      PROVE  /\ hal'[c].session = hal[c].session /\ hal'[c].made = hal[c].made
             /\ c # api.client => hal'[c] = hal[c]
  <2>1. hal[c] \in HalStates /\ (hal'[c] = hal[c] \/ (c = api.client /\ hal'[c] = [hal[c] EXCEPT !.need = TRUE]))
    BY <1>1, <1>3
  <2> QED
    BY <2>1 DEF HalStates
<1>6. LockInv'
  BY <1>2, <1>3 DEF JpegInv, LockInv, MgrBusy, Idle
<1>7. run["mgr"].at = "ok"
  BY <1>2 DEF JpegInv, ChangeInv, MgrBusy
<1>8. ChangeInv'
  <2>1. run'["mgr"].at = "ok" /\ run'["api"].at = "ok"
    BY <1>1, <1>3, <1>7 DEF Still
  <2> QED
    BY <2>1 DEF ChangeInv
<1>9. CallInv'
  BY <1>3 DEF CallInv, Idle
<1>10. EncodeInv' /\ HandleInv'
  <2>1. api.pc \notin Stopping
    BY <1>2 DEF Stopping
  <2> QED
    BY <1>3, <1>4, <2>1, SameSlots
<1>11. QueueInv'
  <2>1. \A e \in Entries : EntryOk(e) => EntryOk(e)'
    BY <1>3, <1>4, <1>5, Identifiers DEF EntryOk, Open, SessionOf, Entries, SameSlot
  <2> QED
    BY <1>3, <2>1, EntryOfQueue DEF JpegInv, QueueInv, JobsDiffer, Open
<1>12. ClientInv'
  <2>1. \A j \in Jobs : Open(j) => j[1] # api.client
    BY <1>2 DEF JpegInv, ClientInv
  <2> QED
    BY <1>3, <1>5, <2>1, Identifiers DEF JpegInv, ClientInv, Open, Idle
<1>13. ServiceStep
  BY <1>3, Silent
<1> QED
  BY <1>6, <1>8, <1>9, <1>10, <1>11, <1>12, <1>13, ApiTypes DEF JpegInv

(* A client begins to stop. *)
LEMMA StopStep ==
  ASSUME JpegInv, NEW c \in Clients, Stop(c)
  PROVE  JpegInv' /\ ServiceStep
<1>1. hal \in [Clients -> HalStates] /\ hal' = [hal EXCEPT ![c] = [hal[c] EXCEPT !.pc = "stop"]]
  BY DEF Stop, JpegInv, JpegTypes, TypeClients
<1>2. KeepsClients
  <2>1. ASSUME NEW d \in Clients
        PROVE  hal[d] \in HalStates /\ (hal'[d] = hal[d] \/ hal'[d] = [hal[d] EXCEPT !.pc = "stop"])
    BY <1>1
  <2> QED
    BY <2>1 DEF KeepsClients, HalStates
<1>3. UNCHANGED <<ses, omx, todo, ongoing, inprogress, lock, mgr, api, run, status, answers>>
  BY DEF Stop, sessionVars, queueVars
<1>4. QuietStep
  BY <1>2, <1>3 DEF QuietStep, Quiet, KeepsSession, KeepsAbort, KeepsBusy, KeepsGoal, KeepsHandle
<1>5. \A t \in {"mgr", "api"} : Moves(t)
  BY <1>3 DEF Moves
<1> QED
  BY <1>3, <1>4, <1>5, ChangeGoesOn, ClientTypes, QuietKeeps DEF ClientStep

-----------------------------------------------------------------------------
(* A job is accepted.                                                       *)

LEMMA StartJobStep ==
  ASSUME JpegInv, NEW c \in Clients, StartJob(c)
  PROVE  JpegInv' /\ ServiceStep
<1> DEFINE j == <<c, hal[c].made + 1>>
<1>1. /\ hal \in [Clients -> HalStates] /\ hal[c] \in HalStates /\ todo \in Seq(Entries)
      /\ status \in [Jobs -> {"new", "accepted", "withdrawn"}]
  BY DEF JpegInv, JpegTypes, TypeClients, TypeQueues
<1>2. j \in Jobs /\ hal[c].made \in Nat
  <2>1. MaxJobs[c] \in Nat /\ hal[c].made \in Nat /\ hal[c].made < MaxJobs[c]
    BY <1>1, MmJpegAssumption DEF Clients, HalStates, StartJob
  <2>2. hal[c].made + 1 \in 1 .. MaxJobs[c]
    BY <2>1
  <2> QED
    BY <2>1, <2>2, Identifiers
<1>3. PICK k \in Jobs : k = j
  BY <1>2
<1>4. k[1] = c /\ k[2] = hal[c].made + 1
  BY <1>3
<1>5. status[k] = "new" /\ answers[k] = 0 /\ ~Open(k)
  <2>1. k[2] > hal[k[1]].made
    BY <1>2, <1>4
  <2> QED
    BY <2>1 DEF JpegInv, ClientInv, Open
<1>6. /\ UNCHANGED <<ses, omx, ongoing, inprogress, lock, mgr, api, run, answers>>
      /\ api = Idle /\ ~hal[c].need
      /\ hal' = [hal EXCEPT ![c] = [hal[c] EXCEPT !.made = hal[c].made + 1]]
  BY DEF StartJob, sessionVars
<1>7. \A d \in Clients : /\ hal'[d].session = hal[d].session /\ hal'[d].need = hal[d].need
                         /\ hal'[d].made = IF d = c THEN hal[d].made + 1 ELSE hal[d].made
  <2>1. hal'[c].session = hal[c].session /\ hal'[c].need = hal[c].need /\ hal'[c].made = hal[c].made + 1
    BY <1>1, <1>6 DEF HalStates
  <2>2. \A d \in Clients : d # c => hal'[d] = hal[d]
    BY <1>1, <1>6
  <2> QED
    BY <2>1, <2>2
<1>8. \A d \in Clients : SessionOf(d)' = SessionOf(d)
  BY <1>7 DEF SessionOf
<1>9. \/ UNCHANGED <<todo, status>>
      \/ /\ ses[SessionOf(c)].active
         /\ todo' = Append(todo, [job |-> k, ses |-> SessionOf(c)])
         /\ status' = [status EXCEPT ![k] = "accepted"]
  BY <1>3 DEF StartJob
<1>10. \A i \in Jobs : i # k => status'[i] = status[i]
  BY <1>1, <1>9
<1>11. \A i \in Jobs : i # k => (Open(i)' <=> Open(i))
  BY <1>6, <1>10 DEF Open
<1>12. \A e \in Entries : EntryOk(e) => EntryOk(e)' /\ e.job # k
  BY <1>5, <1>6, <1>8, <1>11, Identifiers DEF EntryOk, Entries
<1>13. LockInv' /\ ChangeInv'
  BY <1>6 DEF JpegInv, LockInv, ChangeInv, Entry, Encodes
<1>14. CallInv'
  BY <1>6 DEF CallInv, Idle
<1>15. EncodeInv' /\ HandleInv'
  <2>1. api.pc \notin Stopping
    BY <1>6 DEF Stopping, Idle
  <2>2. \A u \in Slots : SameSlot(u)
    BY <1>6 DEF SameSlot
  <2> QED
    BY <1>6, <2>1, <2>2, SameSlots
<1>16. \A i \in DOMAIN ongoing : EntryOk(ongoing[i])' /\ ongoing[i].job # k
  <2> SUFFICES ASSUME NEW i \in DOMAIN ongoing
               PROVE  EntryOk(ongoing[i])' /\ ongoing[i].job # k
    OBVIOUS
  <2>1. PICK e \in Entries : e = ongoing[i]
    BY EntryOfQueue
  <2>2. EntryOk(e)
    BY <2>1 DEF JpegInv, QueueInv
  <2>3. EntryOk(e)' /\ e.job # k
    BY <1>12, <2>2
  <2> QED
    BY <1>6, <2>1, <2>3
<1>17. \A u \in Slots : omx[u].busy # None => Open(omx[u].busy)' /\ omx[u].busy # k
  <2> SUFFICES ASSUME NEW u \in Slots, omx[u].busy # None
               PROVE  Open(omx[u].busy)' /\ omx[u].busy # k
    OBVIOUS
  <2>1. PICK i \in Jobs : i = omx[u].busy
    BY OneReader
  <2>2. Open(i)
    BY <2>1 DEF JpegInv, QueueInv
  <2>3. Open(i)' /\ i # k
    BY <1>5, <1>11, <2>2
  <2> QED
    BY <1>6, <2>1, <2>3
<1>18. QueueInv'
  <2>1. CASE UNCHANGED <<todo, status>>
    BY <1>6, <1>12, <1>16, <1>17, <2>1, EntryOfQueue DEF JpegInv, QueueInv, JobsDiffer
  <2>2. CASE ~UNCHANGED <<todo, status>>
    <3>1. PICK n \in Entries : n = [job |-> k, ses |-> SessionOf(c)] /\ n.job = k /\ n.ses = SessionOf(c)
      <4>1. [job |-> k, ses |-> SessionOf(c)] \in Entries
        BY OwnSlot DEF JpegInv, Entries
      <4> QED
        BY <4>1
    <3>2. /\ todo' = Append(todo, n) /\ ses[SessionOf(c)].active /\ status'[k] = "accepted"
      BY <1>1, <1>9, <2>2, <3>1
    <3>3. \A i \in DOMAIN todo : EntryOk(todo[i]) /\ todo[i] \in Entries /\ todo[i].job # k
      BY <1>12, EntryOfQueue DEF JpegInv, QueueInv
    <3>4. /\ JobsDiffer(todo')
          /\ \A i \in DOMAIN todo' : todo'[i] = n \/ (i \in DOMAIN todo /\ todo'[i] = todo[i])
      BY <1>1, <3>1, <3>2, <3>3, AppendEntry DEF JpegInv, QueueInv
    <3>5. EntryOk(n)'
      <4>1. Open(k)'
        BY <1>5, <1>6, <3>2 DEF Open
      <4>2. SessionOf(c)' = SessionOf(c)
        BY <1>8
      <4> QED
        BY <1>4, <1>6, <3>1, <3>2, <4>1, <4>2 DEF EntryOk
    <3>6. \A i \in DOMAIN todo' : EntryOk(todo[i])'
      <4> SUFFICES ASSUME NEW i \in DOMAIN todo'
                   PROVE  EntryOk(todo[i])'
        OBVIOUS
      <4>1. PICK e \in Entries : e = todo'[i]
        BY <3>1, <3>3, <3>4
      <4>2. EntryOk(e)'
        BY <1>12, <3>3, <3>4, <3>5, <4>1
      <4> QED
        BY <4>1, <4>2
    <3>7. \A i \in DOMAIN todo', m \in DOMAIN ongoing' : todo'[i].job # ongoing'[m].job
      BY <1>6, <1>16, <3>1, <3>4 DEF JpegInv, QueueInv
    <3>8. \A u \in Slots : omx'[u].busy # None =>
             Open(omx[u].busy)' /\ \A i \in DOMAIN todo' : todo'[i].job # omx'[u].busy
      BY <1>6, <1>17, <3>1, <3>4 DEF JpegInv, QueueInv
    <3>9. \A i \in DOMAIN ongoing' : EntryOk(ongoing[i])'
      BY <1>6, <1>16
    <3> QED
      BY <3>4, <3>6, <3>7, <3>8, <3>9 DEF QueueInv
  <2> QED
    BY <2>1, <2>2
<1>19. ClientInv'
  <2> SUFFICES ASSUME NEW i \in Jobs
               PROVE  /\ i[2] > hal'[i[1]].made => status'[i] = "new"
                      /\ status'[i] = "new" => answers'[i] = 0
                      /\ Open(i)' => ~hal'[i[1]].need /\ ~(api'.call = "create" /\ api'.client = i[1])
    BY DEF ClientInv
  <2>1. i[1] \in Clients /\ i[2] \in Nat /\ hal[i[1]].made \in Nat
    <3>1. i[1] \in Clients /\ i[2] \in 1 .. MaxJobs[i[1]] /\ hal[i[1]] \in HalStates
      BY <1>1, Identifiers
    <3>2. MaxJobs[i[1]] \in Nat
      BY <3>1, MmJpegAssumption DEF Clients
    <3> QED
      BY <3>1, <3>2 DEF HalStates
  <2>2. api'.call # "create"
    BY <1>6 DEF Idle
  <2>3. CASE i = k
    <3>1. hal'[i[1]].made = hal[c].made + 1 /\ ~hal'[i[1]].need
      BY <1>4, <1>6, <1>7, <2>3
    <3>2. ~(i[2] > hal'[i[1]].made)
      BY <1>2, <1>4, <2>3, <3>1
    <3>3. answers'[i] = 0
      BY <1>5, <1>6, <2>3
    <3> QED
      BY <2>2, <3>1, <3>2, <3>3
  <2>4. CASE i # k
    <3>1. status'[i] = status[i] /\ answers'[i] = answers[i] /\ hal'[i[1]].need = hal[i[1]].need
      BY <1>6, <1>7, <1>10, <2>1, <2>4
    <3>2. i[2] > hal'[i[1]].made => i[2] > hal[i[1]].made
      BY <1>7, <2>1
    <3> QED
      BY <2>2, <3>1, <3>2 DEF JpegInv, ClientInv, Open
  <2> QED
    BY <2>3, <2>4
<1>20. ServiceStep
  <2>1. Reading' = Reading
    BY <1>6 DEF Reading
  <2>2. CASE UNCHANGED <<todo, status>>
    BY <1>6, <2>1, <2>2 DEF ServiceStep, Service!vars
  <2>3. CASE ~UNCHANGED <<todo, status>>
    <3>1. status' = [status EXCEPT ![k] = "accepted"]
      BY <1>9, <2>3
    <3>2. Service!Accept(k)
      BY <1>5, <1>6, <2>1, <3>1 DEF Service!Accept
    <3> QED
      BY <3>2 DEF ServiceStep, Service!Next
  <2> QED
    BY <2>2, <2>3
<1> QED
  BY <1>13, <1>14, <1>15, <1>18, <1>19, <1>20, ClientTypes DEF JpegInv, ClientStep

-----------------------------------------------------------------------------
(* Jobs are taken back.                                                     *)

(* Steps that take entries out of the queues and leave slots and jobs alone. *)
LEMMA ShrunkQueues ==
  ASSUME JpegInv, Within(todo', todo), JobsDiffer(todo'), Within(ongoing', ongoing),
         \A e \in Entries : EntryOk(e) /\ (\/ \E i \in DOMAIN todo' : todo'[i] = e
                                           \/ \E i \in DOMAIN ongoing' : ongoing'[i] = e) => EntryOk(e)',
         \A u \in Slots : omx'[u].busy # None =>
             omx'[u].busy = omx[u].busy /\ (Open(omx[u].busy) => Open(omx[u].busy)')
  PROVE  QueueInv'
<1>1. \A i \in DOMAIN todo' : \E m \in DOMAIN todo : todo'[i] = todo[m]
  BY DEF Within
<1>2. \A i \in DOMAIN ongoing' : \E m \in DOMAIN ongoing : ongoing'[i] = ongoing[m]
  BY DEF Within
<1>3. ASSUME NEW i \in DOMAIN todo'
      PROVE  EntryOk(todo[i])'
  <2>1. PICK e \in Entries : e = todo'[i] /\ EntryOk(e)
    BY <1>1, EntryOfQueue DEF JpegInv, QueueInv
  <2>2. EntryOk(e)'
    BY <2>1
  <2> QED
    BY <2>1, <2>2
<1>4. ASSUME NEW i \in DOMAIN ongoing'
      PROVE  EntryOk(ongoing[i])'
  <2>1. PICK e \in Entries : e = ongoing'[i] /\ EntryOk(e)
    BY <1>2, EntryOfQueue DEF JpegInv, QueueInv
  <2>2. EntryOk(e)'
    BY <2>1
  <2> QED
    BY <2>1, <2>2
<1>5. \A i \in DOMAIN todo', k \in DOMAIN ongoing' : todo'[i].job # ongoing'[k].job
  BY <1>1, <1>2 DEF JpegInv, QueueInv
<1>6. ASSUME NEW u \in Slots, omx'[u].busy # None
      PROVE  Open(omx[u].busy)' /\ \A i \in DOMAIN todo' : todo'[i].job # omx'[u].busy
  <2>1. omx'[u].busy = omx[u].busy
    BY <1>6
  <2>2. Open(omx[u].busy) /\ \A i \in DOMAIN todo : todo[i].job # omx[u].busy
    BY <1>6, <2>1 DEF JpegInv, QueueInv
  <2> QED
    BY <1>1, <1>6, <2>1, <2>2
<1> QED
  BY <1>3, <1>4, <1>5, <1>6 DEF QueueInv

LEMMA AbortJobStep ==
  ASSUME JpegInv, NEW c \in Clients, AbortJob(c)
  PROVE  JpegInv' /\ ServiceStep
<1>1. /\ api = Idle /\ lock = "free" /\ mgr.pc \notin MgrBusy
      /\ run["mgr"].at = "ok" /\ run["api"].at = "ok"
      /\ \A u \in Slots : ses[u].abort # "INIT" /\ ~BeingAborted(u)
      /\ \A u \in Slots : omx[u].busy # None => ongoing = <<Entry(u)>>
  BY Calling DEF AbortJob
<1>2. /\ todo \in Seq(Entries) /\ ongoing \in Seq(Entries) /\ JobsDiffer(todo) /\ Len(ongoing) <= 1
      /\ status \in [Jobs -> {"new", "accepted", "withdrawn"}]
  BY DEF JpegInv, JpegTypes, TypeQueues, TypeClients, QueueInv, LockInv
<1>3. UNCHANGED <<ses, omx, inprogress, mgr, run, hal, answers>>
  BY DEF AbortJob, sessionVars
<1>4. PICK j \in Pending(c) :
         IF \E i \in DOMAIN ongoing : ongoing[i].job = j
           THEN /\ ongoing' = Without(ongoing, j)
                /\ lock' = "api" /\ Call(c, "abort", SessionOf(c), j, "abort")
                /\ UNCHANGED <<todo, status>>
           ELSE /\ todo' = Without(todo, j)
                /\ status' = [status EXCEPT ![j] = "withdrawn"]
                /\ UNCHANGED <<ongoing, lock, api>>
  BY DEF AbortJob
<1>5. j \in Jobs /\ j[1] = c /\ Open(j)
  BY DEF Pending, Open
<1>6. \A u \in Slots : SameSlot(u)
  BY <1>3 DEF SameSlot
<1>7. Within(todo, todo) /\ Within(ongoing, ongoing)
  BY <1>2 DEF Within
<1>8. CASE \E i \in DOMAIN ongoing : ongoing[i].job = j
  <2>1. /\ ongoing' = Without(ongoing, j) /\ lock' = "api" /\ UNCHANGED <<todo, status>>
        /\ api' = [call |-> "abort", client |-> c, ses |-> SessionOf(c), job |-> j, pc |-> "abort"]
    BY <1>4, <1>8 DEF Call
  <2>2. PICK e \in Entries : ongoing = <<e>> /\ e.job = j /\ EntryOk(e)
    <3>1. PICK i \in DOMAIN ongoing : ongoing[i].job = j
      BY <1>8
    <3>2. ongoing # <<>>
      BY <3>1
    <3>3. ongoing[1] \in Entries /\ ongoing = <<ongoing[1]>> /\ DOMAIN ongoing = {1}
      BY <1>2, <3>2, AtMostOne
    <3> QED
      BY <3>1, <3>3 DEF JpegInv, QueueInv
  <2>3. ongoing' = <<>>
    BY <2>1, <2>2, Single
  <2>4. e.ses = SessionOf(c) /\ e.ses \in Slots
    BY <1>5, <2>2 DEF EntryOk, Entries
  <2>5. LockInv'
    <3>1. Len(ongoing') <= 1
      BY <2>3
    <3> QED
      BY <1>1, <1>3, <2>1, <2>3, <3>1 DEF LockInv, MgrBusy
  <2>6. ChangeInv'
    BY <1>1, <1>3 DEF ChangeInv
  <2>7. CallInv'
    <3>1. \A i \in DOMAIN todo : todo[i].job # j
      BY <2>2 DEF JpegInv, QueueInv
    <3>2. status[j] = "accepted"
      BY <1>5 DEF Open
    <3> QED
      BY <1>5, <2>1, <2>3, <2>4, <3>1, <3>2 DEF CallInv
  <2>8. EncodeInv'
    <3>1. ASSUME NEW u \in Slots, omx[u].busy # None
          PROVE  BeingAborted(u)'
      <4>1. ongoing = <<Entry(u)>>
        BY <1>1, <3>1
      <4>2. e = Entry(u)
        BY <2>2, <4>1
      <4> QED
        BY <2>1, <2>3, <2>4, <4>2 DEF BeingAborted, Entry
    <3>2. \A u \in Slots : BeingAborted(u)' \/ omx'[u].busy = None
      BY <1>3, <3>1
    <3> QED
      BY <1>1, <1>3, <3>2 DEF JpegInv, EncodeInv, Encodes
  <2>9. QueueInv'
    <3>1. Within(ongoing', ongoing)
      BY <1>2, <2>3 DEF Within
    <3>2. \A f \in Entries : EntryOk(f) => EntryOk(f)'
      BY <1>3, <2>1 DEF EntryOk, Open, SessionOf
    <3>3. \A u \in Slots : Open(omx[u].busy) => Open(omx[u].busy)'
      BY <1>3, <2>1 DEF Open
    <3> QED
      BY <1>2, <1>3, <1>7, <2>1, <3>1, <3>2, <3>3, ShrunkQueues
  <2>10. ClientInv'
    BY <1>3, <2>1 DEF JpegInv, ClientInv, Open
  <2>11. HandleInv'
    <3> SUFFICES ASSUME NEW u \in Slots, ses'[u].active
                 PROVE  \/ ses'[u].handles + Using(u)' = 1
                        \/ /\ ses'[u].handles + Using(u)' = 0
                           /\ ses'[u].abort # "NONE" \/ (api'.ses = u /\ api'.pc \in {"purge", "abort", "aborting"})
      BY DEF HandleInv
    <3>1. \/ ses[u].handles + Using(u) = 1
          \/ ses[u].handles + Using(u) = 0 /\ ses[u].abort # "NONE"
      BY <1>1, <1>3 DEF JpegInv, HandleInv, Idle
    <3>2. OfSession(ongoing, u)' = {} /\ OfSession(ongoing, u) = IF e.ses = u THEN {1} ELSE {}
      BY <2>2, <2>3 DEF OfSession
    <3>3. ses[u].handles \in Nat
      BY DEF JpegInv, JpegTypes, TypeSlots, Sessions
    <3>4. CASE e.ses = u
      <4>1. Using(u) = 1 + Using(u)' /\ Using(u)' \in Nat
        BY <1>3, <3>2, <3>4 DEF Using
      <4>2. ses[u].handles + Using(u)' = 0
        BY <3>1, <3>3, <4>1
      <4>3. api'.ses = u /\ api'.pc = "abort"
        BY <2>1, <2>4, <3>4
      <4> QED
        BY <1>3, <4>2, <4>3
    <3>5. CASE e.ses # u
      <4>1. Using(u)' = Using(u)
        BY <1>3, <3>2, <3>5 DEF Using
      <4> QED
        BY <1>3, <3>1, <4>1
    <3> QED
      BY <3>4, <3>5
  <2>12. ServiceStep
    BY <1>3, <2>1, Silent
  <2> QED
    BY <2>5, <2>6, <2>7, <2>8, <2>9, <2>10, <2>11, <2>12, ClientTypes DEF JpegInv, ClientStep
<1>9. CASE ~\E i \in DOMAIN ongoing : ongoing[i].job = j
  <2>1. /\ todo' = Without(todo, j) /\ status' = [status EXCEPT ![j] = "withdrawn"]
        /\ UNCHANGED <<ongoing, lock, api>>
    BY <1>4, <1>9
  <2>2. /\ Within(todo', todo) /\ JobsDiffer(todo')
        /\ \A k \in DOMAIN todo' : todo'[k].job # j
    BY <1>2, <2>1, WithoutJob
  <2>3. LockInv' /\ ChangeInv'
    BY <1>3, <2>1 DEF JpegInv, LockInv, ChangeInv, Entry, Encodes
  <2>4. CallInv'
    BY <1>1, <2>1 DEF CallInv, Idle
  <2>5. EncodeInv' /\ HandleInv'
    <3>1. api.pc \notin Stopping
      BY <1>1 DEF Stopping, Idle
    <3> QED
      BY <1>6, <2>1, <3>1, SameSlots
  <2>6. \A k \in Jobs : k # j => status'[k] = status[k]
    BY <1>2, <2>1
  <2>7. \A u \in Slots : omx[u].busy # j
    <3> SUFFICES ASSUME NEW u \in Slots, omx[u].busy = j
                 PROVE  FALSE
      OBVIOUS
    <3>1. omx[u].busy # None
      BY <1>5, Identifiers
    <3>2. ongoing = <<Entry(u)>> /\ ses[u].job = j
      BY <1>1, <3>1 DEF JpegInv, EncodeInv
    <3>3. 1 \in DOMAIN ongoing /\ ongoing[1].job = j
      BY <3>2 DEF Entry
    <3> QED
      BY <1>9, <3>3
  <2>8. QueueInv'
    <3>1. ASSUME NEW f \in Entries, EntryOk(f), f.job # j
          PROVE  EntryOk(f)'
      BY <1>3, <2>6, <3>1 DEF EntryOk, Open, SessionOf, Entries
    <3>2. \A i \in DOMAIN todo' : todo'[i].job # j
      BY <2>2
    <3>3. \A i \in DOMAIN ongoing' : ongoing'[i].job # j
      BY <1>9, <2>1
    <3>4. ASSUME NEW u \in Slots, omx[u].busy # None
          PROVE  Open(omx[u].busy) => Open(omx[u].busy)'
      <4>1. PICK i \in Jobs : i = omx[u].busy /\ i # j
        BY <2>7, <3>4, OneReader
      <4>2. Open(i) => Open(i)'
        BY <1>3, <2>6, <4>1 DEF Open
      <4> QED
        BY <1>3, <4>1, <4>2
    <3>5. \A f \in Entries : EntryOk(f) /\ (\/ \E i \in DOMAIN todo' : todo'[i] = f
                                            \/ \E i \in DOMAIN ongoing' : ongoing'[i] = f) => EntryOk(f)'
      BY <3>1, <3>2, <3>3
    <3>6. \A u \in Slots : omx'[u].busy # None =>
             omx'[u].busy = omx[u].busy /\ (Open(omx[u].busy) => Open(omx[u].busy)')
      BY <1>3, <3>4
    <3> QED
      BY <1>7, <2>1, <2>2, <3>5, <3>6, ShrunkQueues
  <2>9. ClientInv'
    <3>1. status[j] = "accepted" /\ status'[j] = "withdrawn"
      BY <1>2, <1>5, <2>1 DEF Open
    <3>2. \A k \in Jobs : /\ status'[k] = "new" <=> status[k] = "new"
                          /\ Open(k)' => Open(k)
      BY <1>3, <2>6, <3>1 DEF Open
    <3> QED
      BY <1>3, <2>1, <3>2 DEF JpegInv, ClientInv
  <2>10. ServiceStep
    <3>1. Reading' = Reading /\ j \notin Reading
      BY <1>3, <2>7 DEF Reading
    <3>2. Service!Withdraw(j)
      BY <1>3, <1>5, <2>1, <3>1 DEF Service!Withdraw, Open
    <3> QED
      BY <1>5, <3>2 DEF ServiceStep, Service!Next
  <2> QED
    BY <2>3, <2>4, <2>5, <2>8, <2>9, <2>10, ClientTypes DEF JpegInv, ClientStep
<1> QED
  BY <1>8, <1>9

LEMMA EndStopStep ==
  ASSUME JpegInv, NEW c \in Clients, EndStop(c)
  PROVE  JpegInv' /\ ServiceStep
<1>1. /\ api = Idle /\ lock = "free" /\ mgr.pc \notin MgrBusy
      /\ run["mgr"].at = "ok" /\ run["api"].at = "ok"
  BY Calling DEF EndStop
<1>2. UNCHANGED <<ses, omx, todo, ongoing, inprogress, mgr, run, status, answers>> /\ Pending(c) = {}
  BY DEF EndStop, sessionVars, queueVars
<1>3. hal \in [Clients -> HalStates] /\ hal[c] \in HalStates
  BY DEF JpegInv, JpegTypes, TypeClients
<1>4. \A d \in Clients : /\ d # c => hal'[d] = hal[d]
                         /\ hal'[d].made = hal[d].made
  BY <1>3 DEF EndStop, HalStates
<1>5. \A j \in Jobs : Open(j) => j[1] # c
  BY <1>2, NoJobOpen
<1>6. \/ UNCHANGED <<lock, api>>
      \/ /\ lock' = "api" /\ hal[c].session \in Slots
         /\ api' = [call |-> "destroy", client |-> c, ses |-> hal[c].session, job |-> None, pc |-> "purge"]
  BY <1>3 DEF EndStop, Call, HalStates
<1>7. LockInv'
  BY <1>1, <1>2, <1>6 DEF JpegInv, LockInv, Idle, Entry
<1>8. ChangeInv'
  BY <1>1, <1>2 DEF ChangeInv
<1>9. CallInv'
  BY <1>1, <1>6 DEF CallInv, Idle
<1>10. EncodeInv' /\ HandleInv'
  <2>1. api.pc \notin Stopping
    BY <1>1 DEF Stopping, Idle
  <2>2. \A u \in Slots : SameSlot(u)
    BY <1>2 DEF SameSlot
  <2> QED
    BY <1>2, <2>1, <2>2, SameSlots
<1>11. QueueInv'
  <2>1. \A e \in Entries : EntryOk(e) => EntryOk(e)'
    BY <1>2, <1>4, OthersEntries
  <2> QED
    BY <1>2, <2>1, EntryOfQueue DEF JpegInv, QueueInv, JobsDiffer, Open
<1>12. ClientInv'
  <2>1. api'.call # "create"
    BY <1>1, <1>6 DEF Idle
  <2> QED
    BY <1>2, <1>4, <1>5, <2>1, Identifiers DEF JpegInv, ClientInv, Open
<1>13. ServiceStep
  BY <1>2, Silent
<1> QED
  BY <1>7, <1>8, <1>9, <1>10, <1>11, <1>12, <1>13, ClientTypes DEF JpegInv, ClientStep

(* mm_jpeg_destroy_session takes the jobs of its session out of the queues. *)
LEMMA Holding ==
  ASSUME JpegInv, api.pc # "done"
  PROVE  /\ lock = "api" /\ mgr.pc \notin MgrBusy /\ run["mgr"].at = "ok"
         /\ api.ses \in Slots /\ (api.pc # "run" => run["api"].at = "ok")
<1>1. lock = "api" /\ mgr.pc \notin MgrBusy
  BY DEF JpegInv, LockInv
<1> QED
  BY <1>1 DEF JpegInv, CallInv, ChangeInv, MgrBusy

LEMMA PurgeStep ==
  ASSUME JpegInv, Purge
  PROVE  JpegInv' /\ ServiceStep
<1>1. /\ api.pc = "purge" /\ api.call = "destroy" /\ lock = "api" /\ mgr.pc \notin MgrBusy
      /\ run["mgr"].at = "ok" /\ run["api"].at = "ok" /\ api.ses \in Slots
  BY Holding DEF Purge, JpegInv, CallInv
<1>2. /\ todo \in Seq(Entries) /\ ongoing \in Seq(Entries) /\ JobsDiffer(todo) /\ Len(ongoing) <= 1
      /\ api \in Calls
  BY DEF JpegInv, JpegTypes, TypeQueues, TypeThreads, QueueInv, LockInv
<1>3. UNCHANGED <<ses, omx, inprogress, lock, mgr, run, hal, status, answers>>
  BY DEF Purge, sessionVars, clientVars
<1>4. \A u \in Slots : SameSlot(u)
  BY <1>3 DEF SameSlot
<1>5. Within(todo, todo) /\ Within(ongoing, ongoing)
  BY <1>2 DEF Within
<1>6. \A e \in Entries : EntryOk(e) => EntryOk(e)'
  BY <1>3 DEF EntryOk, Open, SessionOf
<1>7. \A u \in Slots : Open(omx[u].busy) => Open(omx[u].busy)'
  BY <1>3 DEF Open
<1>8. ServiceStep
  BY <1>3, Silent
<1>9. ChangeInv'
  BY <1>1, <1>3 DEF ChangeInv
<1>10. ClientInv'
  <2>1. api'.call # "create"
    BY <1>1, <1>2 DEF Purge, Calls
  <2> QED
    BY <1>3, <2>1 DEF JpegInv, ClientInv, Open
<1>11. CASE OfSession(todo, api.ses) # {}
  <2>1. PICK i \in DOMAIN todo : todo' = RemoveAt(todo, i)
    BY <1>11 DEF Purge
  <2>2. UNCHANGED <<ongoing, api>>
    BY <1>11 DEF Purge
  <2>3. Within(todo', todo) /\ JobsDiffer(todo')
    BY <1>2, <2>1, RemoveOne
  <2>4. LockInv'
    BY <1>3, <2>2 DEF JpegInv, LockInv, Entry
  <2>5. CallInv'
    BY <1>1, <2>2 DEF JpegInv, CallInv
  <2>6. EncodeInv' /\ HandleInv'
    BY <1>1, <1>4, <2>2, SameSlots
  <2>7. QueueInv'
    BY <1>3, <1>5, <1>6, <1>7, <2>2, <2>3, ShrunkQueues
  <2> QED
    BY <1>8, <1>9, <1>10, <2>4, <2>5, <2>6, <2>7, ApiTypes DEF JpegInv
<1>12. CASE OfSession(todo, api.ses) = {} /\ OfSession(ongoing, api.ses) # {}
  <2>1. PICK i \in DOMAIN ongoing : IsFirst(ongoing, api.ses, i) /\ ongoing' = RemoveAt(ongoing, i)
    BY <1>12 DEF Purge
  <2>2. UNCHANGED <<todo, api>>
    BY <1>12 DEF Purge
  <2>3. PICK e \in Entries : ongoing = <<e>> /\ e.ses = api.ses
    <3>1. ongoing # <<>>
      BY <2>1
    <3>2. ongoing[1] \in Entries /\ ongoing = <<ongoing[1]>> /\ DOMAIN ongoing = {1}
      BY <1>2, <3>1, AtMostOne
    <3> QED
      BY <2>1, <3>2 DEF IsFirst, OfSession
  <2>4. ongoing' = <<>>
    <3>1. i = 1
      BY <2>3
    <3> QED
      BY <2>1, <2>3, <3>1, Single
  <2>5. LockInv'
    <3>1. Len(ongoing') <= 1
      BY <2>4
    <3> QED
      BY <1>1, <1>3, <2>2, <2>4, <3>1 DEF LockInv, MgrBusy
  <2>6. CallInv'
    BY <1>1, <2>2 DEF CallInv
  <2>7. \A u \in Slots : ongoing = <<Entry(u)>> \/ BeingAborted(u) => BeingAborted(u)'
    <3> SUFFICES ASSUME NEW u \in Slots, ongoing = <<Entry(u)>>
                 PROVE  BeingAborted(u)'
      BY <2>3 DEF BeingAborted
    <3>1. e = Entry(u)
      BY <2>3
    <3> QED
      BY <1>1, <2>2, <2>3, <2>4, <3>1 DEF BeingAborted, Entry
  <2>8. EncodeInv'
    BY <1>3, <2>2, <2>7 DEF JpegInv, EncodeInv, Encodes
  <2>9. QueueInv'
    <3>1. Within(ongoing', ongoing)
      BY <1>2, <2>4 DEF Within
    <3> QED
      BY <1>2, <1>3, <1>5, <1>6, <1>7, <2>2, <3>1, ShrunkQueues
  <2>10. HandleInv'
    <3> SUFFICES ASSUME NEW u \in Slots, ses'[u].active
                 PROVE  \/ ses'[u].handles + Using(u)' = 1
                        \/ /\ ses'[u].handles + Using(u)' = 0
                           /\ ses'[u].abort # "NONE" \/ (api'.ses = u /\ api'.pc \in {"purge", "abort", "aborting"})
      BY DEF HandleInv
    <3>1. \/ ses[u].handles + Using(u) = 1
          \/ /\ ses[u].handles + Using(u) = 0
             /\ ses[u].abort # "NONE" \/ (api.ses = u /\ api.pc \in {"purge", "abort", "aborting"})
      BY <1>3 DEF JpegInv, HandleInv
    <3>2. OfSession(ongoing, u)' = {} /\ OfSession(ongoing, u) = IF e.ses = u THEN {1} ELSE {}
      BY <2>3, <2>4 DEF OfSession
    <3>3. ses[u].handles \in Nat
      BY DEF JpegInv, JpegTypes, TypeSlots, Sessions
    <3>4. CASE e.ses = u
      <4>1. Using(u) = 1 + Using(u)' /\ Using(u)' \in Nat
        BY <1>3, <3>2, <3>4 DEF Using
      <4>2. ses[u].handles + Using(u)' = 0
        BY <3>1, <3>3, <4>1
      <4>3. api'.ses = u /\ api'.pc = "purge"
        BY <1>1, <2>2, <2>3, <3>4
      <4> QED
        BY <1>3, <4>2, <4>3
    <3>5. CASE e.ses # u
      <4>1. Using(u)' = Using(u)
        BY <1>3, <3>2, <3>5 DEF Using
      <4> QED
        BY <1>3, <2>2, <3>1, <4>1
    <3> QED
      BY <3>4, <3>5
  <2> QED
    BY <1>8, <1>9, <1>10, <2>5, <2>6, <2>8, <2>9, <2>10, ApiTypes DEF JpegInv
<1>13. CASE NoEntry(api.ses)
  <2>1. UNCHANGED <<todo, ongoing>> /\ api' = [api EXCEPT !.pc = "abort"]
    BY <1>13 DEF Purge, NoEntry
  <2>2. api'.pc = "abort" /\ api'.ses = api.ses /\ api'.call = "destroy"
    BY <1>1, <1>2, <2>1 DEF Calls
  <2>3. LockInv'
    BY <1>1, <1>3, <2>1, <2>2 DEF JpegInv, LockInv, Entry
  <2>4. CallInv'
    <3>1. NoEntry(api.ses)'
      BY <1>13, <2>1, <2>2 DEF NoEntry, OfSession
    <3> QED
      BY <1>1, <2>2, <3>1 DEF CallInv
  <2>5. EncodeInv' /\ HandleInv'
    <3>1. api'.pc \in Stopping /\ api.pc # "aborting"
      BY <1>1, <2>2 DEF Stopping
    <3> QED
      BY <1>4, <2>1, <2>2, <3>1, SameSlots
  <2>6. QueueInv'
    BY <1>2, <1>3, <1>5, <1>6, <1>7, <2>1, ShrunkQueues
  <2> QED
    BY <1>8, <1>9, <1>10, <2>3, <2>4, <2>5, <2>6, ApiTypes DEF JpegInv
<1> QED
  BY <1>11, <1>12, <1>13 DEF NoEntry

-----------------------------------------------------------------------------
(* Sessions are aborted and destroyed.                                      *)

(* The end of mm_jpeg_session_abort: the session is at rest.                *)
LEMMA AfterAbortStep ==
  ASSUME JpegInv, JpegTypes', api.pc \in {"abort", "aborting"}, AfterAbort,
         UNCHANGED <<omx, todo, ongoing, inprogress, mgr, hal, answers>>,
         ses' \in [Slots -> Sessions],
         \A u \in Slots : u # api.ses => ses'[u] = ses[u],
         KeepsSession(api.ses), ses'[api.ses].abort = "DONE", ses'[api.ses].handles = ses[api.ses].handles,
         omx[api.ses].busy = None
  PROVE  JpegInv' /\ ServiceStep
<1>1. PICK s \in Slots : s = api.ses
  BY Holding
<1>2. /\ lock = "api" /\ mgr.pc \notin MgrBusy /\ run["mgr"].at = "ok" /\ run["api"].at = "ok"
      /\ api.call \in {"abort", "destroy"} /\ api \in Calls /\ run \in [{"mgr", "api"} -> Changes]
  BY Holding DEF JpegInv, CallInv, JpegTypes, TypeThreads
<1>3. /\ \A u \in Slots : u # s => ses'[u] = ses[u]
      /\ ses'[s].active = ses[s].active /\ ses'[s].job = ses[s].job /\ ses'[s].encoding = ses[s].encoding
      /\ ses'[s].abort = "DONE" /\ ses'[s].handles = ses[s].handles /\ omx[s].busy = None
  BY <1>1 DEF KeepsSession
<1>4. \A u \in Slots : u # s => ~BeingAborted(u) /\ ses[u].abort # "INIT"
  BY <1>1 DEF BeingAborted, JpegInv, EncodeInv
<1>5. ASSUME NEW u \in Slots
      PROVE  /\ omx[u].busy # None => ongoing = <<Entry(u)>> /\ u # s
             /\ Entry(u)' = Entry(u) /\ (Encodes(u)' => u # s /\ Encodes(u))
  BY <1>3, <1>4 DEF JpegInv, EncodeInv, Entry, Encodes
<1>6. \/ /\ api.call = "abort" /\ api' = Idle /\ lock' = "free"
         /\ status' = [status EXCEPT ![api.job] = "withdrawn"] /\ UNCHANGED run
      \/ /\ api.call = "destroy" /\ api'.pc = "run" /\ api'.call = "destroy" /\ api'.ses = s
         /\ UNCHANGED <<lock, status>> /\ run'["mgr"] = run["mgr"]
         /\ run'["api"].ses = s /\ run'["api"].goals = Retire
  BY <1>1, <1>2 DEF AfterAbort, Calls, Change
<1>7. EncodeInv'
  <2> SUFFICES ASSUME NEW u \in Slots
               PROVE  /\ omx'[u].busy # None =>
                           /\ ses'[u].encoding /\ ses'[u].abort # "DONE" /\ omx'[u].busy = ses'[u].job
                           /\ ongoing' = <<Entry(u)'>>
                           /\ ses'[u].handles = 0 /\ omx'[u].cb = "none"
                      /\ Encodes(u)' => omx'[u].busy # None /\ omx'[u].goal = "none"
                      /\ ses'[u].abort # "INIT"
                      /\ ~ses'[u].active => ~ses'[u].encoding
    BY DEF EncodeInv
  <2>1. omx'[u].busy # None =>
          /\ ses'[u].encoding /\ ses'[u].abort # "DONE" /\ omx'[u].busy = ses'[u].job
          /\ ongoing' = <<Entry(u)'>>
          /\ ses'[u].handles = 0 /\ omx'[u].cb = "none"
    BY <1>3, <1>5 DEF JpegInv, EncodeInv
  <2>2. Encodes(u)' => omx'[u].busy # None /\ omx'[u].goal = "none"
    BY <1>5 DEF JpegInv, EncodeInv
  <2>3. ses'[u].abort # "INIT" /\ (~ses'[u].active => ~ses'[u].encoding)
    BY <1>3, <1>4 DEF JpegInv, EncodeInv
  <2> QED
    BY <2>1, <2>2, <2>3
<1>8. HandleInv'
  <2> SUFFICES ASSUME NEW u \in Slots, ses'[u].active
               PROVE  \/ ses'[u].handles + Using(u)' = 1
                      \/ ses'[u].handles + Using(u)' = 0 /\ ses'[u].abort # "NONE"
    BY DEF HandleInv
  <2>1. Using(u)' = Using(u) /\ ses'[u].handles = ses[u].handles /\ ses[u].active
    BY <1>3 DEF Using, OfSession
  <2>2. \/ ses[u].handles + Using(u) = 1
        \/ /\ ses[u].handles + Using(u) = 0
           /\ ses[u].abort # "NONE" \/ u = s
    BY <1>1, <2>1 DEF JpegInv, HandleInv
  <2> QED
    BY <1>3, <2>1, <2>2
<1>9. CASE api.call = "abort"
  <2>1. /\ api' = Idle /\ lock' = "free"
        /\ status' = [status EXCEPT ![api.job] = "withdrawn"] /\ UNCHANGED run
    BY <1>6, <1>9
  <2>2. PICK j \in Jobs : j = api.job /\ status[j] = "accepted" /\ \A i \in DOMAIN todo : todo[i].job # j
    BY <1>9 DEF JpegInv, CallInv
  <2>3. ongoing = <<>>
    BY <1>9 DEF JpegInv, CallInv
  <2>4. \A u \in Slots : omx[u].busy = None
    BY <1>5, <2>3
  <2>5. status'[j] = "withdrawn" /\ \A k \in Jobs : k # j => status'[k] = status[k]
    BY <2>1, <2>2 DEF JpegInv, JpegTypes, TypeClients
  <2>6. LockInv'
    <3>1. Len(ongoing') <= 1
      BY DEF JpegInv, LockInv
    <3> QED
      BY <1>2, <2>1, <3>1 DEF JpegInv, LockInv, MgrBusy, Idle
  <2>7. ChangeInv'
    BY <1>2, <2>1 DEF ChangeInv
  <2>8. CallInv'
    BY <2>1 DEF CallInv, Idle
  <2>9. QueueInv'
    <3>1. ASSUME NEW e \in Entries, EntryOk(e), e.job # j
          PROVE  EntryOk(e)'
      <4>1. ses'[e.ses].active = ses[e.ses].active /\ e.job \in Jobs
        BY <1>3 DEF Entries
      <4> QED
        BY <2>5, <3>1, <4>1 DEF EntryOk, Open, SessionOf
    <3>2. \A i \in DOMAIN todo' : todo'[i].job # j
      BY <2>2
    <3>3. DOMAIN ongoing' = {}
      BY <2>3
    <3>4. Within(todo', todo) /\ Within(ongoing', ongoing) /\ JobsDiffer(todo')
      BY DEF JpegInv, JpegTypes, TypeQueues, QueueInv, Within, JobsDiffer
    <3>5. \A e \in Entries : EntryOk(e) /\ (\/ \E i \in DOMAIN todo' : todo'[i] = e
                                            \/ \E i \in DOMAIN ongoing' : ongoing'[i] = e) => EntryOk(e)'
      BY <3>1, <3>2, <3>3
    <3> QED
      BY <2>4, <3>4, <3>5, ShrunkQueues
  <2>10. ClientInv'
    <3>1. \A k \in Jobs : /\ status'[k] = "new" <=> status[k] = "new"
                          /\ Open(k)' => Open(k)
      BY <2>2, <2>5 DEF Open
    <3>2. api'.call # "create"
      BY <2>1 DEF Idle
    <3> QED
      BY <3>1, <3>2 DEF JpegInv, ClientInv
  <2>11. ServiceStep
    <3>1. Reading = {} /\ Reading' = {}
      BY <2>4 DEF Reading
    <3>2. Service!Withdraw(j)
      BY <2>1, <2>2, <3>1 DEF Service!Withdraw
    <3> QED
      BY <3>2 DEF ServiceStep, Service!Next
  <2> QED
    BY <1>7, <1>8, <2>6, <2>7, <2>8, <2>9, <2>10, <2>11 DEF JpegInv
<1>10. CASE api.call = "destroy"
  <2>1. /\ api'.pc = "run" /\ api'.call = "destroy" /\ api'.ses = s
        /\ UNCHANGED <<lock, status>> /\ run'["mgr"] = run["mgr"]
        /\ run'["api"].ses = s /\ run'["api"].goals = Retire
    BY <1>6, <1>10
  <2>2. NoEntry(s)
    BY <1>1, <1>10 DEF JpegInv, CallInv
  <2>3. LockInv'
    <3>1. Len(ongoing') <= 1 /\ (mgr.pc = "lock" => ongoing = <<>>)
      BY DEF JpegInv, LockInv
    <3> QED
      BY <1>2, <2>1, <3>1 DEF LockInv, MgrBusy
  <2>4. ChangeInv'
    <3>1. ~Encodes(s)'
      BY <1>5
    <3>2. ~Encodes(run["api"].ses)'
      BY <2>1, <3>1
    <3> QED
      BY <1>1, <1>2, <2>1, <3>2, ChangeTypes DEF ChangeInv
  <2>5. CallInv'
    <3>1. NoEntry(api.ses)'
      BY <2>1, <2>2 DEF NoEntry, OfSession
    <3> QED
      BY <1>1, <1>3, <2>1, <3>1 DEF CallInv
  <2>6. QueueInv'
    <3>1. \A e \in Entries : EntryOk(e) => EntryOk(e)'
      <4>1. \A u \in Slots : ses'[u].active = ses[u].active
        BY <1>3
      <4> QED
        BY <2>1, <4>1 DEF EntryOk, Open, SessionOf, Entries
    <3>2. Within(todo', todo) /\ Within(ongoing', ongoing) /\ JobsDiffer(todo')
      BY DEF JpegInv, JpegTypes, TypeQueues, QueueInv, Within, JobsDiffer
    <3>3. \A u \in Slots : Open(omx[u].busy) => Open(omx[u].busy)'
      BY <2>1 DEF Open
    <3> QED
      BY <3>1, <3>2, <3>3, ShrunkQueues
  <2>7. ClientInv'
    BY <2>1 DEF JpegInv, ClientInv, Open
  <2>8. ServiceStep
    BY <2>1, Silent
  <2> QED
    BY <1>7, <1>8, <2>3, <2>4, <2>5, <2>6, <2>7, <2>8 DEF JpegInv
<1> QED
  BY <1>2, <1>9, <1>10

LEMMA SessionAbortStep ==
  ASSUME JpegInv, SessionAbort
  PROVE  JpegInv' /\ ServiceStep
<1>1. PICK s \in Slots : s = api.ses
  BY Holding DEF SessionAbort
<1>2. /\ lock = "api" /\ mgr.pc \notin MgrBusy /\ run["mgr"].at = "ok" /\ run["api"].at = "ok"
      /\ api.pc = "abort" /\ api \in Calls /\ ses \in [Slots -> Sessions] /\ ses[s] \in Sessions
      /\ omx \in [Slots -> Components] /\ omx[s] \in Components
  BY Holding DEF SessionAbort, JpegInv, JpegTypes, TypeThreads, TypeSlots
<1>3. JpegTypes'
  BY ApiTypes
<1>4. UNCHANGED <<todo, ongoing, inprogress, mgr, hal, answers>>
  BY DEF SessionAbort, queueVars
<1>5. CASE ~(ses[s].abort = "NONE" /\ ses[s].encoding)
  <2>1. /\ UNCHANGED omx /\ AfterAbort
        /\ ses' = IF ses[s].abort = "NONE" THEN [ses EXCEPT ![s] = [ses[s] EXCEPT !.abort = "DONE"]] ELSE ses
    BY <1>1, <1>5 DEF SessionAbort
  <2>2. ses[s].abort # "INIT"
    BY <1>2 DEF JpegInv, EncodeInv
  <2>3. omx[s].busy = None
    BY <1>5, <2>2, <1>2 DEF JpegInv, EncodeInv, Sessions
  <2>4. \A u \in Slots : u # s => ses'[u] = ses[u]
    BY <1>2, <2>1
  <2>5. KeepsSession(s) /\ ses'[s].abort = "DONE" /\ ses'[s].handles = ses[s].handles
    <3>1. ses'[s] = [ses[s] EXCEPT !.abort = "DONE"] \/ (ses'[s] = ses[s] /\ ses[s].abort # "NONE")
      BY <1>2, <2>1
    <3> QED
      BY <1>2, <2>2, <3>1 DEF KeepsSession, Sessions
  <2>6. ses' \in [Slots -> Sessions]
    BY <1>3 DEF JpegTypes, TypeSlots
  <2> QED
    BY <1>1, <1>2, <1>3, <1>4, <2>1, <2>3, <2>4, <2>5, <2>6, AfterAbortStep
<1>6. CASE ses[s].abort = "NONE" /\ ses[s].encoding
  <2>1. /\ ses' = [ses EXCEPT ![s] = [[ses[s] EXCEPT !.abort = "INIT"] EXCEPT !.pending = TRUE]]
        /\ omx' = [omx EXCEPT ![s] = [omx[s] EXCEPT !.goal = "Idle"]]
        /\ api' = [api EXCEPT !.pc = "aborting"]
        /\ UNCHANGED <<run, lock, status>>
    BY <1>1, <1>2, <1>6 DEF SessionAbort
  <2>2. api'.pc = "aborting" /\ api'.ses = s /\ api'.call = api.call /\ api'.client = api.client /\ api'.job = api.job
    BY <1>1, <1>2, <2>1 DEF Calls
  <2>3. /\ \A u \in Slots : u # s => ses'[u] = ses[u] /\ omx'[u] = omx[u]
        /\ ses'[s].active = ses[s].active /\ ses'[s].job = ses[s].job /\ ses'[s].encoding = ses[s].encoding
        /\ ses'[s].abort = "INIT" /\ ses'[s].handles = ses[s].handles
    BY <1>2, <2>1 DEF Sessions
  <2>4. omx'[s].busy = omx[s].busy /\ omx'[s].cb = omx[s].cb
    BY <1>2, <2>1 DEF Components
  <2>5. \A u \in Slots : /\ omx'[u].busy = omx[u].busy /\ omx'[u].cb = omx[u].cb
                         /\ ses'[u].active = ses[u].active /\ ses'[u].handles = ses[u].handles
                         /\ Entry(u)' = Entry(u) /\ (BeingAborted(u) => BeingAborted(u)')
    BY <1>1, <1>2, <1>4, <2>2, <2>3, <2>4 DEF Entry, BeingAborted
  <2>6. LockInv'
    <3>1. Len(ongoing') <= 1 /\ (mgr.pc = "lock" => ongoing = <<>>)
      BY <1>4 DEF JpegInv, LockInv
    <3> QED
      BY <1>2, <1>4, <2>1, <2>2, <3>1 DEF LockInv, MgrBusy
  <2>7. ChangeInv'
    BY <1>2, <2>1 DEF ChangeInv
  <2>8. CallInv'
    <3>1. NoEntry(api.ses)' <=> NoEntry(api.ses)
      BY <1>1, <1>4, <2>2 DEF NoEntry, OfSession
    <3>2. api.call \in {"abort", "destroy"}
      BY <1>2 DEF JpegInv, CallInv
    <3> QED
      BY <1>1, <1>2, <1>4, <2>1, <2>2, <3>1, <3>2 DEF JpegInv, CallInv
  <2>9. EncodeInv'
    <3> SUFFICES ASSUME NEW u \in Slots
                 PROVE  /\ omx'[u].busy # None =>
                             /\ ses'[u].encoding /\ ses'[u].abort # "DONE" /\ omx'[u].busy = ses'[u].job
                             /\ ongoing' = <<Entry(u)'>> \/ BeingAborted(u)'
                             /\ ses'[u].handles = 0 /\ omx'[u].cb = "none"
                        /\ Encodes(u)' => omx'[u].busy # None /\ omx'[u].goal = "none"
                        /\ ses'[u].abort = "INIT" => ses'[u].encoding /\ api'.ses = u /\ api'.pc = "aborting"
                        /\ ~ses'[u].active => ~ses'[u].encoding
      BY DEF EncodeInv
    <3>1. CASE u = s
      <4>1. Encodes(u)' = FALSE
        BY <2>3, <3>1 DEF Encodes
      <4>2. ses'[u].encoding /\ ses'[u].abort = "INIT" /\ ses'[u].active
        BY <1>6, <2>3, <3>1 DEF JpegInv, EncodeInv
      <4>3. omx[u].busy # None => omx[u].busy = ses[u].job /\ (ongoing = <<Entry(u)>> \/ BeingAborted(u))
                                  /\ ses[u].handles = 0 /\ omx[u].cb = "none"
        BY DEF JpegInv, EncodeInv
      <4> QED
        BY <1>4, <2>2, <2>3, <2>5, <3>1, <4>1, <4>2, <4>3
    <3>2. CASE u # s
      BY <1>1, <1>4, <2>2, <2>3, <2>5, <3>2 DEF JpegInv, EncodeInv, Encodes
    <3> QED
      BY <3>1, <3>2
  <2>10. QueueInv'
    <3>1. \A e \in Entries : EntryOk(e) => EntryOk(e)'
      BY <1>4, <2>1, <2>5 DEF EntryOk, Open, SessionOf, Entries
    <3>2. Within(todo', todo) /\ Within(ongoing', ongoing) /\ JobsDiffer(todo')
      BY <1>4 DEF JpegInv, JpegTypes, TypeQueues, QueueInv, Within, JobsDiffer
    <3>3. \A u \in Slots : Open(omx[u].busy) => Open(omx[u].busy)'
      BY <1>4, <2>1, <2>5 DEF Open
    <3> QED
      BY <2>5, <3>1, <3>2, <3>3, ShrunkQueues
  <2>11. ClientInv'
    BY <1>4, <2>1, <2>2 DEF JpegInv, ClientInv, Open
  <2>12. HandleInv'
    <3>1. \A u \in Slots : Using(u)' = Using(u)
      BY <1>4, <2>5 DEF Using, OfSession
    <3>2. \A u \in Slots : ses[u].abort # "NONE" => ses'[u].abort # "NONE"
      BY <2>3
    <3> QED
      BY <1>1, <2>2, <2>5, <3>1, <3>2 DEF JpegInv, HandleInv
  <2>13. ServiceStep
    BY <1>4, <2>1, <2>5, Silent
  <2> QED
    BY <1>3, <2>6, <2>7, <2>8, <2>9, <2>10, <2>11, <2>12, <2>13 DEF JpegInv
<1> QED
  BY <1>5, <1>6

LEMMA AbortedStep ==
  ASSUME JpegInv, Aborted
  PROVE  JpegInv' /\ ServiceStep
<1>1. api.pc = "aborting" /\ api.ses \in Slots
  BY Holding DEF Aborted
<1>2. UNCHANGED <<ses, omx, todo, ongoing, inprogress, mgr, hal, answers>> /\ AfterAbort
  BY DEF Aborted, sessionVars, queueVars
<1>3. ses[api.ses].abort = "DONE"
  BY DEF Aborted
<1>4. omx[api.ses].busy = None
  BY <1>1, <1>3 DEF JpegInv, EncodeInv
<1>5. KeepsSession(api.ses) /\ ses' \in [Slots -> Sessions]
  BY <1>2 DEF KeepsSession, JpegInv, JpegTypes, TypeSlots
<1> QED
  BY <1>1, <1>2, <1>3, <1>4, <1>5, ApiTypes, AfterAbortStep

LEMMA DestroyReturnsStep ==
  ASSUME JpegInv, DestroyReturns
  PROVE  JpegInv' /\ ServiceStep
<1>1. PICK s \in Slots : s = api.ses
  BY Holding DEF DestroyReturns
<1>2. /\ lock = "api" /\ mgr.pc \notin MgrBusy /\ run["mgr"].at = "ok"
      /\ api.pc = "run" /\ api.call = "destroy"
      /\ ses \in [Slots -> Sessions] /\ omx \in [Slots -> Components] /\ run \in [{"mgr", "api"} -> Changes]
  BY Holding DEF DestroyReturns, JpegInv, JpegTypes, TypeThreads, TypeSlots
<1>3. /\ UNCHANGED <<todo, ongoing, mgr, hal, status, answers>>
      /\ lock' = "free" /\ api' = Idle /\ run' = [run EXCEPT !["api"] = Still]
      /\ ses' = [ses EXCEPT ![s] = Unused] /\ omx' = [omx EXCEPT ![s] = NoComponent]
  BY <1>1 DEF DestroyReturns, clientVars
<1>4. NoEntry(s) /\ ses[s].abort = "DONE" /\ omx[s].busy = None
  BY <1>1, <1>2 DEF JpegInv, CallInv, EncodeInv
<1>5. /\ \A u \in Slots : u # s => ses'[u] = ses[u] /\ omx'[u] = omx[u]
      /\ ses'[s] = Unused /\ omx'[s] = NoComponent
  BY <1>2, <1>3
<1>6. ~ses'[s].active /\ ~ses'[s].encoding /\ ses'[s].abort = "NONE" /\ omx'[s].busy = None
  BY <1>5 DEF Unused, Fresh, NoComponent
<1>7. \A u \in Slots : ~BeingAborted(u) /\ ses[u].abort # "INIT"
  BY <1>2 DEF BeingAborted, JpegInv, EncodeInv
<1>8. LockInv'
  <2>1. Len(ongoing') <= 1 /\ (mgr.pc = "lock" => ongoing = <<>>)
    BY <1>3 DEF JpegInv, LockInv
  <2> QED
    BY <1>2, <1>3, <2>1 DEF LockInv, MgrBusy, Idle
<1>9. ChangeInv'
  <2>1. run'["mgr"].at = "ok" /\ run'["api"].at = "ok"
    BY <1>2, <1>3 DEF Still
  <2> QED
    BY <2>1 DEF ChangeInv
<1>10. CallInv'
  BY <1>3 DEF CallInv, Idle
<1>11. EncodeInv'
  <2> SUFFICES ASSUME NEW u \in Slots
               PROVE  /\ omx'[u].busy # None =>
                           /\ ses'[u].encoding /\ ses'[u].abort # "DONE" /\ omx'[u].busy = ses'[u].job
                           /\ ongoing' = <<Entry(u)'>>
                           /\ ses'[u].handles = 0 /\ omx'[u].cb = "none"
                      /\ Encodes(u)' => omx'[u].busy # None /\ omx'[u].goal = "none"
                      /\ ses'[u].abort # "INIT"
                      /\ ~ses'[u].active => ~ses'[u].encoding
    BY DEF EncodeInv
  <2>1. CASE u = s
    BY <1>6, <2>1 DEF Encodes
  <2>2. CASE u # s
    <3>1. ses'[u] = ses[u] /\ omx'[u] = omx[u] /\ Entry(u)' = Entry(u)
      BY <1>5, <2>2 DEF Entry
    <3> QED
      BY <1>3, <1>7, <3>1 DEF JpegInv, EncodeInv, Encodes
  <2> QED
    BY <2>1, <2>2
<1>12. QueueInv'
  <2>1. ASSUME NEW e \in Entries, EntryOk(e), e.ses # s
        PROVE  EntryOk(e)'
    <3>1. ses'[e.ses] = ses[e.ses]
      BY <1>5, <2>1 DEF Entries
    <3> QED
      BY <1>3, <2>1, <3>1 DEF EntryOk, Open, SessionOf
  <2>2. /\ \A i \in DOMAIN todo' : todo'[i].ses # s
        /\ \A i \in DOMAIN ongoing' : ongoing'[i].ses # s
    BY <1>3, <1>4 DEF NoEntry, OfSession
  <2>3. \A e \in Entries : EntryOk(e) /\ (\/ \E i \in DOMAIN todo' : todo'[i] = e
                                          \/ \E i \in DOMAIN ongoing' : ongoing'[i] = e) => EntryOk(e)'
    BY <2>1, <2>2
  <2>4. Within(todo', todo) /\ Within(ongoing', ongoing) /\ JobsDiffer(todo')
    BY <1>3 DEF JpegInv, JpegTypes, TypeQueues, QueueInv, Within, JobsDiffer
  <2>5. \A u \in Slots : omx'[u].busy # None =>
           omx'[u].busy = omx[u].busy /\ (Open(omx[u].busy) => Open(omx[u].busy)')
    BY <1>3, <1>5, <1>6 DEF Open
  <2> QED
    BY <2>3, <2>4, <2>5, ShrunkQueues
<1>13. ClientInv'
  BY <1>3 DEF JpegInv, ClientInv, Open, Idle
<1>14. HandleInv'
  <2> SUFFICES ASSUME NEW u \in Slots, ses'[u].active
               PROVE  \/ ses'[u].handles + Using(u)' = 1
                      \/ ses'[u].handles + Using(u)' = 0 /\ ses'[u].abort # "NONE"
    BY DEF HandleInv
  <2>1. ses'[u] = ses[u] /\ omx'[u] = omx[u]
    BY <1>5, <1>6
  <2>2. Using(u)' = Using(u)
    BY <1>3, <2>1 DEF Using, OfSession
  <2> QED
    BY <1>2, <2>1, <2>2 DEF JpegInv, HandleInv
<1>15. ServiceStep
  BY <1>3, <1>5, <1>6, Silent
<1> QED
  BY <1>8, <1>9, <1>10, <1>11, <1>12, <1>13, <1>14, <1>15, ApiTypes DEF JpegInv

-----------------------------------------------------------------------------
(* The theorems.                                                            *)

LEMMA JpegInitial ==
  ASSUME Init
  PROVE  JpegInv /\ Service!Init
<1>1. JpegTypes
  <2>1. TypeSlots
    BY ChangeTypes DEF Init, TypeSlots
  <2>2. TypeQueues
    BY EmptySeq DEF Init, TypeQueues
  <2>3. TypeThreads
    BY ChangeTypes DEF Init, TypeThreads, MgrPlaces
  <2>4. TypeClients
    BY DEF Init, TypeClients, HalStates
  <2> QED
    BY <2>1, <2>2, <2>3, <2>4 DEF JpegTypes
<1>2. /\ ongoing = <<>> /\ todo = <<>> /\ lock = "free" /\ mgr.pc = "wait" /\ api = Idle
      /\ run["mgr"] = Still /\ run["api"] = Still
      /\ \A s \in Slots : ses[s] = Unused /\ omx[s] = NoComponent
      /\ \A j \in Jobs : status[j] = "new" /\ answers[j] = 0
  BY DEF Init
<1>3. LockInv /\ ChangeInv /\ CallInv
  <2>1. Len(ongoing) <= 1
    BY <1>2
  <2> QED
    BY <1>2, <2>1 DEF LockInv, ChangeInv, CallInv, MgrBusy, Idle, Still
<1>4. \A s \in Slots : ~ses[s].active /\ ~ses[s].encoding /\ ses[s].abort = "NONE" /\ omx[s].busy = None
  <2>1. ~Unused.active /\ ~Unused.encoding /\ Unused.abort = "NONE" /\ NoComponent.busy = None
    BY DEF Unused, Fresh, NoComponent
  <2> QED
    BY <1>2, <2>1
<1>5. EncodeInv /\ HandleInv
  BY <1>4 DEF EncodeInv, HandleInv, Encodes
<1>6. QueueInv
  BY <1>2, <1>4 DEF QueueInv, JobsDiffer
<1>7. ClientInv
  BY <1>2 DEF ClientInv, Open
<1>8. Service!Init
  <2>1. Reading = {}
    BY <1>4, NoReader
  <2> QED
    BY <2>1 DEF Init, Service!Init
<1> QED
  BY <1>1, <1>3, <1>5, <1>6, <1>7, <1>8 DEF JpegInv

LEMMA JpegStep ==
  ASSUME JpegInv, [Next]_vars
  PROVE  JpegInv' /\ ServiceStep
<1>1. CASE UNCHANGED vars
  <2>1. UNCHANGED <<ses, omx, todo, ongoing, inprogress, lock, mgr, api, run, hal, status, answers>>
    BY <1>1 DEF vars
  <2>2. QuietStep
    BY <2>1 DEF QuietStep, KeepsClients, Quiet, KeepsSession, KeepsAbort, KeepsBusy, KeepsGoal, KeepsHandle
  <2>3. \A t \in {"mgr", "api"} : Moves(t)
    BY <2>1 DEF Moves
  <2> QED
    BY <2>1, <2>2, <2>3, ChangeGoesOn, StepTypes, QuietKeeps
<1>2. ASSUME NEW s \in Slots, ComponentStep(s)
      PROVE  JpegInv' /\ ServiceStep
  BY <1>2, CompleteStep, EventErrorStep, FillDoneStep, HandleBackStep DEF ComponentStep
<1>3. ASSUME MgrStep
      PROVE  JpegInv' /\ ServiceStep
  BY <1>3, QuietMgrStep, TakeJobStep, EncodeStep, GiveUpStep, SendCommandStep, ExecStep DEF MgrStep
<1>4. ASSUME ApiStep
      PROVE  JpegInv' /\ ServiceStep
  BY <1>4, CreateReturnsStep, PurgeStep, SessionAbortStep, AbortedStep, DestroyReturnsStep,
     SendCommandStep, ExecStep DEF ApiStep
<1>5. ASSUME NEW c \in Clients, ClientStep(c)
      PROVE  JpegInv' /\ ServiceStep
  BY <1>5, CreateStep, StartJobStep, StopStep, AbortJobStep, EndStopStep DEF ClientStep
<1> QED
  BY <1>1, <1>2, <1>3, <1>4, <1>5 DEF Next

(* The inductive invariant of mm_jpeg.c's locks, queues, sessions and       *)
(* clients holds in every reachable state.                                  *)
THEOREM JpegInvariance == Spec => []JpegInv
<1>1. Init => JpegInv
  BY JpegInitial
<1>2. JpegInv /\ [Next]_vars => JpegInv'
  BY JpegStep
<1> QED
  BY <1>1, <1>2, PTL DEF Spec

(* No session handle is lost or doubled: at most one job is under way, and  *)
(* the handle of a session is in its queue, with that job, with the callback *)
(* that ends it, or given up because of an abort (mm_jpeg.c, the            *)
(* session_handle_q of each session).                                       *)
THEOREM HandlesAreConserved == Spec => []HandlesConserved
<1>1. ASSUME JpegInv
      PROVE  HandlesConserved
  <2>1. Len(ongoing) <= 1 /\ ongoing \in Seq(Entries)
    BY <1>1 DEF JpegInv, JpegTypes, TypeQueues, LockInv
  <2>2. ASSUME NEW s \in Slots
        PROVE  UsersOf(s) = Using(s)
    <3>1. {i \in DOMAIN ongoing : ongoing[i].ses = s} = OfSession(ongoing, s)
      BY DEF OfSession
    <3>2. OfSession(ongoing, s) = {} \/ OfSession(ongoing, s) = {1}
      <4>1. CASE ongoing = <<>>
        BY <4>1 DEF OfSession
      <4>2. CASE ongoing # <<>>
        <5>1. DOMAIN ongoing = {1}
          BY <2>1, <4>2, AtMostOne
        <5> QED
          BY <5>1 DEF OfSession
      <4> QED
        BY <4>1, <4>2
    <3>3. Cardinality({}) = 0 /\ Cardinality({1}) = 1
      BY FS_EmptySet, FS_Singleton
    <3>4. Cardinality(OfSession(ongoing, s)) = IF OfSession(ongoing, s) # {} THEN 1 ELSE 0
      BY <3>2, <3>3
    <3> QED
      BY <3>1, <3>4 DEF UsersOf, Using
  <2> QED
    BY <1>1, <2>1, <2>2 DEF HandlesConserved, JpegInv, HandleInv
<1> QED
  BY <1>1, JpegInvariance, PTL

(* mm_jpeg.c implements JpegService: a job that was accepted has at most    *)
(* one callback and none after it was withdrawn, and the buffers of a job   *)
(* are read only while it is open, those of one job at a time.              *)
THEOREM JpegServiceImplemented == Spec => ServiceSpec
<1>1. Init => Service!Init
  BY JpegInitial
<1>2. JpegInv /\ [Next]_vars => [Service!Next]_(Service!vars)
  BY JpegStep DEF ServiceStep
<1> QED
  BY <1>1, <1>2, JpegInvariance, PTL DEF Spec, ServiceSpec, Service!Spec
=============================================================================
